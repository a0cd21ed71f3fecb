--------------------------- MODULE MCDetachedWindows ---------------------------
(* Both windows; commands are about the first.                               *)
EXTENDS DetachedWindows

MCWindows == <<"transcript", "insights">>
MCRemembered == {[look |-> "dim", on |-> TRUE]}

=============================================================================
