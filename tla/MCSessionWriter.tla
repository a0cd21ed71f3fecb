--------------------------- MODULE MCSessionWriter ---------------------------
(* Two finals, a rewrite of the first one, and a lifecycle boundary.         *)
EXTENDS SessionWriter

Final(id) == [id |-> id, kind |-> "final", segment |-> id, value |-> "heard"]
Correction(id, s, text) == [id |-> id, kind |-> "correction", segment |-> s, value |-> text]
Boundary(id) == [id |-> id, kind |-> "lifecycle", segment |-> 0, value |-> "none"]

MCEvents == {Final(1), Final(2), Correction(3, 1, "first"), Boundary(4)}

=============================================================================
