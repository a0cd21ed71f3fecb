--------------------------- MODULE MCSessionCatalog ---------------------------
(* Two sessions, one updated up to three revisions.                          *)
EXTENDS SessionCatalog, TLC

Symmetry == Permutations(Ids)

=============================================================================
