------------------------- MODULE MCSessionLifecycle -------------------------
(* Two sessions: the one an operation works on, and the one it must leave    *)
(* alone or that recovery visits before or after it.                         *)
EXTENDS SessionLifecycle, TLC

CONSTANTS s1, s2

Symmetry == Permutations({s1, s2})

=============================================================================
