--------------------------- MODULE MCModelInstaller ---------------------------
(* Two models of two chunks.                                                 *)
EXTENDS ModelInstaller

CONSTANTS Tiny, Base

MCModels == {Tiny, Base}

=============================================================================
