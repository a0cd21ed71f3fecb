--------------------------- MODULE MCProjectLibrary ---------------------------
(* One project in each of two workspaces.                                    *)
EXTENDS ProjectLibrary

MCHome == [p \in Projects |-> IF p = "p1" THEN "documents" ELSE "elsewhere"]

=============================================================================
