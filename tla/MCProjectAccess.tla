--------------------------- MODULE MCProjectAccess ---------------------------
(***************************************************************************)
(* ProjectAccess on a small instance.                                      *)
(***************************************************************************)
EXTENDS ProjectAccess, TLC

Symmetry == Permutations(Uids)
=============================================================================
