----------------------------- MODULE MCRunDocs -----------------------------
(***************************************************************************)
(* RunDocs on a small instance.                                            *)
(***************************************************************************)
EXTENDS RunDocs, TLC

\* Hook processes are interchangeable.
Symmetry == Permutations(Hooks)
=============================================================================
