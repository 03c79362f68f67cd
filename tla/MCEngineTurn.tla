---------------------------- MODULE MCEngineTurn ----------------------------
(***************************************************************************)
(* EngineTurn on a small instance.                                         *)
(***************************************************************************)
EXTENDS EngineTurn
=============================================================================
