---------------------------- MODULE MCChatThread ----------------------------
(***************************************************************************)
(* ChatThread on a small instance.                                         *)
(***************************************************************************)
EXTENDS ChatThread, TLC

\* Conversations are interchangeable, and so are texts.
Symmetry == Permutations(Convs) \cup Permutations(Texts)
=============================================================================
