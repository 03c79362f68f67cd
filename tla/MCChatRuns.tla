----------------------------- MODULE MCChatRuns -----------------------------
(***************************************************************************)
(* ChatRuns on a small instance.                                           *)
(***************************************************************************)
EXTENDS ChatRuns
=============================================================================
