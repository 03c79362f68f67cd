--------------------------- MODULE MCReplyStream ---------------------------
(***************************************************************************)
(* ReplyStream on a small instance.                                        *)
(***************************************************************************)
EXTENDS ReplyStream
=============================================================================
