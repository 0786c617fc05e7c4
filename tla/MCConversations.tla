--------------------------- MODULE MCConversations ---------------------------
(***************************************************************************)
(* A small instance of Conversations for TLC.                              *)
(***************************************************************************)
EXTENDS Conversations
=============================================================================
