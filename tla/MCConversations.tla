--------------------------- MODULE MCConversations ---------------------------
(* Conversations for TLC: one conversation, with much in it.           *)
EXTENDS Conversations
==============================================================================
