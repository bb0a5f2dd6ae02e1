------------------------ MODULE MCConversationReads -------------------------
(* A reader of one conversation.                                            *)
EXTENDS ConversationReads
=============================================================================
