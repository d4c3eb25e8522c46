--------------------------- MODULE MCConversation ---------------------------
(* A small instance of Conversation.                                       *)
EXTENDS Conversation, TLC

Symmetric == Permutations(Handler) \cup Permutations(Key)
=============================================================================
