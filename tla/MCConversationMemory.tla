------------------------ MODULE MCConversationMemory ------------------------
(* Instances of ConversationMemory: a question and small talk in one chat. *)
EXTENDS ConversationMemory, TLC

CONSTANTS question, chat

OneEach == (question :> "question") @@ (chat :> "chat")

=============================================================================
