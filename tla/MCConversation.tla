--------------------------- MODULE MCConversation ---------------------------
(* The instances of Conversation that TLC checks: worker ids are symmetric. *)
EXTENDS Conversation, TLC

WorkerSymmetry == Permutations(Workers)
=============================================================================
