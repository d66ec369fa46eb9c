--------------------------- MODULE MCConversation ---------------------------
(***************************************************************************)
(* Bounded instances of Conversation: up to three requests of any kind on  *)
(* a message of the user, a message of the agent and one attachment.       *)
(***************************************************************************)
EXTENDS Conversation, TLC

\* Requests are interchangeable; used by safety runs only.
Symmetry == Permutations(Requests)
=============================================================================
