---------------------------- MODULE MCChatServer ----------------------------
(* Small instances of ChatServer for TLC. *)
EXTENDS ChatServer

(* No budget, and one that evicts in every turn *)
NoOpAndOne == {NoBudget, 1}

============================================================================
