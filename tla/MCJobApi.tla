------------------------------ MODULE MCJobApi ------------------------------
(* Small instances of JobApi for TLC. *)
EXTENDS JobApi, MCReliableQueue

(***************************************************************************)
(* BehaviourOnly, and what the client depends on.  Its last answer is left *)
(* out: used only for an action property, which TLC checks on every step,  *)
(* the answers that were true when they were given included.               *)
(***************************************************************************)
ClientBehaviour ==
  <<BehaviourOnly, request, [j \in Polled |-> stage[j] = "answered"],
    [j \in Polled |-> stage[j] = "count"]>>

(* The last answers too, and what PolledJob remembers *)
ClientToo == <<ClientBehaviour, answer, lapsed>>

============================================================================
