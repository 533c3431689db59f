---------------------------- MODULE AtLeastOnce ----------------------------
(***************************************************************************)
(* What the queue promises whatever fails: a submitted job stays in the    *)
(* queue until its result is stored or it is kept as a dead letter, and    *)
(* neither of those is undone.  A job may be executed more than once, and  *)
(* may come back to the queue after it was settled (the at-least-once      *)
(* semantics README.md describes).                                         *)
(***************************************************************************)
CONSTANT Jobs

VARIABLES
  submitted,  \* jobs pushed to the queue
  held,       \* jobs of which the queue holds a copy
  stored,     \* jobs with a stored result
  buried      \* jobs kept as dead letters

vars == <<submitted, held, stored, buried>>

Init ==
  /\ submitted = {}
  /\ held = {}
  /\ stored = {}
  /\ buried = {}

Submit(j) ==
  /\ j \notin submitted
  /\ submitted' = submitted \cup {j}
  /\ held' = held \cup {j}
  /\ UNCHANGED <<stored, buried>>

(* The copy that is settled may be one of several, or already gone. *)
MayRelease(j) == held' = held \/ held' = held \ {j}

Store(j) ==
  /\ j \in submitted
  /\ stored' = stored \cup {j}
  /\ MayRelease(j)
  /\ UNCHANGED <<submitted, buried>>

Bury(j) ==
  /\ j \in submitted
  /\ buried' = buried \cup {j}
  /\ MayRelease(j)
  /\ UNCHANGED <<submitted, stored>>

(* A late retry of a job that was settled meanwhile. *)
ComeBack(j) ==
  /\ j \in submitted \cap (stored \cup buried)
  /\ held' = held \cup {j}
  /\ UNCHANGED <<submitted, stored, buried>>

Next == \E j \in Jobs : Submit(j) \/ Store(j) \/ Bury(j) \/ ComeBack(j)

Spec == Init /\ [][Next]_vars

============================================================================
