----------------------------- MODULE PolledJob -----------------------------
(***************************************************************************)
(* What the queue API promises a client that polls its jobs, when no claim *)
(* expires early and no Redis call fails: each job is decided once, the    *)
(* client is told nothing before it is decided but that it is not, and     *)
(* never anything else afterwards, until the answer is no longer kept.     *)
(***************************************************************************)
CONSTANT Jobs

VARIABLES
  outcome,   \* what became of each job
  told,      \* the last thing the client was told about it
  lapsed     \* the jobs that were forgotten before they were decided

vars == <<outcome, told, lapsed>>

Decisions == {"completed", "failed"}

Init ==
  /\ outcome = [j \in Jobs |-> "open"]
  /\ told = [j \in Jobs |-> "nothing"]
  /\ lapsed = {}

Decide(j) ==
  /\ outcome[j] = "open"
  /\ \E d \in Decisions : outcome' = [outcome EXCEPT ![j] = d]
  /\ UNCHANGED <<told, lapsed>>

(* What is known of a job is kept for a limited time only. *)
Lapse(j) ==
  /\ outcome[j] = "open"
  /\ lapsed' = lapsed \cup {j}
  /\ UNCHANGED <<outcome, told>>

(* Neither a decision nor, unless it came too early, the end of what is kept *)
(* is taken back.                                                            *)
MayTell(j, t) ==
  \/ told[j] \in {"nothing", "open", t}
  \/ told[j] = "gone" /\ j \in lapsed

(* The answer to a request may be older than the decision. *)
TellOpen(j) ==
  /\ MayTell(j, "open")
  /\ told' = [told EXCEPT ![j] = "open"]
  /\ UNCHANGED <<outcome, lapsed>>

TellDecision(j) ==
  /\ outcome[j] \in Decisions
  /\ MayTell(j, outcome[j])
  /\ told' = [told EXCEPT ![j] = outcome[j]]
  /\ UNCHANGED <<outcome, lapsed>>

TellGone(j) ==
  /\ outcome[j] \in Decisions \/ j \in lapsed
  /\ told' = [told EXCEPT ![j] = "gone"]
  /\ UNCHANGED <<outcome, lapsed>>

Next ==
  \E j \in Jobs :
    Decide(j) \/ Lapse(j) \/ TellOpen(j) \/ TellDecision(j) \/ TellGone(j)

Spec == Init /\ [][Next]_vars

============================================================================
