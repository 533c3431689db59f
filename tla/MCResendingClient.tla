-------------------------- MODULE MCResendingClient --------------------------
(* Small instances of ResendingClient for TLC. *)
EXTENDS ResendingClient, MCReliableQueue

(* The claim that a worker may write again. *)
Built(w) ==
  ClaimOf(w, sent[w].task, pc[w] = "save_processing", sent[w].reading + 1)

Rewritable ==
  {Built(w) : w \in {v \in Workers :
     sent[v] # NoCommand /\ pc[v] \in {"mark_started", "save_processing"}}}

Scanned(S) == {<<Undated(c), ClaimUnchanged(c), c \in Rewritable>> : c \in S}

(* What was sent matters only while it may be sent again; readings are      *)
(* compared with the current claims and with those only.                   *)
SentAgain ==
  <<[w \in Workers |->
      IF sent[w] = NoCommand THEN NoCommand ELSE [sent[w] EXCEPT !.reading = 0]],
    [r \in Reapers |->
      IF sent[r] = NoCommand THEN NoCommand
      ELSE <<Scanned(sent[r].snapshot), sent[r].rpc>>],
    [r \in Reapers |-> Scanned(snapshot[r])]>>

ResendBehaviour ==
  <<BehaviourOnly, [j \in Jobs |-> stage[j] = "count"], resends,
    IF resends < MaxResends THEN <<pc, rpc, SentAgain>> ELSE <<>>>>

============================================================================
