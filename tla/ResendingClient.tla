--------------------------- MODULE ResendingClient ---------------------------
(***************************************************************************)
(* The queue with a Redis client that sends a command again when its reply *)
(* is lost.  requirements.txt takes any release of redis-py, and recent    *)
(* ones retry by default, a MULTI as well as a BLMOVE: such a command is   *)
(* executed twice, and other processes may run between the two.            *)
(***************************************************************************)
EXTENDS ReliableQueue

CONSTANTS
  MaxResends,   \* bound on the commands executed twice, for model checking
  NoCommand     \* no command that could be sent again

ASSUME MaxResendsIsNatural == MaxResends \in Nat
ASSUME WorkersAreNotReapers == Workers \cap Reapers = {}

VARIABLES
  sent,      \* of each worker and reaper, what it was when it sent its last command
  resends

wire == <<sent, resends>>

resendVars == <<store, stage, worker, reaper, wire>>

ResendInit ==
  /\ Init
  /\ sent = [p \in Workers \cup Reapers |-> NoCommand]
  /\ resends = 0

(* A step that changed a key was a command, any other is local. *)
Sending(p, state) ==
  sent' = [sent EXCEPT ![p] = IF store' = store THEN NoCommand ELSE state]

ResendOnce ==
  /\ resends < MaxResends
  /\ resends' = resends + 1

ResendQueueNext ==
  \/ /\ ProducerNext
     /\ UNCHANGED <<worker, reaper, wire>>
  \/ \E w \in Workers :
       /\ WorkerStep(w) \/ Crash(w)
       /\ Sending(w, [pc |-> pc[w], task |-> task[w], remembered |-> remembered[w],
                      clock |-> clock, reading |-> reading[w]])
       /\ UNCHANGED <<stage, reaper, resends>>
  \/ \E r \in Reapers :
       /\ Scan(r) \/ ReaperStep(r) \/ ScanFails(r)
       /\ Sending(r, [snapshot |-> snapshot[r], rpc |-> rpc[r]])
       /\ UNCHANGED <<stage, worker, resends>>

(* enqueue(): the RPUSH is executed again before the counter is written *)
ResendPush(j) ==
  /\ ResendOnce
  /\ stage[j] = "count"
  /\ PushTask(NewPayload(j))
  /\ UNCHANGED <<processing, claims, deadLetter, status, results, stats, clock,
                 stage, worker, reaper, sent>>

(* requeue(): the MULTI is executed again as it was built, the same payload *)
(* text included                                                            *)
ResendRequeue(w) ==
  LET p == sent[w].task IN
  /\ ResendOnce
  /\ pc[w] = "count_retry"
  /\ sent[w] # NoCommand
  /\ SetStatus(p.job, "queued")
  /\ PushTask(Retried(p, sent[w].clock[p.job] + 1))
  /\ Ack(p, sent[w].remembered)
  /\ sent' = [sent EXCEPT ![w] = NoCommand]
  /\ UNCHANGED <<deadLetter, results, stats, clock, stage, worker, reaper>>

(* dequeue(), set_processing(): the HSET is executed again, the same claim  *)
ResendClaim(w) ==
  LET p == sent[w].task IN
  /\ ResendOnce
  /\ pc[w] \in {"mark_started", "save_processing"}
  /\ sent[w] # NoCommand
  /\ PutClaim(ClaimOf(w, p, pc[w] = "save_processing", sent[w].reading + 1))
  /\ sent' = [sent EXCEPT ![w] = NoCommand]
  /\ UNCHANGED <<tasks, processing, deadLetter, status, results, stats, clock,
                 stage, worker, reaper>>

(* Any other command of a worker: it is where it was before, and its next   *)
(* step is the same command again (or, instead, another outcome of the try: *)
(* the loss of the reply may also be final).                                *)
ResendByWorker(w) ==
  /\ ResendOnce
  /\ pc[w] \notin {"count_retry", "mark_started", "save_processing"}
  /\ sent[w] # NoCommand
  /\ pc' = [pc EXCEPT ![w] = sent[w].pc]
  /\ task' = [task EXCEPT ![w] = sent[w].task]
  /\ remembered' = [remembered EXCEPT ![w] = sent[w].remembered]
  /\ sent' = [sent EXCEPT ![w] = NoCommand]
  /\ UNCHANGED <<store, stage, reading, reaper>>

ResendByReaper(r) ==
  /\ ResendOnce
  /\ sent[r] # NoCommand
  /\ snapshot' = [snapshot EXCEPT ![r] = sent[r].snapshot]
  /\ rpc' = [rpc EXCEPT ![r] = sent[r].rpc]
  /\ sent' = [sent EXCEPT ![r] = NoCommand]
  /\ UNCHANGED <<store, stage, worker>>

ResendNext ==
  \/ ResendQueueNext
  \/ \E j \in Jobs : ResendPush(j)
  \/ \E w \in Workers : ResendRequeue(w) \/ ResendClaim(w) \/ ResendByWorker(w)
  \/ \E r \in Reapers : ResendByReaper(r)

ResendSpec == ResendInit /\ [][ResendNext]_resendVars

----------------------------------------------------------------------------
(***************************************************************************)
(* With a timeout that exceeds every execution (Preempt = FALSE), each     *)
(* command that is executed twice adds one copy of a job at most: the      *)
(* copies do not multiply, although they may be the same text and one is   *)
(* removed on behalf of the other, or taken back from a worker that has    *)
(* another one.                                                            *)
(***************************************************************************)
CopiesBounded ==
  \A j \in Jobs :
    Cardinality(PendingOf(j)) + Cardinality(InProcessing(j)) <= 1 + resends

============================================================================
