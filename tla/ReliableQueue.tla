--------------------------- MODULE ReliableQueue ---------------------------
(***************************************************************************)
(* The asynchronous half of kvcache-serve: API processes that enqueue      *)
(* jobs, worker processes that run them and reaper processes that take     *)
(* back the ones whose worker stopped, interleaved on the keys of one      *)
(* Redis.                                                                  *)
(***************************************************************************)
EXTENDS Producer, Reaper

vars == <<store, stage, worker, reaper>>

Init == StoreInit /\ ProducerInit /\ WorkerInit /\ ReaperInit

ProducerNext == \E j \in Jobs : Enqueue(j) \/ EnqueueFails(j)
WorkerNext == \E w \in Workers : WorkerStep(w) \/ Crash(w)
ReaperNext == \E r \in Reapers : Scan(r) \/ ReaperStep(r) \/ ScanFails(r)

Next ==
  \/ ProducerNext /\ UNCHANGED <<worker, reaper>>
  \/ WorkerNext /\ UNCHANGED <<stage, reaper>>
  \/ ReaperNext /\ UNCHANGED <<stage, worker>>

Spec == Init /\ [][Next]_vars

(***************************************************************************)
(* Fairness.  The API process runs a call to its end unless it fails, and  *)
(* a worker whose supervisor restarts it keeps looping (WF).  The reaper   *)
(* wakes up every interval for ever; a claim past its timeout stays past   *)
(* it, so each scan that starts then includes it: the scan that includes a *)
(* given claim is possible again and again and must be taken in the end    *)
(* (SF), and not every scan fails before it handles anything (SF).         *)
(***************************************************************************)
ScanFor(r, j) == Scan(r) /\ claims[j] \in snapshot'[r] /\ UNCHANGED <<stage, worker>>

Fairness ==
  /\ \A j \in Jobs : WF_vars(Enqueue(j) /\ UNCHANGED <<worker, reaper>>)
  /\ \A w \in Workers : WF_vars(WorkerStep(w) /\ UNCHANGED <<stage, reaper>>)
  /\ \A r \in Reapers :
       /\ SF_vars(ReaperStep(r) /\ UNCHANGED <<stage, worker>>)
       /\ \A j \in Jobs : SF_vars(ScanFor(r, j))

FairSpec == Spec /\ Fairness

----------------------------------------------------------------------------
(* Invariants that hold whatever fails. *)

(* Every list, hash and local variable keeps the shape the code gives it. *)
TypeOK == StoreTypeOK /\ ProducerTypeOK /\ WorkerTypeOK /\ ReaperTypeOK

(***************************************************************************)
(* A submitted job is never lost: the queue holds a copy of it, or its     *)
(* result is stored, or it is kept as a dead letter, after any order of    *)
(* crashes, failed calls, expired claims and late workers.                 *)
(***************************************************************************)
NoJobLost ==
  \A j \in Jobs : Submitted(j) => Held(j) \/ j \in results \/ Buried(j)

(***************************************************************************)
(* No two payloads in the lists are the same text, so that the LREM of one *)
(* never removes the copy of somebody else: what created_at is rewritten   *)
(* for in requeue().                                                       *)
(***************************************************************************)
PayloadsDistinct == IsInjective(tasks \o processing)

Within(p) == p.attempts <= MaxRetries /\ p.recoveries <= MaxRecoveries

Exhausted(d) ==
  LET p == d.payload IN
  \/ /\ d.reason = "retry_limit"
     /\ p.attempts = MaxRetries
     /\ p.recoveries <= MaxRecoveries
  \/ /\ d.reason = "recovery_limit"
     /\ p.attempts <= MaxRetries
     /\ p.recoveries = MaxRecoveries + 1

(***************************************************************************)
(* A job is executed again only within its two budgets, and a dead letter  *)
(* records the budget that was really exhausted.                           *)
(***************************************************************************)
BudgetRespected ==
  /\ \A p \in Range(tasks) \cup Range(processing) : Within(p)
  /\ \A d \in Range(deadLetter) : Exhausted(d)

(***************************************************************************)
(* What a client reads as the status of its job is backed by the rest of   *)
(* the store: a completed job has a result, a failed one a dead letter,    *)
(* and a queued one is really in the queue.                                *)
(***************************************************************************)
StatusBacked ==
  \A j \in Jobs :
    /\ status[j] = "completed" => j \in results
    /\ status[j] = "failed" => Buried(j)
    /\ status[j] = "queued" /\ Submitted(j) => Held(j)

(***************************************************************************)
(* Four counters behind the Prometheus metrics are written after what they *)
(* count, by commands of their own, and never run ahead of it: submissions *)
(* of the jobs submitted, observed waits of the attempts counted, jobs     *)
(* counted as dead-lettered of those counted as failed, and these of the   *)
(* letters in the dead letter list.                                        *)
(***************************************************************************)
CountersLag ==
  /\ stats["submitted"] <= Cardinality({j \in Jobs : Submitted(j)})
  /\ stats["waits"] <= stats["attempts"]
  /\ stats["dead_lettered"] <= stats["failed"]
  /\ stats["failed"] <= Len(deadLetter)

(***************************************************************************)
(* The inductive part of the two invariants before: wherever a process     *)
(* keeps a payload, even one that has left the lists long ago, it is the   *)
(* payload of a submitted job and within its budgets.                      *)
(***************************************************************************)
Known(p) == Submitted(p.job) /\ Within(p)

PayloadsKnown ==
  /\ \A p \in Range(tasks) \cup Range(processing) : Known(p)
  /\ \A w \in Workers : pc[w] # "idle" => Known(task[w])
  /\ \A j \in Jobs : claims[j] # NoClaim => Known(claims[j].payload)
  /\ \A r \in Reapers : \A c \in snapshot[r] : Known(c.payload)

DeadLettersKnown ==
  \A d \in Range(deadLetter) : Submitted(d.payload.job) /\ Exhausted(d)

(* The queue implements the at-least-once promise. *)
Promise == INSTANCE AtLeastOnce WITH
  submitted <- {j \in Jobs : Submitted(j)},
  held      <- {j \in Jobs : Held(j)},
  stored    <- results,
  buried    <- {j \in Jobs : Buried(j)}

(* Every behaviour of the queue is one of AtLeastOnce: jobs leave the queue *)
(* only by being settled, and results and dead letters are never undone.    *)
ImplementsAtLeastOnce == Promise!Spec

----------------------------------------------------------------------------
(* Properties of a queue whose timeout exceeds every execution              *)
(* (Preempt = FALSE), as README.md asks of a deployment.                    *)

(* A job has at most one copy in the lists, whoever crashed or failed. *)
SingleCopy ==
  \A j \in Jobs : Cardinality(PendingOf(j)) + Cardinality(InProcessing(j)) <= 1

(* Two workers never run the same job at the same time. *)
OneExecutor ==
  \A v, w \in Workers :
    Executing(v) /\ Executing(w) /\ task[v].job = task[w].job => v = w

(***************************************************************************)
(* Once the queue holds no copy of a submitted job its status is final, so *)
(* that a client polling it does not wait for ever.                        *)
(***************************************************************************)
SettledStatus ==
  \A j \in Jobs :
    Submitted(j) /\ ~Held(j) => status[j] \in {"completed", "failed"}

(* A job costs at most one execution per retry and per recovery, plus one. *)
WorkBounded ==
  stats["attempts"] <= Cardinality(Jobs) * (1 + MaxRetries + MaxRecoveries)

(***************************************************************************)
(* A payload in the processing list is either being worked on or covered   *)
(* by its claim.  The reaper finds work through the claims only, so a      *)
(* payload with neither stays there for ever.                              *)
(***************************************************************************)
ClaimedOrExecuted ==
  \A i \in DOMAIN processing :
    LET p == processing[i] IN
    \/ \E w \in Workers : Executing(w) /\ task[w] = p
    \/ claims[p.job] # NoClaim /\ claims[p.job].payload = p

Phase(j) ==
  CASE ~Submitted(j)           -> "new"
    [] PendingOf(j) # {}       -> "waiting"
    [] InProcessing(j) # {}    -> "leased"
    [] ~Held(j) /\ Submitted(j) -> IF Buried(j) THEN "buried" ELSE "stored"

OwnersOf(j) == {w \in Workers : Executing(w) /\ task[w].job = j}

Lease == INSTANCE JobLease WITH
  Nobody <- NoTask,
  phase  <- [j \in Jobs |-> Phase(j)],
  owner  <- [j \in Jobs |->
               IF OwnersOf(j) = {} THEN NoTask ELSE CHOOSE w \in OwnersOf(j) : TRUE]

(***************************************************************************)
(* Every behaviour without failing Redis calls is one of JobLease: one     *)
(* owner at a time, settled by its owner, revoked only after its death.    *)
(***************************************************************************)
ImplementsJobLease == Lease!Spec

(* A job read as completed is never read as anything else afterwards, until *)
(* the key expires.                                                         *)
CompletedStays ==
  [][\A j \in Jobs :
       status[j] = "completed" => status'[j] \in {"completed", "none"}]_vars

----------------------------------------------------------------------------
(* Liveness, under FairSpec. *)

(* A submitted job is settled for good: no copy is left to run, and its     *)
(* status says completed or failed from then on.                            *)
SettlesForGood ==
  \A j \in Jobs :
    Submitted(j) ~> [](~Held(j) /\ status[j] \in {"completed", "failed"})

(* Both lists and the claims hash drain, however late the workers are. *)
Drains ==
  <>[](/\ tasks = <<>>
       /\ processing = <<>>
       /\ \A j \in Jobs : claims[j] = NoClaim)

----------------------------------------------------------------------------
(* What README.md says of the queue and the code does not keep. *)

(* README.md:692, the reaper solves the problem that a task stays in the   *)
(* processing list for a long time after its worker crashed.  Violated by  *)
(* a crash between the BLMOVE and the first HSET of the claim.             *)
NoStuckProcessing ==
  \A j \in Jobs : InProcessing(j) # {} ~> InProcessing(j) = {}

(* README.md:699-702, a job becomes a dead letter when its inference keeps *)
(* failing or its workers keep crashing.  Violated when the reply to the   *)
(* MULTI of set_result(), or its counter, fails: the result is stored and  *)
(* the job still ends as a dead letter of the retry limit.                 *)
DeadLettersFailed ==
  \A d \in Range(deadLetter) :
    d.reason = "retry_limit" => d.payload.job \notin results

============================================================================
