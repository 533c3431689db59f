---------------------------- MODULE RedisStore ----------------------------
(***************************************************************************)
(* The Redis keys that app/scheduler/redis_queue.py reads and writes, and  *)
(* the single Redis commands its methods are made of.  Redis runs one      *)
(* command, one MULTI/EXEC block or one Lua script at a time, so each of   *)
(* those is one step of the modules that extend this one; everything       *)
(* between two of them may be interleaved with the other processes.        *)
(***************************************************************************)
EXTENDS Integers, FiniteSets, SequencesExt

CONSTANTS
  Jobs,           \* job ids, uuid4() in enqueue()
  Workers,        \* worker ids, one per worker process
  MaxRetries,     \* DEFAULT_MAX_RETRIES: failed inferences that are retried
  MaxRecoveries,  \* MAX_RECOVERIES: expired claims that are requeued
  RedisErrors,    \* TRUE: a Redis call may raise, or its reply may be lost
  NoClaim         \* no field for this job in the claims hash

ASSUME BudgetsAreNaturals == MaxRetries \in Nat /\ MaxRecoveries \in Nat
ASSUME RedisErrorsIsBoolean == RedisErrors \in BOOLEAN
ASSUME JobsAndWorkersAreFinite == IsFiniteSet(Jobs) /\ IsFiniteSet(Workers)

VARIABLES
  tasks,       \* kvcache:tasks, the pending list of payloads
  processing,  \* kvcache:processing, the payloads BLMOVEd to a worker
  claims,      \* kvcache:processing:claims, job |-> claim
  deadLetter,  \* kvcache:dead_letter, list of dead letter records
  status,      \* kvcache:status:<job>, the "status" field
  results,     \* jobs that have a kvcache:result:<job> key
  stats,       \* kvcache:queue:stats and the counts of the two histograms
  clock        \* per job, the last created_at reading given to a payload

store == <<tasks, processing, claims, deadLetter, status, results, stats, clock>>

(***************************************************************************)
(* A payload is the JSON text of a task.  Two payloads are the same text   *)
(* iff they agree on the job and on the three fields that change during    *)
(* its life; created_at is a time.time() reading, taken as distinct from   *)
(* every other reading made for the job.                                   *)
(***************************************************************************)
Payload == [job : Jobs, attempts : Nat, recoveries : Nat, created : Nat]

NewPayload(j) == [job |-> j, attempts |-> 0, recoveries |-> 0, created |-> 0]

(* Slips: created_at is kept; the attempts left are counted, not those used. *)
RetriedUnstamped(p, now) == [p EXCEPT !.attempts = @ + 1]
RetriedCountingDown(p, now) == [p EXCEPT !.attempts = @ - 1, !.created = now]

(* What requeue() turns a payload into: one more attempt, a new created_at. *)
Retried(p, now) == [job |-> p.job, attempts |-> p.attempts + 1,
                    recoveries |-> p.recoveries, created |-> now]

(* Slip: the recovery is not counted in the payload. *)
RecoveredUncounted(p) == p

(* What the reaper turns it into: one more recovery, created_at is kept.   *)
Recovered(p) == [p EXCEPT !.recoveries = @ + 1]

(***************************************************************************)
(* A claim is the JSON text dequeue() and set_processing() store for a     *)
(* job.  It carries claimed_at and, once started, processing_started_at;   *)
(* the later of the two readings tells it from every other claim of the    *)
(* same worker for the same payload.                                       *)
(***************************************************************************)
Claim == [payload : Payload, worker : Workers, started : BOOLEAN, reading : Nat]

ASSUME NoClaimIsNone == NoClaim \notin Claim

DeadLetter == [payload : Payload, reason : {"retry_limit", "recovery_limit"}]

Statuses == {"none", "queued", "processing", "completed", "failed"}

Counters == {"submitted", "attempts", "completed", "failed", "retries",
             "recoveries", "dead_lettered", "waits", "inferences"}

StoreTypeOK ==
  /\ tasks \in Seq(Payload)
  /\ processing \in Seq(Payload)
  /\ claims \in [Jobs -> Claim \cup {NoClaim}]
  /\ deadLetter \in Seq(DeadLetter)
  /\ status \in [Jobs -> Statuses]
  /\ results \in SUBSET Jobs
  /\ stats \in [Counters -> Nat]
  /\ clock \in [Jobs -> Nat]

StoreInit ==
  /\ tasks = <<>>
  /\ processing = <<>>
  /\ claims = [j \in Jobs |-> NoClaim]
  /\ deadLetter = <<>>
  /\ status = [j \in Jobs |-> "none"]
  /\ results = {}
  /\ stats = [c \in Counters |-> 0]
  /\ clock = [j \in Jobs |-> 0]

----------------------------------------------------------------------------
(* Redis commands.  Each says what happens to the keys it names only.      *)

(* RPUSH kvcache:tasks *)
PushTask(p) == tasks' = Append(tasks, p)

(* LREM kvcache:processing 1 p *)
RemoveProcessing(p) == processing' = RemoveFirst(processing, p)

(* HSET / HDEL kvcache:processing:claims *)
PutClaim(c) == claims' = [claims EXCEPT ![c.payload.job] = c]
DropClaim(j) == claims' = [claims EXCEPT ![j] = NoClaim]

(* SET kvcache:status:<job> *)
SetStatus(j, s) == status' = [status EXCEPT ![j] = s]

(* HINCRBY kvcache:queue:stats, or the count of an observed histogram *)
Increment(c) == stats' = [stats EXCEPT ![c] = @ + 1]

(* Slip: the record never reaches the list. *)
DropDeadLetter(p, why) == UNCHANGED deadLetter

(* RPUSH kvcache:dead_letter *)
PushDeadLetter(p, why) ==
  deadLetter' = Append(deadLetter, [payload |-> p, reason |-> why])

(* Slips: the payload is left in the processing list; nothing is removed. *)
AckClaimOnly(p, remembered) == UNCHANGED processing /\ DropClaim(p.job)
AckNothing(p, remembered) == UNCHANGED <<processing, claims>>

(***************************************************************************)
(* _queue_ack: LREM of the payload the caller still remembers, and an      *)
(* unconditional HDEL of the job's claim, whoever wrote it.                *)
(***************************************************************************)
Ack(p, remembered) ==
  /\ \/ remembered /\ RemoveProcessing(p)
     \/ ~remembered /\ UNCHANGED processing
  /\ DropClaim(p.job)

(* The copies of a job that the queue still holds. *)
PendingOf(j) == {i \in DOMAIN tasks : tasks[i].job = j}
InProcessing(j) == {i \in DOMAIN processing : processing[i].job = j}
Held(j) == PendingOf(j) # {} \/ InProcessing(j) # {}

Buried(j) == \E i \in DOMAIN deadLetter : deadLetter[i].payload.job = j

============================================================================
