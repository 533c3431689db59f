------------------------------ MODULE Worker ------------------------------
(***************************************************************************)
(* The worker process: main() of app/worker.py, process_task(), and the    *)
(* RedisQueue methods they call.  pc[w] names the next Redis command (or   *)
(* local step) of worker w, so that every other process may run between    *)
(* any two of them.                                                        *)
(***************************************************************************)
EXTENDS RedisStore

CONSTANTS
  CrashPcs,      \* the steps before which a worker process may die
  NoTask         \* task[w] of a worker that waits in BLMOVE

WorkerPcs == {"idle", "record_claim", "mark_started", "save_processing",
              "count_attempt", "observe_wait", "generate", "count_completed",
              "handle_error", "count_retry", "count_failed", "count_dead",
              "record_duration"}

ASSUME CrashPcsAreSteps == CrashPcs \subseteq WorkerPcs \ {"idle"}

VARIABLES
  pc,          \* next step of each worker
  task,        \* the payload it dequeued
  remembered,  \* task.processing_payload is not None
  reading      \* the last time.time() it put into a claim

worker == <<pc, task, remembered, reading>>

WorkerTypeOK ==
  /\ pc \in [Workers -> WorkerPcs]
  /\ task \in [Workers -> Payload \cup {NoTask}]
  /\ remembered \in [Workers -> BOOLEAN]
  /\ reading \in [Workers -> Nat]
  /\ \A w \in Workers : pc[w] # "idle" => task[w] \in Payload

WorkerInit ==
  /\ pc = [w \in Workers |-> "idle"]
  /\ task = [w \in Workers |-> NoTask]
  /\ remembered = [w \in Workers |-> FALSE]
  /\ reading = [w \in Workers |-> 0]

Goto(w, from, to) ==
  /\ pc[w] = from
  /\ pc' = [pc EXCEPT ![w] = to]

(* _clear_claim: the worker forgets the payload it would have to remove. *)
Forget(w) == remembered' = [remembered EXCEPT ![w] = FALSE]

----------------------------------------------------------------------------
(* dequeue() *)

(* Slip: the head is copied to the processing list but not popped. *)
DequeueCopying(w) ==
  /\ Goto(w, "idle", "record_claim")
  /\ tasks # <<>>
  /\ processing' = Append(processing, Head(tasks))
  /\ task' = [task EXCEPT ![w] = Head(tasks)]
  /\ remembered' = [remembered EXCEPT ![w] = TRUE]
  /\ UNCHANGED <<tasks, claims, deadLetter, status, results, stats, clock, reading>>

(* BLMOVE tasks processing LEFT RIGHT; an empty list leaves the worker idle *)
Dequeue(w) ==
  /\ Goto(w, "idle", "record_claim")
  /\ tasks # <<>>
  /\ tasks' = Tail(tasks)
  /\ processing' = Append(processing, Head(tasks))
  /\ task' = [task EXCEPT ![w] = Head(tasks)]
  /\ remembered' = [remembered EXCEPT ![w] = TRUE]
  /\ UNCHANGED <<claims, deadLetter, status, results, stats, clock, reading>>

(* The claim with the time it is written at. *)
ClaimOf(w, p, started, now) ==
  [payload |-> p, worker |-> w, started |-> started, reading |-> now]

(* HSET of a claim with a new reading of the clock *)
WriteClaim(w, started) ==
  /\ reading' = [reading EXCEPT ![w] = @ + 1]
  /\ PutClaim(ClaimOf(w, task[w], started, reading[w] + 1))
  /\ UNCHANGED <<tasks, processing, deadLetter, status, results, stats, clock,
                 task, remembered>>

RecordClaim(w) == Goto(w, "record_claim", "mark_started") /\ WriteClaim(w, FALSE)

----------------------------------------------------------------------------
(* set_processing() *)

MarkStarted(w) == Goto(w, "mark_started", "save_processing") /\ WriteClaim(w, TRUE)

SaveProcessing(w) ==
  /\ Goto(w, "save_processing", "count_attempt")
  /\ SetStatus(task[w].job, "processing")
  /\ UNCHANGED <<tasks, processing, claims, deadLetter, results, stats, clock,
                 task, remembered, reading>>

(* A step that only counts: HINCRBY, or the MULTI of a histogram. *)
CountStep(w, from, counter, to) ==
  /\ Goto(w, from, to)
  /\ Increment(counter)
  /\ UNCHANGED <<tasks, processing, claims, deadLetter, status, results, clock,
                 task, remembered, reading>>

CountAttempt(w) == CountStep(w, "count_attempt", "attempts", "observe_wait")
ObserveWait(w) == CountStep(w, "observe_wait", "waits", "generate")

----------------------------------------------------------------------------
(* The try block: generate() and set_result() *)

(* Policy creation, generate() or result_to_dict() raises, or the MULTI of *)
(* set_result() is refused and applies nothing.                            *)
InferenceFails(w) ==
  /\ Goto(w, "generate", "handle_error")
  /\ UNCHANGED <<store, task, remembered, reading>>

(* MULTI of set_result(): SET result, SET status, ack *)
StoreResult(w) ==
  LET j == task[w].job IN
  /\ results' = results \cup {j}
  /\ SetStatus(j, "completed")
  /\ Ack(task[w], remembered[w])
  /\ UNCHANGED <<tasks, deadLetter, stats, clock, task, reading>>

SaveResult(w) ==
  /\ Goto(w, "generate", "count_completed")
  /\ StoreResult(w)
  /\ Forget(w)

(* The MULTI is applied but execute() raises: set_result() is called inside *)
(* the try, so the error handler runs for a job whose result is stored.     *)
SaveResultReplyLost(w) ==
  /\ RedisErrors
  /\ Goto(w, "generate", "handle_error")
  /\ StoreResult(w)
  /\ UNCHANGED remembered

CountCompleted(w) ==
  CountStep(w, "count_completed", "completed", "record_duration")

(* The counter of set_result() raises, inside the same try. *)
CountCompletedFails(w) ==
  /\ RedisErrors
  /\ Goto(w, "count_completed", "handle_error")
  /\ UNCHANGED <<store, task, remembered, reading>>

----------------------------------------------------------------------------
(* The except block: requeue() or set_error() *)

(* Slip: one retry too many. *)
RetriesLeftTooLong(p) == p.attempts <= MaxRetries

(* process_task(): retry or give up *)
RetriesLeft(p) == p.attempts < MaxRetries

(* Slips: the payload is not pushed back; the new payload is acknowledged    *)
(* instead of the one in the processing list.                               *)
RequeueUnpushed(w) ==
  /\ Goto(w, "handle_error", "count_retry")
  /\ RetriesLeft(task[w])
  /\ SetStatus(task[w].job, "queued")
  /\ Ack(task[w], remembered[w])
  /\ Forget(w)
  /\ UNCHANGED <<tasks, deadLetter, results, stats, clock, task, reading>>

RequeueAckingNew(w) ==
  LET new == Retried(task[w], clock[task[w].job] + 1) IN
  /\ Goto(w, "handle_error", "count_retry")
  /\ RetriesLeft(task[w])
  /\ clock' = [clock EXCEPT ![new.job] = new.created]
  /\ SetStatus(new.job, "queued")
  /\ PushTask(new)
  /\ Ack(new, remembered[w])
  /\ Forget(w)
  /\ UNCHANGED <<deadLetter, results, stats, task, reading>>

(* MULTI of requeue(): SET status, RPUSH of the payload with one more       *)
(* attempt and a new created_at, ack of the old one.                        *)
Requeue(w) ==
  LET j == task[w].job IN
  /\ Goto(w, "handle_error", "count_retry")
  /\ RetriesLeft(task[w])
  /\ clock' = [clock EXCEPT ![j] = @ + 1]
  /\ SetStatus(j, "queued")
  /\ PushTask(Retried(task[w], clock[j] + 1))
  /\ Ack(task[w], remembered[w])
  /\ Forget(w)
  /\ UNCHANGED <<deadLetter, results, stats, task, reading>>

CountRetry(w) == CountStep(w, "count_retry", "retries", "record_duration")

(* MULTI of set_error(): SET status, RPUSH of the dead letter, ack *)
SetError(w) ==
  /\ Goto(w, "handle_error", "count_failed")
  /\ ~RetriesLeft(task[w])
  /\ SetStatus(task[w].job, "failed")
  /\ PushDeadLetter(task[w], "retry_limit")
  /\ Ack(task[w], remembered[w])
  /\ Forget(w)
  /\ UNCHANGED <<tasks, results, stats, clock, task, reading>>

CountFailed(w) == CountStep(w, "count_failed", "failed", "count_dead")
CountDead(w) == CountStep(w, "count_dead", "dead_lettered", "record_duration")

(* A Redis call of the handler raises: nothing catches it but the finally. *)
HandlerFails(w) ==
  /\ RedisErrors
  /\ pc[w] \in {"handle_error", "count_retry", "count_failed", "count_dead"}
  /\ pc' = [pc EXCEPT ![w] = "record_duration"]
  /\ UNCHANGED <<store, task, remembered, reading>>

----------------------------------------------------------------------------
(* Back to the loop of main(), by finishing or by dying: a worker that dies *)
(* is restarted by its supervisor and remembers nothing.                    *)

Reset(w) ==
  /\ pc' = [pc EXCEPT ![w] = "idle"]
  /\ task' = [task EXCEPT ![w] = NoTask]
  /\ Forget(w)
  /\ UNCHANGED reading

(* The finally block; after a failed handler the process then dies, which  *)
(* leaves the same state.                                                   *)
RecordDuration(w) ==
  /\ pc[w] = "record_duration"
  /\ Increment("inferences")
  /\ Reset(w)
  /\ UNCHANGED <<tasks, processing, claims, deadLetter, status, results, clock>>

Crash(w) ==
  /\ pc[w] \in CrashPcs
  /\ Reset(w)
  /\ UNCHANGED store

WorkerStep(w) ==
  \/ Dequeue(w) \/ RecordClaim(w)
  \/ MarkStarted(w) \/ SaveProcessing(w) \/ CountAttempt(w) \/ ObserveWait(w)
  \/ InferenceFails(w) \/ SaveResult(w) \/ SaveResultReplyLost(w)
  \/ CountCompleted(w) \/ CountCompletedFails(w)
  \/ Requeue(w) \/ CountRetry(w)
  \/ SetError(w) \/ CountFailed(w) \/ CountDead(w) \/ HandlerFails(w)
  \/ RecordDuration(w)

(* The worker is responsible for a payload until it acknowledges it. *)
Executing(w) ==
  pc[w] \notin {"idle", "count_completed", "count_retry", "count_failed",
                "count_dead", "record_duration"}

============================================================================
