----------------------------- MODULE Producer -----------------------------
(***************************************************************************)
(* RedisQueue.enqueue() as the API process runs it for each job: SET of    *)
(* the status, RPUSH of the payload, HINCRBY of the counter, three         *)
(* separate commands.  stage[j] is where the call for job j stands.        *)
(***************************************************************************)
EXTENDS RedisStore

VARIABLE stage

Stages == {"new", "push", "count", "answered", "aborted", "unanswered"}

ProducerTypeOK == stage \in [Jobs -> Stages]

ProducerInit == stage = [j \in Jobs |-> "new"]

(* The job's payload has been pushed: from here on it must not be lost. *)
Submitted(j) == stage[j] \in {"count", "answered", "unanswered"}

EnqueueGoto(j, from, to) ==
  /\ stage[j] = from
  /\ stage' = [stage EXCEPT ![j] = to]

SaveQueuedStatus(j) ==
  /\ EnqueueGoto(j, "new", "push")
  /\ SetStatus(j, "queued")
  /\ UNCHANGED <<tasks, processing, claims, deadLetter, results, stats, clock>>

PushNewTask(j) ==
  /\ EnqueueGoto(j, "push", "count")
  /\ PushTask(NewPayload(j))
  /\ UNCHANGED <<processing, claims, deadLetter, status, results, stats, clock>>

CountSubmitted(j) ==
  /\ EnqueueGoto(j, "count", "answered")
  /\ Increment("submitted")
  /\ UNCHANGED <<tasks, processing, claims, deadLetter, status, results, clock>>

(***************************************************************************)
(* A Redis call of enqueue() raises: the request fails, and what was       *)
(* written before stays.  After the RPUSH the job is in the queue although *)
(* the client never learns its id; queue_size(), called after the counter  *)
(* for the reply, would leave the same keys behind when it raises.         *)
(***************************************************************************)
EnqueueFails(j) ==
  /\ RedisErrors
  /\ \/ EnqueueGoto(j, "push", "aborted")
     \/ EnqueueGoto(j, "count", "unanswered")
  /\ UNCHANGED store

(* Slip: the payload is pushed before its status is saved. *)
EnqueueSwapped(j) ==
  \/ /\ EnqueueGoto(j, "new", "push")
     /\ PushTask(NewPayload(j))
     /\ UNCHANGED <<processing, claims, deadLetter, status, results, stats, clock>>
  \/ /\ EnqueueGoto(j, "push", "count")
     /\ SetStatus(j, "queued")
     /\ UNCHANGED <<tasks, processing, claims, deadLetter, results, stats, clock>>
  \/ CountSubmitted(j)

(* The statements of enqueue() in their order *)
Enqueue(j) == SaveQueuedStatus(j) \/ PushNewTask(j) \/ CountSubmitted(j)

============================================================================
