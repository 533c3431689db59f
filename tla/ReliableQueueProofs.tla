------------------------ MODULE ReliableQueueProofs ------------------------
(***************************************************************************)
(* Theorems about ReliableQueue, for any number of jobs, workers and       *)
(* reapers, any budgets and any failures.                                  *)
(***************************************************************************)
EXTENDS ReliableQueue, LibraryLemmas, TLAPS

(* A retry or a recovery changes one budget of a payload, never its job. *)
LEMMA PayloadUpdates ==
  ASSUME NEW p \in Payload, NEW n \in Nat
  PROVE  /\ Retried(p, n) \in Payload
         /\ Retried(p, n).job = p.job
         /\ Retried(p, n).attempts = p.attempts + 1
         /\ Retried(p, n).recoveries = p.recoveries
         /\ Recovered(p) \in Payload
         /\ Recovered(p).job = p.job
         /\ Recovered(p).attempts = p.attempts
         /\ Recovered(p).recoveries = p.recoveries + 1
<1>1. /\ p.job \in Jobs /\ p.attempts \in Nat
      /\ p.recoveries \in Nat /\ p.created \in Nat
  BY DEF Payload
<1>2. Retried(p, n) = [job |-> p.job, attempts |-> p.attempts + 1,
                       recoveries |-> p.recoveries, created |-> n]
  BY DEF Retried
<1>3. Recovered(p) = [job |-> p.job, attempts |-> p.attempts,
                      recoveries |-> p.recoveries + 1, created |-> p.created]
  BY DEF Payload, Recovered
<1> QED BY <1>1, <1>2, <1>3 DEF Payload

(* A new job starts with both budgets unused. *)
LEMMA NewPayloadType ==
  ASSUME NEW j \in Jobs
  PROVE  /\ NewPayload(j) \in Payload
         /\ NewPayload(j).job = j
         /\ NewPayload(j).attempts = 0
         /\ NewPayload(j).recoveries = 0
  BY DEF Payload, NewPayload

(* LREM of a payload keeps every other element of the processing list. *)
LEMMA RemoveProcessingEffect ==
  ASSUME StoreTypeOK, NEW p, RemoveProcessing(p)
  PROVE  /\ processing' \in Seq(Payload)
         /\ Range(processing') \subseteq Range(processing)
         /\ Range(processing) \ {p} \subseteq Range(processing')
  BY RemoveFirstRange, Zenon DEF StoreTypeOK, RemoveProcessing

(* An acknowledgement removes one payload at most and one claim. *)
LEMMA AckEffect ==
  ASSUME StoreTypeOK, NEW p \in Payload, NEW b, Ack(p, b)
  PROVE  /\ processing' \in Seq(Payload)
         /\ Range(processing') \subseteq Range(processing)
         /\ Range(processing) \ {p} \subseteq Range(processing')
         /\ claims' = [claims EXCEPT ![p.job] = NoClaim]
         /\ claims' \in [Jobs -> Claim \cup {NoClaim}]
<1>1. /\ claims' = [claims EXCEPT ![p.job] = NoClaim]
      /\ claims' \in [Jobs -> Claim \cup {NoClaim}]
  BY DEF Ack, DropClaim, StoreTypeOK, Payload
<1>2. CASE RemoveProcessing(p)
  BY <1>1, <1>2, RemoveProcessingEffect
<1>3. CASE UNCHANGED processing
  BY <1>1, <1>3 DEF StoreTypeOK
<1> QED BY <1>2, <1>3 DEF Ack

(* A counter that is incremented stays a natural number. *)
LEMMA IncrementType ==
  ASSUME StoreTypeOK, NEW c \in Counters, Increment(c)
  PROVE  stats' \in [Counters -> Nat]
  BY DEF StoreTypeOK, Increment

----------------------------------------------------------------------------
(* Type correctness *)

(* The steps of enqueue() keep the types. *)
LEMMA ProducerTypes ==
  ASSUME TypeOK, ProducerNext, UNCHANGED <<worker, reaper>>
  PROVE  TypeOK'
<1> USE DEF TypeOK, ProducerTypeOK, Stages
<1>1. WorkerTypeOK' /\ ReaperTypeOK'
  BY DEF worker, reaper, WorkerTypeOK, ReaperTypeOK
<1>2. PICK j \in Jobs : Enqueue(j) \/ EnqueueFails(j)
  BY DEF ProducerNext
<1>3. CASE SaveQueuedStatus(j)
  <2>1. StoreTypeOK'
    BY <1>3 DEF SaveQueuedStatus, StoreTypeOK, SetStatus, Statuses
  <2>2. ProducerTypeOK'
    BY <1>3 DEF SaveQueuedStatus, EnqueueGoto
  <2> QED BY <1>1, <2>1, <2>2
<1>4. CASE PushNewTask(j)
  <2>1. tasks' \in Seq(Payload)
    BY <1>4, NewPayloadType, AppendRange DEF PushNewTask, PushTask, StoreTypeOK
  <2>2. StoreTypeOK'
    BY <1>4, <2>1 DEF PushNewTask, StoreTypeOK
  <2>3. ProducerTypeOK'
    BY <1>4 DEF PushNewTask, EnqueueGoto
  <2> QED BY <1>1, <2>2, <2>3
<1>5. CASE CountSubmitted(j)
  <2>1. StoreTypeOK'
    BY <1>5, IncrementType DEF CountSubmitted, StoreTypeOK, Counters
  <2>2. ProducerTypeOK'
    BY <1>5 DEF CountSubmitted, EnqueueGoto
  <2> QED BY <1>1, <2>1, <2>2
<1>6. CASE EnqueueFails(j)
  <2>1. StoreTypeOK'
    BY <1>6 DEF EnqueueFails, store, StoreTypeOK
  <2>2. ProducerTypeOK'
    BY <1>6 DEF EnqueueFails, EnqueueGoto
  <2> QED BY <1>1, <2>1, <2>2
<1> QED BY <1>2, <1>3, <1>4, <1>5, <1>6 DEF Enqueue

(* Moving the program counter of a worker keeps it a step. *)
LEMMA GotoType ==
  ASSUME WorkerTypeOK, NEW w \in Workers, NEW from \in WorkerPcs,
         NEW to \in WorkerPcs, Goto(w, from, to), UNCHANGED <<task, reading>>,
         from # "idle", remembered' \in [Workers -> BOOLEAN]
  PROVE  WorkerTypeOK'
  BY DEF Goto, WorkerTypeOK

(* The steps that only count keep the types. *)
LEMMA CountStepTypes ==
  ASSUME StoreTypeOK, WorkerTypeOK, NEW w \in Workers,
         NEW from \in WorkerPcs \ {"idle"}, NEW c \in Counters, NEW to \in WorkerPcs,
         CountStep(w, from, c, to)
  PROVE  StoreTypeOK' /\ WorkerTypeOK'
<1>1. StoreTypeOK'
  BY IncrementType DEF CountStep, StoreTypeOK
<1>2. WorkerTypeOK'
  BY DEF CountStep, Goto, WorkerTypeOK
<1> QED BY <1>1, <1>2

(* Forgetting the payload keeps the types of the worker. *)
LEMMA ForgetType ==
  ASSUME WorkerTypeOK, NEW w \in Workers, Forget(w)
  PROVE  remembered' \in [Workers -> BOOLEAN]
  BY DEF Forget, WorkerTypeOK

(* A worker that returns to its loop keeps the types. *)
LEMMA ResetType ==
  ASSUME WorkerTypeOK, NEW w \in Workers, Reset(w)
  PROVE  WorkerTypeOK'
  BY ForgetType DEF Reset, WorkerTypeOK, WorkerPcs

(* The payload of a worker that is not idle is a payload. *)
LEMMA TaskType ==
  ASSUME WorkerTypeOK, NEW w \in Workers, pc[w] # "idle"
  PROVE  task[w] \in Payload /\ task[w].job \in Jobs
  BY DEF WorkerTypeOK, Payload

(* The MULTI of set_result() keeps the types of the store. *)
LEMMA StoreResultType ==
  ASSUME StoreTypeOK, WorkerTypeOK, NEW w \in Workers, pc[w] # "idle",
         StoreResult(w)
  PROVE  StoreTypeOK'
<1>1. task[w] \in Payload /\ task[w].job \in Jobs
  BY TaskType
<1>2. processing' \in Seq(Payload) /\ claims' \in [Jobs -> Claim \cup {NoClaim}]
  BY <1>1, AckEffect DEF StoreResult
<1> QED BY <1>1, <1>2 DEF StoreResult, StoreTypeOK, SetStatus, Statuses

(* Every step of a worker keeps the types. *)
LEMMA WorkerTypes ==
  ASSUME TypeOK, WorkerNext, UNCHANGED <<stage, reaper>>
  PROVE  TypeOK'
<1>1. /\ StoreTypeOK /\ WorkerTypeOK
      /\ ProducerTypeOK' /\ ReaperTypeOK'
  BY DEF TypeOK, reaper, ProducerTypeOK, ReaperTypeOK
<1>2. SUFFICES ASSUME NEW w \in Workers, WorkerStep(w) \/ Crash(w)
               PROVE  StoreTypeOK' /\ WorkerTypeOK'
  BY <1>1 DEF WorkerNext, TypeOK
<1>3. CASE Dequeue(w)
  <2>1. tasks # <<>> /\ tasks \in Seq(Payload) /\ processing \in Seq(Payload)
    BY <1>1, <1>3 DEF Dequeue, StoreTypeOK
  <2>2. Tail(tasks) \in Seq(Payload) /\ Head(tasks) \in Payload
    BY <2>1, TailRange
  <2>3. Append(processing, Head(tasks)) \in Seq(Payload)
    BY <2>1, <2>2, AppendRange
  <2>4. StoreTypeOK'
    BY <1>1, <1>3, <2>2, <2>3 DEF Dequeue, StoreTypeOK
  <2>5. WorkerTypeOK'
    BY <1>1, <1>3, <2>2 DEF Dequeue, Goto, WorkerTypeOK, WorkerPcs
  <2> QED BY <2>4, <2>5
<1>4. CASE RecordClaim(w) \/ MarkStarted(w)
  <2>1. task[w] \in Payload /\ task[w].job \in Jobs
    BY <1>1, <1>4, TaskType DEF RecordClaim, MarkStarted, Goto
  <2>2. PICK b \in BOOLEAN :
          claims' = [claims EXCEPT ![task[w].job] =
                       ClaimOf(w, task[w], b, reading[w] + 1)]
    <3>1. PICK b \in BOOLEAN : WriteClaim(w, b)
      BY <1>4 DEF RecordClaim, MarkStarted
    <3>2. claims' = [claims EXCEPT ![task[w].job] = ClaimOf(w, task[w], b, reading[w] + 1)]
      BY <3>1 DEF WriteClaim, PutClaim, ClaimOf
    <3> QED BY <3>2
  <2>3. ClaimOf(w, task[w], b, reading[w] + 1) \in Claim
    BY <1>1, <2>1 DEF Claim, ClaimOf, WorkerTypeOK
  <2>4. StoreTypeOK'
    BY <1>1, <1>4, <2>1, <2>2, <2>3 DEF RecordClaim, MarkStarted, WriteClaim, StoreTypeOK
  <2>5. WorkerTypeOK'
    <3>1. /\ UNCHANGED <<task, remembered>>
          /\ reading' = [reading EXCEPT ![w] = @ + 1]
      BY <1>4 DEF RecordClaim, MarkStarted, WriteClaim
    <3>2. reading' \in [Workers -> Nat]
      BY <1>1, <3>1 DEF WorkerTypeOK
    <3>3. pc[w] # "idle" /\ \E to \in WorkerPcs : pc' = [pc EXCEPT ![w] = to]
      BY <1>4 DEF RecordClaim, MarkStarted, Goto, WorkerPcs
    <3> QED BY <1>1, <3>1, <3>2, <3>3 DEF WorkerTypeOK
  <2> QED BY <2>4, <2>5
<1>5. CASE SaveProcessing(w)
  <2>1. task[w].job \in Jobs
    BY <1>1, <1>5, TaskType DEF SaveProcessing, Goto
  <2>2. StoreTypeOK'
    BY <1>1, <1>5, <2>1 DEF SaveProcessing, SetStatus, Statuses, StoreTypeOK
  <2>3. WorkerTypeOK'
    BY <1>1, <1>5 DEF SaveProcessing, Goto, WorkerTypeOK, WorkerPcs
  <2> QED BY <2>2, <2>3
<1>6. CASE \/ CountAttempt(w) \/ ObserveWait(w) \/ CountCompleted(w)
           \/ CountRetry(w) \/ CountFailed(w) \/ CountDead(w)
  <2>1. PICK from \in WorkerPcs \ {"idle"}, c \in Counters, to \in WorkerPcs :
          CountStep(w, from, c, to)
    BY <1>6 DEF CountAttempt, ObserveWait, CountCompleted, CountRetry,
                CountFailed, CountDead, WorkerPcs, Counters
  <2> QED BY <1>1, <2>1, CountStepTypes
<1>7. CASE InferenceFails(w) \/ CountCompletedFails(w) \/ HandlerFails(w)
  <2>1. StoreTypeOK'
    BY <1>1, <1>7 DEF InferenceFails, CountCompletedFails, HandlerFails, store, StoreTypeOK
  <2>2. WorkerTypeOK'
    BY <1>1, <1>7 DEF InferenceFails, CountCompletedFails, HandlerFails, Goto,
                      WorkerTypeOK, WorkerPcs
  <2> QED BY <2>1, <2>2
<1>8. CASE SaveResult(w) \/ SaveResultReplyLost(w)
  <2>1. pc[w] = "generate" /\ StoreResult(w)
    BY <1>8 DEF SaveResult, SaveResultReplyLost, Goto
  <2>2. StoreTypeOK'
    BY <1>1, <2>1, StoreResultType
  <2>3. remembered' \in [Workers -> BOOLEAN]
    BY <1>1, <1>8, ForgetType DEF SaveResult, SaveResultReplyLost, WorkerTypeOK
  <2>4. WorkerTypeOK'
    BY <1>1, <1>8, <2>3 DEF SaveResult, SaveResultReplyLost, StoreResult, Goto,
                            WorkerTypeOK, WorkerPcs
  <2> QED BY <2>2, <2>4
<1>9. CASE Requeue(w)
  <2>1. task[w] \in Payload /\ task[w].job \in Jobs
    BY <1>1, <1>9, TaskType DEF Requeue, Goto
  <2>2. processing' \in Seq(Payload) /\ claims' \in [Jobs -> Claim \cup {NoClaim}]
    BY <1>1, <1>9, <2>1, AckEffect DEF Requeue
  <2>3. clock[task[w].job] + 1 \in Nat
    BY <1>1, <2>1 DEF StoreTypeOK
  <2>4. tasks' \in Seq(Payload)
    <3>1. Retried(task[w], clock[task[w].job] + 1) \in Payload
      BY <2>1, <2>3, PayloadUpdates
    <3> QED BY <1>1, <1>9, <3>1, AppendRange DEF Requeue, PushTask, StoreTypeOK
  <2>5. StoreTypeOK'
    BY <1>1, <1>9, <2>1, <2>2, <2>3, <2>4 DEF Requeue, SetStatus, Statuses, StoreTypeOK
  <2>6. WorkerTypeOK'
    BY <1>1, <1>9, ForgetType DEF Requeue, Goto, WorkerTypeOK, WorkerPcs
  <2> QED BY <2>5, <2>6
<1>10. CASE SetError(w)
  <2>1. task[w] \in Payload /\ task[w].job \in Jobs
    BY <1>1, <1>10, TaskType DEF SetError, Goto
  <2>2. processing' \in Seq(Payload) /\ claims' \in [Jobs -> Claim \cup {NoClaim}]
    BY <1>1, <1>10, <2>1, AckEffect DEF SetError
  <2>3. deadLetter' \in Seq(DeadLetter)
    <3>1. [payload |-> task[w], reason |-> "retry_limit"] \in DeadLetter
      BY <2>1 DEF DeadLetter
    <3> QED BY <1>1, <1>10, <3>1, AppendRange DEF SetError, PushDeadLetter, StoreTypeOK
  <2>4. StoreTypeOK'
    BY <1>1, <1>10, <2>1, <2>2, <2>3 DEF SetError, SetStatus, Statuses, StoreTypeOK
  <2>5. WorkerTypeOK'
    BY <1>1, <1>10, ForgetType DEF SetError, Goto, WorkerTypeOK, WorkerPcs
  <2> QED BY <2>4, <2>5
<1>11. CASE RecordDuration(w)
  <2>1. StoreTypeOK'
    BY <1>1, <1>11, IncrementType DEF RecordDuration, Counters, StoreTypeOK
  <2> QED BY <1>1, <1>11, <2>1, ResetType DEF RecordDuration
<1>12. CASE Crash(w)
  <2>1. StoreTypeOK'
    BY <1>1, <1>12 DEF Crash, store, StoreTypeOK
  <2> QED BY <1>1, <1>12, <2>1, ResetType DEF Crash
<1> QED
  BY <1>2, <1>3, <1>4, <1>5, <1>6, <1>7, <1>8, <1>9, <1>10, <1>11, <1>12
  DEF WorkerStep

(* A scan selects claims of the hash. *)
LEMMA StaleClaimsType ==
  ASSUME StoreTypeOK, NEW c \in StaleClaims
  PROVE  /\ c \in Claim
         /\ \E j \in Jobs : c = claims[j] /\ claims[j] # NoClaim
  BY DEF StaleClaims, StoreTypeOK

(* A script that goes past its tests takes one payload and one claim. *)
LEMMA TakeBackEffect ==
  ASSUME StoreTypeOK, ReaperTypeOK, NEW r \in Reapers, NEW c \in snapshot[r],
         NEW next \in ReaperPcs, TakeBack(r, c, next)
  PROVE  /\ c \in Claim /\ c.payload \in Payload /\ c.payload.job \in Jobs
         /\ c.payload \in Range(processing)
         /\ processing' \in Seq(Payload)
         /\ Range(processing') \subseteq Range(processing)
         /\ Range(processing) \ {c.payload} \subseteq Range(processing')
         /\ claims' = [claims EXCEPT ![c.payload.job] = NoClaim]
         /\ claims' \in [Jobs -> Claim \cup {NoClaim}]
         /\ ReaperTypeOK'
<1>1. c \in Claim /\ c.payload \in Payload /\ c.payload.job \in Jobs
  BY DEF ReaperTypeOK, Claim, Payload
<1>2. c.payload \in Range(processing) /\ RemoveProcessing(c.payload)
  BY DEF TakeBack
<1>3. claims' = [claims EXCEPT ![c.payload.job] = NoClaim]
  BY DEF TakeBack, DropClaim
<1>4. claims' \in [Jobs -> Claim \cup {NoClaim}]
  BY <1>1, <1>3 DEF StoreTypeOK
<1>5. ReaperTypeOK'
  BY DEF TakeBack, Handle, ReaperTypeOK
<1> QED BY <1>1, <1>2, <1>3, <1>4, <1>5, RemoveProcessingEffect

(* Every step of a reaper keeps the types. *)
LEMMA ReaperTypes ==
  ASSUME TypeOK, ReaperNext, UNCHANGED <<stage, worker>>
  PROVE  TypeOK'
<1>1. /\ StoreTypeOK /\ ReaperTypeOK
      /\ ProducerTypeOK' /\ WorkerTypeOK'
  BY DEF TypeOK, worker, ProducerTypeOK, WorkerTypeOK
<1>2. SUFFICES ASSUME NEW r \in Reapers, Scan(r) \/ ReaperStep(r) \/ ScanFails(r)
               PROVE  StoreTypeOK' /\ ReaperTypeOK'
  BY <1>1 DEF ReaperNext, TypeOK
<1>3. CASE Scan(r)
  <2>1. StoreTypeOK'
    BY <1>1, <1>3 DEF Scan, store, StoreTypeOK
  <2>2. StaleClaims \subseteq Claim
    BY <1>1, StaleClaimsType
  <2>3. ReaperTypeOK'
    BY <1>1, <1>3, <2>2 DEF Scan, ReaperTypeOK
  <2> QED BY <2>1, <2>3
<1>4. ASSUME NEW c \in snapshot[r], SkipChangedClaim(r, c) \/ DropOrphanClaim(r, c)
      PROVE  StoreTypeOK' /\ ReaperTypeOK'
  <2>1. ReaperTypeOK'
    BY <1>1, <1>4 DEF SkipChangedClaim, DropOrphanClaim, Handle, ReaperTypeOK, ReaperPcs
  <2>2. CASE SkipChangedClaim(r, c)
    BY <1>1, <2>1, <2>2 DEF SkipChangedClaim, store, StoreTypeOK
  <2>3. CASE DropOrphanClaim(r, c)
    BY <1>1, <2>1, <2>3 DEF DropOrphanClaim, DropClaim, StoreTypeOK
  <2> QED BY <1>4, <2>2, <2>3
<1>5. ASSUME NEW c \in snapshot[r], Recover(r, c)
      PROVE  StoreTypeOK' /\ ReaperTypeOK'
  <2>1. TakeBack(r, c, "count_recovered") /\ "count_recovered" \in ReaperPcs
    BY <1>5 DEF Recover, ReaperPcs
  <2>2. /\ c.payload \in Payload /\ c.payload.job \in Jobs
        /\ processing' \in Seq(Payload)
        /\ claims' \in [Jobs -> Claim \cup {NoClaim}]
        /\ ReaperTypeOK'
    BY <1>1, <2>1, TakeBackEffect
  <2>3. Recovered(c.payload) \in Payload
    BY <2>2, PayloadUpdates
  <2>4. tasks' \in Seq(Payload)
    BY <1>1, <1>5, <2>3, AppendRange DEF Recover, PushTask, StoreTypeOK
  <2>5. StoreTypeOK'
    BY <1>1, <1>5, <2>2, <2>4 DEF Recover, SetStatus, Statuses, StoreTypeOK
  <2> QED BY <2>2, <2>5
<1>6. ASSUME NEW c \in snapshot[r], Bury(r, c)
      PROVE  StoreTypeOK' /\ ReaperTypeOK'
  <2>1. TakeBack(r, c, "count_failed") /\ "count_failed" \in ReaperPcs
    BY <1>6 DEF Bury, ReaperPcs
  <2>2. /\ c.payload \in Payload /\ c.payload.job \in Jobs
        /\ processing' \in Seq(Payload)
        /\ claims' \in [Jobs -> Claim \cup {NoClaim}]
        /\ ReaperTypeOK'
    BY <1>1, <2>1, TakeBackEffect
  <2>3. [payload |-> Recovered(c.payload), reason |-> "recovery_limit"] \in DeadLetter
    BY <2>2, PayloadUpdates DEF DeadLetter
  <2>4. deadLetter' \in Seq(DeadLetter)
    BY <1>1, <1>6, <2>3, AppendRange DEF Bury, PushDeadLetter, StoreTypeOK
  <2>5. StoreTypeOK'
    BY <1>1, <1>6, <2>2, <2>4 DEF Bury, SetStatus, Statuses, StoreTypeOK
  <2> QED BY <2>2, <2>5
<1>7. CASE CountRecovered(r) \/ CountBuried(r) \/ CountBuriedDead(r)
  <2>1. PICK from \in ReaperPcs, c \in Counters, to \in ReaperPcs :
          ReaperCount(r, from, c, to)
    BY <1>7 DEF CountRecovered, CountBuried, CountBuriedDead, ReaperPcs, Counters
  <2>2. StoreTypeOK'
    BY <1>1, <2>1, IncrementType DEF ReaperCount, StoreTypeOK
  <2>3. ReaperTypeOK'
    BY <1>1, <2>1 DEF ReaperCount, ReaperTypeOK
  <2> QED BY <2>2, <2>3
<1>8. CASE ScanFails(r)
  <2>1. StoreTypeOK'
    BY <1>1, <1>8 DEF ScanFails, store, StoreTypeOK
  <2>2. ReaperTypeOK'
    BY <1>1, <1>8 DEF ScanFails, ReaperTypeOK, ReaperPcs
  <2> QED BY <2>1, <2>2
<1> QED
  BY <1>2, <1>3, <1>4, <1>5, <1>6, <1>7, <1>8 DEF ReaperStep, HandleClaim

(* A step that changes nothing keeps the types. *)
LEMMA StutterTypes ==
  ASSUME TypeOK, UNCHANGED vars
  PROVE  TypeOK'
  BY DEF vars, store, worker, reaper, TypeOK, StoreTypeOK, ProducerTypeOK,
         WorkerTypeOK, ReaperTypeOK

(***************************************************************************)
(* The lists, hashes and local variables keep their shape in every         *)
(* behaviour of the queue.                                                 *)
(***************************************************************************)
THEOREM TypeCorrect == Spec => []TypeOK
<1>1. Init => TypeOK
  BY DEF Init, TypeOK, StoreInit, ProducerInit, WorkerInit, ReaperInit,
         StoreTypeOK, ProducerTypeOK, WorkerTypeOK, ReaperTypeOK, Statuses,
         Stages, WorkerPcs, ReaperPcs
<1>2. TypeOK /\ [Next]_vars => TypeOK'
  BY ProducerTypes, WorkerTypes, ReaperTypes, StutterTypes DEF Next
<1> QED BY <1>1, <1>2, PTL DEF Spec

----------------------------------------------------------------------------
(* Payloads are known and within their budgets wherever they are kept. *)

(***************************************************************************)
(* A step that leaves stage alone keeps PayloadsKnown when every payload   *)
(* it puts somewhere is known or was kept somewhere before.                *)
(***************************************************************************)
LEMMA KnownFrame ==
  ASSUME PayloadsKnown, UNCHANGED stage,
         \A p \in Range(tasks') \cup Range(processing') :
           p \in Range(tasks) \cup Range(processing) \/ Known(p),
         \A w \in Workers :
           pc'[w] # "idle" => \/ pc[w] # "idle" /\ task'[w] = task[w]
                              \/ Known(task'[w]),
         \A j \in Jobs :
           \/ claims'[j] = claims[j]
           \/ claims'[j] = NoClaim
           \/ Known(claims'[j].payload),
         \A r \in Reapers : \A c \in snapshot'[r] :
           c \in snapshot[r] \/ Known(c.payload)
  PROVE  PayloadsKnown'
<1>1. \A p : Known(p)' <=> Known(p)
  BY DEF Known, Submitted, Within
<1>2. \A p \in Range(tasks') \cup Range(processing') : Known(p)
  BY DEF PayloadsKnown
<1>3. \A w \in Workers : pc'[w] # "idle" => Known(task'[w])
  BY DEF PayloadsKnown
<1>4. \A j \in Jobs : claims'[j] # NoClaim => Known(claims'[j].payload)
  BY DEF PayloadsKnown
<1>5. \A r \in Reapers : \A c \in snapshot'[r] : Known(c.payload)
  BY DEF PayloadsKnown
<1> HIDE DEF Known
<1> QED BY <1>1, <1>2, <1>3, <1>4, <1>5 DEF PayloadsKnown

(* A retried payload, and a recovered one that is not buried, stay known. *)
LEMMA UpdatesKnown ==
  ASSUME NEW p \in Payload, NEW n \in Nat, Known(p)
  PROVE  /\ RetriesLeft(p) => Known(Retried(p, n))
         /\ Recoverable(p) => Known(Recovered(p))
<1>1. p.attempts \in Nat /\ p.recoveries \in Nat
  BY DEF Payload
<1> QED
  BY <1>1, PayloadUpdates, BudgetsAreNaturals
  DEF Known, Submitted, Within, RetriesLeft, Recoverable

(* Every step of a worker keeps the payloads known. *)
LEMMA WorkerKnown ==
  ASSUME TypeOK, PayloadsKnown, WorkerNext, UNCHANGED <<stage, reaper>>
  PROVE  PayloadsKnown'
<1>1. /\ StoreTypeOK /\ WorkerTypeOK
      /\ UNCHANGED stage /\ UNCHANGED snapshot
      /\ tasks \in Seq(Payload) /\ processing \in Seq(Payload)
      /\ claims \in [Jobs -> Claim \cup {NoClaim}]
      /\ pc \in [Workers -> WorkerPcs]
      /\ task \in [Workers -> Payload \cup {NoTask}]
  BY DEF TypeOK, reaper, StoreTypeOK, WorkerTypeOK
<1>2. PICK w \in Workers : WorkerStep(w) \/ Crash(w)
  BY DEF WorkerNext
<1>3. pc[w] # "idle" => /\ task[w] \in Payload /\ task[w].job \in Jobs
                        /\ Known(task[w])
  BY <1>1, TaskType DEF PayloadsKnown
<1> DEFINE ListsOnlyShrink ==
             \A p \in Range(tasks') \cup Range(processing') :
               p \in Range(tasks) \cup Range(processing) \/ Known(p)
           TasksAreKnown ==
             \A v \in Workers :
               pc'[v] # "idle" => \/ pc[v] # "idle" /\ task'[v] = task[v]
                                  \/ Known(task'[v])
           ClaimsAreKnown ==
             \A j \in Jobs : \/ claims'[j] = claims[j]
                             \/ claims'[j] = NoClaim
                             \/ Known(claims'[j].payload)
<1>4. SUFFICES ListsOnlyShrink /\ TasksAreKnown /\ ClaimsAreKnown
  BY <1>1, KnownFrame
<1>5. CASE Dequeue(w)
  <2>1. /\ Range(tasks) = Range(Tail(tasks)) \cup {Head(tasks)}
        /\ Head(tasks) \in Payload
    BY <1>1, <1>5, TailRange DEF Dequeue
  <2>2. Range(processing') = Range(processing) \cup {Head(tasks)}
    BY <1>1, <1>5, <2>1, AppendRange DEF Dequeue
  <2>3. Known(Head(tasks))
    BY <2>1 DEF PayloadsKnown
  <2>4. ListsOnlyShrink
    BY <1>5, <2>1, <2>2 DEF Dequeue
  <2>5. TasksAreKnown
    BY <1>1, <1>5, <2>3 DEF Dequeue, Goto
  <2> QED BY <1>5, <2>4, <2>5 DEF Dequeue
<1>6. CASE RecordClaim(w) \/ MarkStarted(w)
  <2>1. pc[w] # "idle"
    BY <1>6 DEF RecordClaim, MarkStarted, Goto
  <2>2. ClaimsAreKnown
    BY <1>1, <1>3, <1>6, <2>1 DEF RecordClaim, MarkStarted, WriteClaim, PutClaim, ClaimOf
  <2>3. TasksAreKnown
    BY <1>1, <1>6, <2>1 DEF RecordClaim, MarkStarted, WriteClaim, Goto
  <2> QED BY <1>6, <2>2, <2>3 DEF RecordClaim, MarkStarted, WriteClaim
<1>7. CASE \/ SaveProcessing(w) \/ InferenceFails(w) \/ CountCompletedFails(w)
           \/ HandlerFails(w) \/ CountAttempt(w) \/ ObserveWait(w)
           \/ CountCompleted(w) \/ CountRetry(w) \/ CountFailed(w) \/ CountDead(w)
  <2>1. UNCHANGED <<tasks, processing, claims, task>>
    BY <1>7 DEF SaveProcessing, InferenceFails, CountCompletedFails, HandlerFails,
                CountAttempt, ObserveWait, CountCompleted, CountRetry, CountFailed,
                CountDead, CountStep, store
  <2>2. pc[w] # "idle" /\ \A v \in Workers : v # w => pc'[v] = pc[v]
    BY <1>1, <1>7 DEF SaveProcessing, InferenceFails, CountCompletedFails,
                HandlerFails, CountAttempt, ObserveWait, CountCompleted, CountRetry,
                CountFailed, CountDead, CountStep, Goto
  <2> QED BY <2>1, <2>2
<1>8. CASE SaveResult(w) \/ SaveResultReplyLost(w) \/ SetError(w)
  <2>1. /\ pc[w] # "idle" /\ UNCHANGED <<task, tasks>>
        /\ Ack(task[w], remembered[w])
        /\ \A v \in Workers : v # w => pc'[v] = pc[v]
    BY <1>1, <1>8 DEF SaveResult, SaveResultReplyLost, StoreResult, SetError, Goto
  <2>2. /\ Range(processing') \subseteq Range(processing)
        /\ claims' = [claims EXCEPT ![task[w].job] = NoClaim]
    BY <1>1, <1>3, <2>1, AckEffect
  <2>3. ClaimsAreKnown
    BY <1>1, <2>2
  <2> QED BY <2>1, <2>2, <2>3
<1>9. CASE Requeue(w)
  <2> DEFINE q == Retried(task[w], clock[task[w].job] + 1)
  <2>1. /\ pc[w] # "idle" /\ UNCHANGED task
        /\ Ack(task[w], remembered[w])
        /\ RetriesLeft(task[w])
        /\ \A v \in Workers : v # w => pc'[v] = pc[v]
        /\ tasks' = Append(tasks, q)
    BY <1>1, <1>9 DEF Requeue, Goto, PushTask
  <2>2. /\ Range(processing') \subseteq Range(processing)
        /\ claims' = [claims EXCEPT ![task[w].job] = NoClaim]
    BY <1>1, <1>3, <2>1, AckEffect
  <2>3. clock[task[w].job] + 1 \in Nat
    BY <1>1, <1>3, <2>1 DEF StoreTypeOK
  <2>4. Known(q) /\ q \in Payload
    BY <1>3, <2>1, <2>3, UpdatesKnown, PayloadUpdates
  <2>5. Range(tasks') = Range(tasks) \cup {q}
    BY <1>1, <2>1, <2>4, AppendRange
  <2>6. ClaimsAreKnown
    BY <1>1, <2>2
  <2>7. ListsOnlyShrink
    BY <2>2, <2>4, <2>5
  <2> QED BY <2>1, <2>6, <2>7
<1>10. CASE RecordDuration(w) \/ Crash(w)
  <2>1. UNCHANGED <<tasks, processing, claims>>
    BY <1>10 DEF RecordDuration, Crash, store
  <2>2. /\ pc' = [pc EXCEPT ![w] = "idle"]
        /\ task' = [task EXCEPT ![w] = NoTask]
    BY <1>10 DEF RecordDuration, Crash, Reset
  <2>3. TasksAreKnown
    BY <1>1, <2>2
  <2> QED BY <2>1, <2>3
<1> QED
  BY <1>2, <1>5, <1>6, <1>7, <1>8, <1>9, <1>10 DEF WorkerStep

(* Every step of a reaper keeps the payloads known. *)
LEMMA ReaperKnown ==
  ASSUME TypeOK, PayloadsKnown, ReaperNext, UNCHANGED <<stage, worker>>
  PROVE  PayloadsKnown'
<1>1. /\ StoreTypeOK /\ ReaperTypeOK
      /\ UNCHANGED <<stage, pc, task>>
      /\ tasks \in Seq(Payload)
      /\ claims \in [Jobs -> Claim \cup {NoClaim}]
      /\ snapshot \in [Reapers -> SUBSET Claim]
  BY DEF TypeOK, worker, StoreTypeOK, ReaperTypeOK
<1>2. PICK r \in Reapers : Scan(r) \/ ReaperStep(r) \/ ScanFails(r)
  BY DEF ReaperNext
<1> DEFINE ListsAreKnown ==
             \A p \in Range(tasks') \cup Range(processing') :
               p \in Range(tasks) \cup Range(processing) \/ Known(p)
           ClaimsOnlyDropped ==
             \A j \in Jobs : claims'[j] = claims[j] \/ claims'[j] = NoClaim
           ScansAreKnown ==
             \A s \in Reapers : \A c \in snapshot'[s] :
               c \in snapshot[s] \/ Known(c.payload)
<1>3. SUFFICES ListsAreKnown /\ ClaimsOnlyDropped /\ ScansAreKnown
  BY <1>1, KnownFrame
<1>4. CASE Scan(r)
  <2>1. UNCHANGED <<tasks, processing, claims>>
    BY <1>4 DEF Scan, store
  <2>2. PICK S \in SUBSET StaleClaims : snapshot' = [snapshot EXCEPT ![r] = S]
    BY <1>4 DEF Scan
  <2>3. \A c \in S : Known(c.payload)
    BY <1>1, StaleClaimsType DEF PayloadsKnown
  <2> QED BY <1>1, <2>1, <2>2, <2>3
<1>5. ASSUME NEW c \in snapshot[r], HandleClaim(r, c)
      PROVE  ListsAreKnown /\ ClaimsOnlyDropped /\ ScansAreKnown
  <2>1. snapshot' = [snapshot EXCEPT ![r] = @ \ {c}]
    BY <1>5 DEF HandleClaim, SkipChangedClaim, DropOrphanClaim, Recover, Bury,
                TakeBack, Handle
  <2>2. ScansAreKnown
    BY <1>1, <2>1
  <2>3. /\ c \in Claim /\ c.payload \in Payload /\ c.payload.job \in Jobs
        /\ Known(c.payload)
    BY <1>1 DEF Claim, Payload, PayloadsKnown
  <2>4. CASE SkipChangedClaim(r, c) \/ DropOrphanClaim(r, c)
    BY <1>1, <2>2, <2>3, <2>4 DEF SkipChangedClaim, DropOrphanClaim, DropClaim, store
  <2>5. CASE Recover(r, c)
    <3>1. TakeBack(r, c, "count_recovered") /\ "count_recovered" \in ReaperPcs
      BY <2>5 DEF Recover, ReaperPcs
    <3>2. /\ Range(processing') \subseteq Range(processing)
          /\ claims' = [claims EXCEPT ![c.payload.job] = NoClaim]
      BY <1>1, <3>1, TakeBackEffect
    <3>3. Recovered(c.payload) \in Payload /\ Known(Recovered(c.payload))
      BY <2>3, <2>5, UpdatesKnown, PayloadUpdates DEF Recover
    <3>4. Range(tasks') = Range(tasks) \cup {Recovered(c.payload)}
      BY <1>1, <2>5, <3>3, AppendRange DEF Recover, PushTask
    <3> QED BY <1>1, <2>2, <3>2, <3>3, <3>4
  <2>6. CASE Bury(r, c)
    <3>1. TakeBack(r, c, "count_failed") /\ "count_failed" \in ReaperPcs
      BY <2>6 DEF Bury, ReaperPcs
    <3>2. /\ Range(processing') \subseteq Range(processing)
          /\ claims' = [claims EXCEPT ![c.payload.job] = NoClaim]
      BY <1>1, <3>1, TakeBackEffect
    <3> QED BY <1>1, <2>2, <2>6, <3>2 DEF Bury
  <2> QED BY <1>5, <2>4, <2>5, <2>6 DEF HandleClaim
<1>6. CASE CountRecovered(r) \/ CountBuried(r) \/ CountBuriedDead(r)
  BY <1>6 DEF CountRecovered, CountBuried, CountBuriedDead, ReaperCount
<1>7. CASE ScanFails(r)
  BY <1>1, <1>7 DEF ScanFails, store
<1> QED BY <1>2, <1>4, <1>5, <1>6, <1>7 DEF ReaperStep

(* A call to enqueue() only moves forward: a submitted job stays submitted. *)
LEMMA SubmittedStays ==
  ASSUME TypeOK, NEW j \in Jobs, Enqueue(j) \/ EnqueueFails(j)
  PROVE  \A i \in Jobs : Submitted(i) => Submitted(i)'
  BY DEF TypeOK, ProducerTypeOK, Enqueue, EnqueueFails, SaveQueuedStatus,
         PushNewTask, CountSubmitted, EnqueueGoto, Submitted

(* The steps of enqueue() keep the payloads and the dead letters known. *)
LEMMA ProducerKnown ==
  ASSUME TypeOK, PayloadsKnown, DeadLettersKnown, ProducerNext,
         UNCHANGED <<worker, reaper>>
  PROVE  PayloadsKnown' /\ DeadLettersKnown'
<1>1. /\ StoreTypeOK /\ UNCHANGED <<pc, task, snapshot>>
      /\ tasks \in Seq(Payload) /\ processing \in Seq(Payload)
      /\ deadLetter \in Seq(DeadLetter)
      /\ claims \in [Jobs -> Claim \cup {NoClaim}]
      /\ task \in [Workers -> Payload \cup {NoTask}]
      /\ \A w \in Workers : pc[w] # "idle" => task[w] \in Payload
      /\ snapshot \in [Reapers -> SUBSET Claim]
  BY DEF TypeOK, StoreTypeOK, WorkerTypeOK, ReaperTypeOK, worker, reaper
<1>2. PICK j \in Jobs : Enqueue(j) \/ EnqueueFails(j)
  BY DEF ProducerNext
<1>3. \A i \in Jobs : Submitted(i) => Submitted(i)'
  BY <1>2, SubmittedStays
<1>4. \A p \in Payload : Known(p) => Known(p)'
  BY <1>3 DEF Known, Within, Payload
<1>5. UNCHANGED <<processing, claims, deadLetter>>
  BY <1>2 DEF Enqueue, EnqueueFails, SaveQueuedStatus, PushNewTask,
              CountSubmitted, store
<1>6. DeadLettersKnown'
  <2>1. \A d \in Range(deadLetter) : d \in DeadLetter
    BY <1>1 DEF Range
  <2>2. \A d \in DeadLetter : d.payload.job \in Jobs /\ (Exhausted(d)' <=> Exhausted(d))
    BY DEF DeadLetter, Payload, Exhausted
  <2> QED BY <1>3, <1>5, <2>1, <2>2 DEF DeadLettersKnown
<1>7. \A p \in Range(tasks) \cup Range(processing) : p \in Payload
  BY <1>1 DEF Range
<1>8. \A p \in Range(tasks') : Known(p)'
  <2>1. CASE PushNewTask(j)
    <3>1. Range(tasks') = Range(tasks) \cup {NewPayload(j)}
      BY <1>1, <2>1, NewPayloadType, AppendRange DEF PushNewTask, PushTask
    <3>2. Submitted(j)'
      BY <2>1 DEF PushNewTask, EnqueueGoto, Submitted, TypeOK, ProducerTypeOK
    <3>3. Known(NewPayload(j))'
      BY <3>2, NewPayloadType, BudgetsAreNaturals DEF Known, Within
    <3> QED BY <1>4, <1>7, <3>1, <3>3 DEF PayloadsKnown
  <2>2. CASE ~PushNewTask(j)
    <3>1. UNCHANGED tasks
      BY <1>2, <2>2 DEF Enqueue, EnqueueFails, SaveQueuedStatus, CountSubmitted, store
    <3> QED BY <1>4, <1>7, <3>1 DEF PayloadsKnown
  <2> QED BY <2>1, <2>2
<1>9. \A p \in Range(processing') : Known(p)'
  BY <1>4, <1>5, <1>7 DEF PayloadsKnown
<1>10. (\A w \in Workers : pc[w] # "idle" => Known(task[w]))'
  <2>1. \A w \in Workers : pc[w] # "idle" => Known(task[w])'
    BY <1>1, <1>4 DEF PayloadsKnown
  <2> HIDE DEF Known
  <2> QED BY <1>1, <2>1
<1>11. (\A i \in Jobs : claims[i] # NoClaim => Known(claims[i].payload))'
  <2>1. \A i \in Jobs : claims[i] # NoClaim => claims[i].payload \in Payload
    BY <1>1 DEF Claim
  <2> QED BY <1>4, <1>5, <2>1 DEF PayloadsKnown
<1>12. (\A r \in Reapers : \A c \in snapshot[r] : Known(c.payload))'
  <2>1. \A r \in Reapers : \A c \in snapshot[r] : c.payload \in Payload
    BY <1>1 DEF Claim
  <2> QED BY <1>1, <1>4, <2>1 DEF PayloadsKnown
<1> HIDE DEF Known
<1> QED BY <1>6, <1>8, <1>9, <1>10, <1>11, <1>12 DEF PayloadsKnown

----------------------------------------------------------------------------
(* What one step of a worker or reaper does to the copies of the jobs.      *)

Copies == Range(tasks) \cup Range(processing)
Letters == Range(deadLetter)

(* It leaves copies, results and dead letters alone ... *)
Quiet == Copies' = Copies /\ results' = results /\ Letters' = Letters

(* ... or puts a copy q of a known job in the place of its copy p, if p is  *)
(* still there ...                                                          *)
Replaces(p, q) ==
  /\ p \in Payload /\ Known(p) /\ q \in Payload /\ q.job = p.job
  /\ q \in Copies' /\ Copies \ {p} \subseteq Copies'
  /\ Copies' \subseteq Copies \cup {q}
  /\ results' = results /\ Letters' = Letters

(* ... or stores the result of a known job and removes at most p ... *)
Stores(p) ==
  /\ p \in Payload /\ Known(p)
  /\ Copies \ {p} \subseteq Copies' /\ Copies' \subseteq Copies
  /\ results' = results \cup {p.job} /\ Letters' = Letters

(* ... or adds a dead letter for it and removes at most p. *)
Buries(p, d) ==
  /\ p \in Payload /\ Known(p)
  /\ Copies \ {p} \subseteq Copies' /\ Copies' \subseteq Copies
  /\ results' = results
  /\ d \in DeadLetter /\ d.payload.job = p.job /\ Exhausted(d)
  /\ Letters' = Letters \cup {d}

Effect ==
  \/ Quiet
  \/ \E p, q \in Payload : Replaces(p, q)
  \/ \E p \in Payload : Stores(p)
  \/ \E p \in Payload, d \in DeadLetter : Buries(p, d)

(* Every step of a worker has one of the four effects. *)
LEMMA WorkerEffect ==
  ASSUME TypeOK, PayloadsKnown, WorkerNext, UNCHANGED <<stage, reaper>>
  PROVE  Effect
<1>1. /\ StoreTypeOK /\ WorkerTypeOK
      /\ tasks \in Seq(Payload) /\ processing \in Seq(Payload)
      /\ deadLetter \in Seq(DeadLetter)
  BY DEF TypeOK, StoreTypeOK
<1>2. PICK w \in Workers : WorkerStep(w) \/ Crash(w)
  BY DEF WorkerNext
<1>3. pc[w] # "idle" => /\ task[w] \in Payload /\ task[w].job \in Jobs
                        /\ Known(task[w])
  BY <1>1, TaskType DEF PayloadsKnown
<1>4. CASE Dequeue(w)
  <2>1. /\ Range(tasks) = Range(Tail(tasks)) \cup {Head(tasks)}
        /\ Head(tasks) \in Payload
    BY <1>1, <1>4, TailRange DEF Dequeue
  <2>2. Range(processing') = Range(processing) \cup {Head(tasks)}
    BY <1>1, <1>4, <2>1, AppendRange DEF Dequeue
  <2>3. Copies' = Copies
    BY <1>4, <2>1, <2>2 DEF Dequeue, Copies
  <2> QED BY <1>4, <2>3 DEF Dequeue, Effect, Quiet, Letters
<1>5. CASE \/ RecordClaim(w) \/ MarkStarted(w)
           \/ SaveProcessing(w) \/ InferenceFails(w) \/ CountCompletedFails(w)
           \/ HandlerFails(w) \/ CountAttempt(w) \/ ObserveWait(w)
           \/ CountCompleted(w) \/ CountRetry(w) \/ CountFailed(w) \/ CountDead(w)
           \/ RecordDuration(w) \/ Crash(w)
  <2>1. UNCHANGED <<tasks, processing, results, deadLetter>>
    BY <1>5 DEF RecordClaim, MarkStarted, WriteClaim, SaveProcessing, InferenceFails,
                CountCompletedFails, HandlerFails, CountAttempt, ObserveWait,
                CountCompleted, CountRetry, CountFailed, CountDead, CountStep,
                RecordDuration, Crash, store
  <2> QED BY <2>1 DEF Effect, Quiet, Copies, Letters
<1>6. CASE SaveResult(w) \/ SaveResultReplyLost(w)
  <2>1. pc[w] # "idle" /\ StoreResult(w)
    BY <1>6 DEF SaveResult, SaveResultReplyLost, Goto
  <2>2. /\ Range(processing') \subseteq Range(processing)
        /\ Range(processing) \ {task[w]} \subseteq Range(processing')
    BY <1>1, <1>3, <2>1, AckEffect DEF StoreResult
  <2>3. Stores(task[w])
    BY <1>3, <2>1, <2>2 DEF StoreResult, Stores, Copies, Letters
  <2> QED BY <1>3, <2>1, <2>3 DEF Effect
<1>7. CASE Requeue(w)
  <2> DEFINE q == Retried(task[w], clock[task[w].job] + 1)
  <2>1. pc[w] # "idle" /\ Ack(task[w], remembered[w])
    BY <1>7 DEF Requeue, Goto
  <2>2. /\ Range(processing') \subseteq Range(processing)
        /\ Range(processing) \ {task[w]} \subseteq Range(processing')
    BY <1>1, <1>3, <2>1, AckEffect
  <2>3. clock[task[w].job] + 1 \in Nat
    BY <1>1, <1>3, <2>1 DEF StoreTypeOK
  <2>4. q \in Payload /\ q.job = task[w].job
    BY <1>3, <2>1, <2>3, PayloadUpdates
  <2>5. Range(tasks') = Range(tasks) \cup {q}
    BY <1>1, <1>7, <2>4, AppendRange DEF Requeue, PushTask
  <2>6. Replaces(task[w], q)
    BY <1>3, <1>7, <2>1, <2>2, <2>4, <2>5 DEF Requeue, Replaces, Copies, Letters
  <2> QED BY <1>3, <2>1, <2>4, <2>6 DEF Effect
<1>8. CASE SetError(w)
  <2> DEFINE d == [payload |-> task[w], reason |-> "retry_limit"]
  <2>1. pc[w] # "idle" /\ Ack(task[w], remembered[w]) /\ ~RetriesLeft(task[w])
    BY <1>8 DEF SetError, Goto
  <2>2. /\ Range(processing') \subseteq Range(processing)
        /\ Range(processing) \ {task[w]} \subseteq Range(processing')
    BY <1>1, <1>3, <2>1, AckEffect
  <2>3. d \in DeadLetter /\ d.payload.job = task[w].job
    BY <1>3, <2>1 DEF DeadLetter
  <2>4. Exhausted(d)
    <3>1. task[w].attempts \in Nat
      BY <1>3, <2>1 DEF Payload
    <3> QED
      BY <1>3, <2>1, <3>1, BudgetsAreNaturals DEF Exhausted, RetriesLeft, Known, Within
  <2>5. Letters' = Letters \cup {d}
    BY <1>1, <1>8, <2>3, AppendRange DEF SetError, PushDeadLetter, Letters
  <2>6. Buries(task[w], d)
    BY <1>3, <1>8, <2>1, <2>2, <2>3, <2>4, <2>5 DEF SetError, Buries, Copies
  <2> QED BY <1>3, <2>1, <2>3, <2>6 DEF Effect
<1> QED BY <1>2, <1>4, <1>5, <1>6, <1>7, <1>8 DEF WorkerStep

(* Every step of a reaper has one of the four effects. *)
LEMMA ReaperEffect ==
  ASSUME TypeOK, PayloadsKnown, ReaperNext, UNCHANGED <<stage, worker>>
  PROVE  Effect
<1>1. /\ StoreTypeOK /\ ReaperTypeOK
      /\ tasks \in Seq(Payload)
      /\ deadLetter \in Seq(DeadLetter)
  BY DEF TypeOK, StoreTypeOK
<1>2. PICK r \in Reapers : Scan(r) \/ ReaperStep(r) \/ ScanFails(r)
  BY DEF ReaperNext
<1>3. CASE \/ Scan(r) \/ ScanFails(r)
           \/ \E c \in snapshot[r] : SkipChangedClaim(r, c) \/ DropOrphanClaim(r, c)
           \/ CountRecovered(r) \/ CountBuried(r) \/ CountBuriedDead(r)
  <2>1. UNCHANGED <<tasks, processing, results, deadLetter>>
    BY <1>3 DEF Scan, ScanFails, SkipChangedClaim, DropOrphanClaim, CountRecovered,
                CountBuried, CountBuriedDead, ReaperCount, store
  <2> QED BY <2>1 DEF Effect, Quiet, Copies, Letters
<1>4. ASSUME NEW c \in snapshot[r], Recover(r, c) PROVE Effect
  <2> DEFINE q == Recovered(c.payload)
  <2>1. TakeBack(r, c, "count_recovered") /\ "count_recovered" \in ReaperPcs
    BY <1>4 DEF Recover, ReaperPcs
  <2>2. /\ c.payload \in Payload /\ c.payload.job \in Jobs
        /\ Range(processing') \subseteq Range(processing)
        /\ Range(processing) \ {c.payload} \subseteq Range(processing')
    BY <1>1, <2>1, TakeBackEffect
  <2>3. Known(c.payload)
    BY DEF PayloadsKnown
  <2>4. q \in Payload /\ q.job = c.payload.job
    BY <2>2, PayloadUpdates
  <2>5. Range(tasks') = Range(tasks) \cup {q}
    BY <1>1, <1>4, <2>4, AppendRange DEF Recover, PushTask
  <2>6. Replaces(c.payload, q)
    BY <1>4, <2>2, <2>3, <2>4, <2>5 DEF Recover, Replaces, Copies, Letters
  <2> QED BY <2>2, <2>4, <2>6 DEF Effect
<1>5. ASSUME NEW c \in snapshot[r], Bury(r, c) PROVE Effect
  <2> DEFINE d == [payload |-> Recovered(c.payload), reason |-> "recovery_limit"]
  <2>1. TakeBack(r, c, "count_failed") /\ "count_failed" \in ReaperPcs
    BY <1>5 DEF Bury, ReaperPcs
  <2>2. /\ c.payload \in Payload /\ c.payload.job \in Jobs
        /\ Range(processing') \subseteq Range(processing)
        /\ Range(processing) \ {c.payload} \subseteq Range(processing')
    BY <1>1, <2>1, TakeBackEffect
  <2>3. Known(c.payload)
    BY DEF PayloadsKnown
  <2>4. /\ d \in DeadLetter /\ d.payload.job = c.payload.job
        /\ d.payload = Recovered(c.payload)
    BY <2>2, PayloadUpdates DEF DeadLetter
  <2>5. Exhausted(d)
    <3> DEFINE p == c.payload
               u == Recovered(p)
    <3>1. p.recoveries \in Nat /\ p.recoveries <= MaxRecoveries
          /\ p.attempts <= MaxRetries
      BY <2>2, <2>3 DEF Payload, Known, Within
    <3>2. u.attempts = p.attempts /\ u.recoveries = p.recoveries + 1
      BY <2>2, PayloadUpdates
    <3>3. ~(u.recoveries <= MaxRecoveries)
      BY <1>5 DEF Bury, Recoverable
    <3> HIDE DEF p, u
    <3>4. u.recoveries = MaxRecoveries + 1 /\ u.attempts <= MaxRetries
      BY <3>1, <3>2, <3>3, BudgetsAreNaturals
    <3>5. d.payload = u /\ d.reason = "recovery_limit"
      BY DEF u, p
    <3> HIDE DEF d
    <3> QED BY <3>4, <3>5 DEF Exhausted
  <2>6. Letters' = Letters \cup {d}
    BY <1>1, <1>5, <2>4, AppendRange DEF Bury, PushDeadLetter, Letters
  <2>7. Buries(c.payload, d)
    BY <1>5, <2>2, <2>3, <2>4, <2>5, <2>6 DEF Bury, Buries, Copies
  <2> QED BY <2>2, <2>4, <2>7 DEF Effect
<1> QED BY <1>2, <1>3, <1>4, <1>5 DEF ReaperStep, HandleClaim

----------------------------------------------------------------------------
(* The inductive invariant *)

IInv == TypeOK /\ PayloadsKnown /\ DeadLettersKnown /\ NoJobLost

(* A job is held iff one of the copies is its own. *)
LEMMA HeldByCopies ==
  ASSUME NEW j
  PROVE  Held(j) <=> \E p \in Copies : p.job = j
  BY DEF Held, PendingOf, InProcessing, Copies, Range

(* A job is buried iff one of the dead letters is its own. *)
LEMMA BuriedByLetters ==
  ASSUME NEW j
  PROVE  Buried(j) <=> \E d \in Letters : d.payload.job = j
  BY DEF Buried, Letters, Range

(* The same in the next state. *)
LEMMA HeldBuriedNext ==
  ASSUME NEW j
  PROVE  /\ Held(j)' <=> \E p \in Copies' : p.job = j
         /\ Buried(j)' <=> \E d \in Letters' : d.payload.job = j
  BY DEF Held, PendingOf, InProcessing, Copies, Buried, Letters, Range

(* What the four effects do to the fate of every job. *)
LEMMA EffectOnJobs ==
  ASSUME Effect, NEW j
  PROVE  /\ Held(j) => Held(j)' \/ j \in results' \/ Buried(j)'
         /\ j \in results => j \in results'
         /\ Buried(j) => Buried(j)'
<1>1. /\ Held(j) <=> \E p \in Copies : p.job = j
      /\ Buried(j) <=> \E d \in Letters : d.payload.job = j
      /\ Held(j)' <=> \E p \in Copies' : p.job = j
      /\ Buried(j)' <=> \E d \in Letters' : d.payload.job = j
  BY HeldByCopies, BuriedByLetters, HeldBuriedNext
<1> HIDE DEF Held, Buried
<1>2. CASE Quiet
  BY <1>1, <1>2 DEF Quiet
<1>3. ASSUME NEW p \in Payload, NEW q \in Payload, Replaces(p, q)
      PROVE  /\ Held(j) => Held(j)'
             /\ results' = results /\ Letters' = Letters
  BY <1>1, <1>3 DEF Replaces
<1>4. ASSUME NEW p \in Payload, Stores(p)
      PROVE  /\ Held(j) => Held(j)' \/ j \in results'
             /\ results \subseteq results' /\ Letters' = Letters
  BY <1>1, <1>4 DEF Stores
<1>5. ASSUME NEW p \in Payload, NEW d \in DeadLetter, Buries(p, d)
      PROVE  /\ Held(j) => Held(j)' \/ Buried(j)'
             /\ results' = results /\ Letters \subseteq Letters'
  BY <1>1, <1>5 DEF Buries
<1> QED BY <1>1, <1>2, <1>3, <1>4, <1>5 DEF Effect

(* A step with one of the four effects adds dead letters of known jobs only. *)
LEMMA EffectKeepsLetters ==
  ASSUME TypeOK, DeadLettersKnown, Effect, UNCHANGED stage
  PROVE  DeadLettersKnown'
<1>1. \A j \in Jobs : Submitted(j)' <=> Submitted(j)
  BY DEF Submitted
<1>2. \A d \in Letters : d \in DeadLetter /\ d.payload.job \in Jobs
  <2>1. deadLetter \in Seq(DeadLetter)
    BY DEF TypeOK, StoreTypeOK
  <2>2. \A d \in Letters : d \in DeadLetter
    BY <2>1 DEF Letters, Range
  <2>3. \A d \in DeadLetter : d.payload.job \in Jobs
    BY DEF DeadLetter, Payload
  <2> QED BY <2>2, <2>3
<1>3. \A d : Exhausted(d)' <=> Exhausted(d)
  BY DEF Exhausted
<1>4. \A d \in Letters : Submitted(d.payload.job)' /\ Exhausted(d)'
  BY <1>1, <1>2, <1>3 DEF DeadLettersKnown, Letters
<1>5. CASE Letters' = Letters
  BY <1>4, <1>5 DEF DeadLettersKnown, Letters
<1>6. ASSUME NEW p \in Payload, NEW d \in DeadLetter, Buries(p, d)
      PROVE  DeadLettersKnown'
  <2>1. /\ Letters' = Letters \cup {d}
        /\ d.payload.job = p.job /\ Submitted(p.job) /\ Exhausted(d)
        /\ p.job \in Jobs
    BY <1>6 DEF Buries, Known, Payload
  <2>2. \A e \in Letters' : Submitted(e.payload.job)' /\ Exhausted(e)'
    BY <1>1, <1>3, <1>4, <2>1
  <2> QED BY <2>2 DEF DeadLettersKnown, Letters
<1>7. Letters' = Letters \/ \E p \in Payload, d \in DeadLetter : Buries(p, d)
  BY DEF Effect, Quiet, Replaces, Stores
<1> QED BY <1>5, <1>6, <1>7

(* A step with one of the four effects loses no job. *)
LEMMA EffectLosesNone ==
  ASSUME NoJobLost, Effect, UNCHANGED stage
  PROVE  NoJobLost'
<1>1. SUFFICES ASSUME NEW j \in Jobs, Submitted(j)'
               PROVE  Held(j)' \/ j \in results' \/ Buried(j)'
  BY DEF NoJobLost
<1>2. Submitted(j)
  BY <1>1 DEF Submitted
<1> QED BY <1>2, EffectOnJobs DEF NoJobLost

(* The steps of enqueue() lose no job. *)
LEMMA ProducerLosesNone ==
  ASSUME TypeOK, NoJobLost, ProducerNext
  PROVE  NoJobLost'
<1>1. PICK j \in Jobs : Enqueue(j) \/ EnqueueFails(j)
  BY DEF ProducerNext
<1>2. /\ UNCHANGED <<processing, results, deadLetter>>
      /\ tasks \in Seq(Payload)
  BY <1>1 DEF Enqueue, EnqueueFails, SaveQueuedStatus, PushNewTask,
              CountSubmitted, store, TypeOK, StoreTypeOK
<1>3. SUFFICES ASSUME NEW i \in Jobs, Submitted(i)'
               PROVE  Held(i)' \/ i \in results' \/ Buried(i)'
  BY DEF NoJobLost
<1>4. /\ Held(i) <=> \E p \in Copies : p.job = i
      /\ Held(i)' <=> \E p \in Copies' : p.job = i
      /\ Buried(i)' <=> Buried(i)
  BY <1>2, HeldByCopies, HeldBuriedNext DEF Buried
<1>5. CASE PushNewTask(j)
  <2>1. Range(tasks') = Range(tasks) \cup {NewPayload(j)}
    BY <1>2, <1>5, NewPayloadType, AppendRange DEF PushNewTask, PushTask
  <2>2. Submitted(i) \/ i = j
    BY <1>3, <1>5 DEF PushNewTask, EnqueueGoto, Submitted, TypeOK, ProducerTypeOK
  <2>3. Copies' = Copies \cup {NewPayload(j)}
    BY <1>2, <2>1 DEF Copies
  <2> QED BY <1>2, <1>4, <2>2, <2>3, NewPayloadType DEF NoJobLost
<1>6. CASE ~PushNewTask(j)
  <2>1. UNCHANGED tasks
    BY <1>1, <1>6 DEF Enqueue, EnqueueFails, SaveQueuedStatus, CountSubmitted, store
  <2>2. Submitted(i)
    BY <1>1, <1>3, <1>6 DEF Enqueue, EnqueueFails, SaveQueuedStatus, CountSubmitted,
                EnqueueGoto, Submitted, TypeOK, ProducerTypeOK
  <2> QED BY <1>2, <1>4, <2>1, <2>2 DEF NoJobLost, Copies
<1> QED BY <1>5, <1>6

(* The inductive step *)
LEMMA IInvStep == IInv /\ [Next]_vars => IInv'
<1>1. ASSUME IInv, Next PROVE IInv'
  <2>1. CASE ProducerNext /\ UNCHANGED <<worker, reaper>>
    BY <1>1, <2>1, ProducerTypes, ProducerKnown, ProducerLosesNone DEF IInv
  <2>2. CASE WorkerNext /\ UNCHANGED <<stage, reaper>>
    BY <1>1, <2>2, WorkerTypes, WorkerKnown, WorkerEffect, EffectKeepsLetters,
       EffectLosesNone DEF IInv
  <2>3. CASE ReaperNext /\ UNCHANGED <<stage, worker>>
    BY <1>1, <2>3, ReaperTypes, ReaperKnown, ReaperEffect, EffectKeepsLetters,
       EffectLosesNone DEF IInv
  <2> QED BY <1>1, <2>1, <2>2, <2>3 DEF Next
<1>2. ASSUME IInv, UNCHANGED vars PROVE IInv'
  BY <1>2 DEF IInv, vars, store, worker, reaper, TypeOK, StoreTypeOK,
     ProducerTypeOK, WorkerTypeOK, ReaperTypeOK, PayloadsKnown, DeadLettersKnown,
     NoJobLost, Known, Submitted, Within, Exhausted, Held, PendingOf,
     InProcessing, Buried
<1> QED BY <1>1, <1>2

(* The initial state *)
LEMMA IInvInit == Init => IInv
<1> SUFFICES ASSUME Init PROVE IInv
  OBVIOUS
<1>1. TypeOK
  BY DEF Init, TypeOK, StoreInit, ProducerInit, WorkerInit, ReaperInit,
         StoreTypeOK, ProducerTypeOK, WorkerTypeOK, ReaperTypeOK, Statuses,
         Stages, WorkerPcs, ReaperPcs
<1>2. Range(tasks) = {} /\ Range(processing) = {} /\ Range(deadLetter) = {}
  BY DEF Init, StoreInit, Range
<1>3. PayloadsKnown /\ DeadLettersKnown
  BY <1>2 DEF Init, StoreInit, WorkerInit, ReaperInit, PayloadsKnown, DeadLettersKnown
<1>4. NoJobLost
  BY DEF Init, ProducerInit, NoJobLost, Submitted
<1> QED BY <1>1, <1>3, <1>4 DEF IInv

(* The inductive invariant holds in every reachable state. *)
THEOREM Inductive == Spec => []IInv
  BY IInvInit, IInvStep, PTL DEF Spec

(***************************************************************************)
(* No submitted job is lost, whatever crashes, fails or comes late.        *)
(***************************************************************************)
THEOREM NothingLost == Spec => []NoJobLost
<1>1. IInv => NoJobLost
  BY DEF IInv
<1> QED BY <1>1, Inductive, PTL

(***************************************************************************)
(* No payload in the lists exceeds its budgets, and every dead letter      *)
(* exhausted the one it names.                                             *)
(***************************************************************************)
THEOREM BudgetsKept == Spec => []BudgetRespected
<1>1. IInv => BudgetRespected
  BY DEF IInv, PayloadsKnown, DeadLettersKnown, BudgetRespected, Known
<1> QED BY <1>1, Inductive, PTL

(***************************************************************************)
(* Every payload that is kept anywhere, in a list, a claim, a late worker  *)
(* or an old scan, is that of a submitted job within its budgets.          *)
(***************************************************************************)
THEOREM CopiesKnown == Spec => []PayloadsKnown
<1>1. IInv => PayloadsKnown
  BY DEF IInv
<1> QED BY <1>1, Inductive, PTL

----------------------------------------------------------------------------
(* Refinement of AtLeastOnce *)

SubmittedJobs == {j \in Jobs : Submitted(j)}
HeldJobs == {j \in Jobs : Held(j)}
BuriedJobs == {j \in Jobs : Buried(j)}

(***************************************************************************)
(* Each effect is a step of the abstract queue, or a stutter: a copy that  *)
(* is replaced is a stutter while the job is held, and otherwise the late  *)
(* retry of a job that was settled meanwhile (this needs NoJobLost).       *)
(***************************************************************************)
LEMMA EffectRefines ==
  ASSUME IInv, Effect, UNCHANGED stage
  PROVE  Promise!Next \/ UNCHANGED Promise!vars
<1>1. SubmittedJobs' = SubmittedJobs
  BY DEF SubmittedJobs, Submitted
<1>2. \A j \in Jobs : /\ Held(j) <=> \E p \in Copies : p.job = j
                      /\ Buried(j) <=> \E d \in Letters : d.payload.job = j
                      /\ Held(j)' <=> \E p \in Copies' : p.job = j
                      /\ Buried(j)' <=> \E d \in Letters' : d.payload.job = j
  BY HeldByCopies, BuriedByLetters, HeldBuriedNext
<1> DEFINE HeldNext == HeldJobs'
           BuriedNext == BuriedJobs'
<1>3. /\ HeldNext = {j \in Jobs : Held(j)'}
      /\ BuriedNext = {j \in Jobs : Buried(j)'}
  BY DEF HeldJobs, BuriedJobs
<1> HIDE DEF Held, Buried, HeldNext, BuriedNext
<1>4. CASE Quiet
  <2>1. HeldNext = HeldJobs /\ BuriedNext = BuriedJobs /\ results' = results
    BY <1>2, <1>3, <1>4 DEF Quiet, HeldJobs, BuriedJobs
  <2> QED BY <1>1, <2>1 DEF Promise!vars, SubmittedJobs, HeldJobs, BuriedJobs,
                            HeldNext, BuriedNext
<1>5. ASSUME NEW p \in Payload, NEW q \in Payload, Replaces(p, q)
      PROVE  Promise!Next \/ UNCHANGED Promise!vars
  <2>1. p.job \in Jobs /\ Submitted(p.job) /\ q.job = p.job
    BY <1>5 DEF Replaces, Known, Payload
  <2>2. BuriedNext = BuriedJobs /\ results' = results
    BY <1>2, <1>3, <1>5 DEF Replaces, BuriedJobs
  <2>3. HeldNext = HeldJobs \cup {p.job}
    BY <1>2, <1>3, <1>5, <2>1 DEF Replaces, HeldJobs
  <2>4. CASE Held(p.job)
    <3>1. HeldNext = HeldJobs
      BY <2>1, <2>3, <2>4 DEF HeldJobs
    <3> QED BY <1>1, <2>2, <3>1 DEF Promise!vars, SubmittedJobs, HeldJobs,
                                    BuriedJobs, HeldNext, BuriedNext
  <2>5. CASE ~Held(p.job)
    <3>1. p.job \in SubmittedJobs \cap (results \cup BuriedJobs)
      BY <2>1, <2>5 DEF IInv, NoJobLost, SubmittedJobs, BuriedJobs
    <3>2. Promise!ComeBack(p.job)
      BY <1>1, <2>2, <2>3, <3>1 DEF Promise!ComeBack, SubmittedJobs, HeldJobs,
                                    BuriedJobs, HeldNext, BuriedNext
    <3> QED BY <2>1, <3>2 DEF Promise!Next
  <2> QED BY <2>4, <2>5
<1>6. ASSUME NEW p \in Payload, Stores(p)
      PROVE  Promise!Next
  <2>1. p.job \in Jobs /\ p.job \in SubmittedJobs
    BY <1>6 DEF Stores, Known, Payload, SubmittedJobs
  <2>2. BuriedNext = BuriedJobs /\ results' = results \cup {p.job}
    BY <1>2, <1>3, <1>6 DEF Stores, BuriedJobs
  <2>3. HeldNext = HeldJobs \/ HeldNext = HeldJobs \ {p.job}
    <3>1. HeldNext \subseteq HeldJobs /\ HeldJobs \ {p.job} \subseteq HeldNext
      BY <1>2, <1>3, <1>6, <2>1 DEF Stores, HeldJobs
    <3> QED BY <3>1
  <2>4. Promise!Store(p.job)
    BY <1>1, <2>1, <2>2, <2>3 DEF Promise!Store, Promise!MayRelease, SubmittedJobs,
                                  HeldJobs, BuriedJobs, HeldNext, BuriedNext
  <2> QED BY <2>1, <2>4 DEF Promise!Next
<1>7. ASSUME NEW p \in Payload, NEW d \in DeadLetter, Buries(p, d)
      PROVE  Promise!Next
  <2>1. p.job \in Jobs /\ p.job \in SubmittedJobs
    BY <1>7 DEF Buries, Known, Payload, SubmittedJobs
  <2>2. BuriedNext = BuriedJobs \cup {p.job} /\ results' = results
    BY <1>2, <1>3, <1>7, <2>1 DEF Buries, BuriedJobs
  <2>3. HeldNext = HeldJobs \/ HeldNext = HeldJobs \ {p.job}
    <3>1. HeldNext \subseteq HeldJobs /\ HeldJobs \ {p.job} \subseteq HeldNext
      BY <1>2, <1>3, <1>7, <2>1 DEF Buries, HeldJobs
    <3> QED BY <3>1
  <2>4. Promise!Bury(p.job)
    BY <1>1, <2>1, <2>2, <2>3 DEF Promise!Bury, Promise!MayRelease, SubmittedJobs,
                                  HeldJobs, BuriedJobs, HeldNext, BuriedNext
  <2> QED BY <2>1, <2>4 DEF Promise!Next
<1> QED BY <1>4, <1>5, <1>6, <1>7 DEF Effect

(* The RPUSH of enqueue() is the abstract Submit, its other steps stutter. *)
LEMMA ProducerRefines ==
  ASSUME IInv, ProducerNext
  PROVE  Promise!Next \/ UNCHANGED Promise!vars
<1>1. PICK j \in Jobs : Enqueue(j) \/ EnqueueFails(j)
  BY DEF ProducerNext
<1>2. /\ UNCHANGED <<processing, results, deadLetter>>
      /\ tasks \in Seq(Payload) /\ stage \in [Jobs -> Stages]
  BY <1>1 DEF Enqueue, EnqueueFails, SaveQueuedStatus, PushNewTask, CountSubmitted,
              store, IInv, TypeOK, StoreTypeOK, ProducerTypeOK
<1>3. BuriedJobs' = BuriedJobs
  BY <1>2 DEF BuriedJobs, Buried
<1> DEFINE SubmittedNext == SubmittedJobs'
           HeldNext == HeldJobs'
<1>4. CASE PushNewTask(j)
  <2>1. Copies' = Copies \cup {NewPayload(j)}
    BY <1>2, <1>4, NewPayloadType, AppendRange DEF PushNewTask, PushTask, Copies
  <2>2. HeldNext = HeldJobs \cup {j}
    BY <2>1, HeldByCopies, HeldBuriedNext, NewPayloadType DEF HeldJobs
  <2>3. j \notin SubmittedJobs /\ SubmittedNext = SubmittedJobs \cup {j}
    BY <1>2, <1>4 DEF PushNewTask, EnqueueGoto, SubmittedJobs, Submitted
  <2>4. Promise!Submit(j)
    BY <1>2, <1>3, <2>2, <2>3 DEF Promise!Submit, SubmittedJobs, HeldJobs, BuriedJobs
  <2> QED BY <2>4 DEF Promise!Next
<1>5. CASE ~PushNewTask(j)
  <2>1. UNCHANGED tasks
    BY <1>1, <1>5 DEF Enqueue, EnqueueFails, SaveQueuedStatus, CountSubmitted, store
  <2>2. SubmittedNext = SubmittedJobs
    BY <1>1, <1>2, <1>5 DEF Enqueue, EnqueueFails, SaveQueuedStatus, CountSubmitted,
                            EnqueueGoto, SubmittedJobs, Submitted
  <2>3. HeldNext = HeldJobs
    BY <1>2, <2>1 DEF HeldJobs, Held, PendingOf, InProcessing
  <2> QED BY <1>2, <1>3, <2>2, <2>3 DEF Promise!vars, SubmittedJobs, HeldJobs, BuriedJobs
<1> QED BY <1>4, <1>5

(* Every step of the queue is a step of the promise, or a stutter. *)
LEMMA StepRefines == IInv /\ [Next]_vars => [Promise!Next]_(Promise!vars)
<1>1. ASSUME IInv, ProducerNext PROVE [Promise!Next]_(Promise!vars)
  BY <1>1, ProducerRefines
<1>2. ASSUME IInv, WorkerNext, UNCHANGED <<stage, reaper>>
      PROVE  [Promise!Next]_(Promise!vars)
  BY <1>2, WorkerEffect, EffectRefines DEF IInv
<1>3. ASSUME IInv, ReaperNext, UNCHANGED <<stage, worker>>
      PROVE  [Promise!Next]_(Promise!vars)
  BY <1>3, ReaperEffect, EffectRefines DEF IInv
<1>4. ASSUME UNCHANGED vars PROVE UNCHANGED Promise!vars
  BY <1>4 DEF vars, store, Promise!vars, Submitted, Held, PendingOf,
              InProcessing, Buried
<1> QED BY <1>1, <1>2, <1>3, <1>4 DEF Next

(***************************************************************************)
(* The queue implements the at-least-once promise for any number of jobs   *)
(* and processes: a job leaves the queue only by being settled, and        *)
(* results and dead letters are never undone.                              *)
(***************************************************************************)
THEOREM AtLeastOnceKept == Spec => ImplementsAtLeastOnce
<1>1. Init => Promise!Init
  BY DEF Init, StoreInit, ProducerInit, Promise!Init, Submitted, Held, PendingOf,
         InProcessing, Buried
<1> QED BY <1>1, StepRefines, Inductive, PTL DEF Spec, ImplementsAtLeastOnce, Promise!Spec

----------------------------------------------------------------------------
(***************************************************************************)
(* What every status key says is backed by the rest of the store: lemmas   *)
(* about what a step does to the status of a job, and the theorem.         *)
(***************************************************************************)

(* Nothing of what may become of job j happens in a step. *)
SameFate(j) ==
  /\ Held(j)' <=> Held(j)
  /\ j \in results' <=> j \in results
  /\ Buried(j)' <=> Buried(j)

(* A step that leaves the status of job j alone leaves its fate alone, and  *)
(* one that writes a status backs it.                                       *)
StatusStep(j) ==
  \/ status'[j] = status[j] /\ SameFate(j)
  \/ /\ status'[j] = "processing" /\ SameFate(j)
     /\ \E w \in Workers : pc[w] = "save_processing" /\ task[w].job = j
  \/ status'[j] = "completed" /\ j \in results'
  \/ status'[j] = "failed" /\ Buried(j)'
  \/ status'[j] = "queued" /\ Held(j)'

(* A step about another job: it replaces a copy p of it by q, or removes p, *)
(* and may store its result or bury it.                                     *)
LEMMA OthersSameFate ==
  ASSUME NEW j, NEW p, NEW q, p.job # j, q.job # j,
         Copies \ {p} \subseteq Copies', Copies' \subseteq Copies \cup {q},
         results \subseteq results', results' \subseteq results \cup {p.job},
         Letters \subseteq Letters',
         \A d \in Letters' \ Letters : d.payload.job = p.job
  PROVE  SameFate(j)
<1>1. /\ Held(j) <=> \E c \in Copies : c.job = j
      /\ Held(j)' <=> \E c \in Copies' : c.job = j
      /\ Buried(j) <=> \E d \in Letters : d.payload.job = j
      /\ Buried(j)' <=> \E d \in Letters' : d.payload.job = j
  BY HeldByCopies, BuriedByLetters, HeldBuriedNext
<1>2. Held(j)' <=> Held(j)
  BY <1>1
<1>3. Buried(j)' <=> Buried(j)
  BY <1>1
<1>4. j \in results' <=> j \in results
  OBVIOUS
<1> QED BY <1>2, <1>3, <1>4 DEF SameFate

(* Lists and results that are left alone keep the fate of every job. *)
LEMMA SameListsSameFate ==
  ASSUME NEW j, Copies' = Copies, UNCHANGED <<results, deadLetter>>
  PROVE  SameFate(j)
<1>1. /\ Held(j) <=> \E q \in Copies : q.job = j
      /\ Held(j)' <=> \E q \in Copies' : q.job = j
  BY HeldByCopies, HeldBuriedNext
<1>2. Buried(j)' <=> Buried(j)
  BY DEF Buried
<1> QED BY <1>1, <1>2 DEF SameFate

(* Every step of a worker backs the status it writes. *)
LEMMA WorkerStatus ==
  ASSUME TypeOK, WorkerNext, UNCHANGED <<stage, reaper>>, NEW j \in Jobs
  PROVE  StatusStep(j)
<1>1. /\ StoreTypeOK /\ WorkerTypeOK
      /\ tasks \in Seq(Payload) /\ processing \in Seq(Payload)
      /\ deadLetter \in Seq(DeadLetter)
      /\ status \in [Jobs -> Statuses]
  BY DEF TypeOK, StoreTypeOK
<1>2. PICK w \in Workers : WorkerStep(w) \/ Crash(w)
  BY DEF WorkerNext
<1>3. pc[w] # "idle" => task[w] \in Payload /\ task[w].job \in Jobs
  BY <1>1, TaskType
<1> DEFINE p == task[w]
<1>4. CASE Dequeue(w)
  <2>1. /\ Range(tasks) = Range(Tail(tasks)) \cup {Head(tasks)}
        /\ Head(tasks) \in Payload
    BY <1>1, <1>4, TailRange DEF Dequeue
  <2>2. Range(processing') = Range(processing) \cup {Head(tasks)}
    BY <1>1, <1>4, <2>1, AppendRange DEF Dequeue
  <2>3. Copies' = Copies
    BY <1>4, <2>1, <2>2 DEF Dequeue, Copies
  <2>4. SameFate(j)
    BY <1>4, <2>3, SameListsSameFate DEF Dequeue
  <2> QED BY <1>4, <2>4 DEF Dequeue, StatusStep
<1>5. CASE \/ RecordClaim(w) \/ MarkStarted(w)
           \/ InferenceFails(w) \/ CountCompletedFails(w)
           \/ HandlerFails(w) \/ CountAttempt(w) \/ ObserveWait(w)
           \/ CountCompleted(w) \/ CountRetry(w) \/ CountFailed(w) \/ CountDead(w)
           \/ RecordDuration(w) \/ Crash(w)
  <2>1. UNCHANGED <<tasks, processing, results, deadLetter, status>>
    BY <1>5 DEF RecordClaim, MarkStarted, WriteClaim, InferenceFails,
                CountCompletedFails, HandlerFails, CountAttempt, ObserveWait,
                CountCompleted, CountRetry, CountFailed, CountDead, CountStep,
                RecordDuration, Crash, store
  <2>2. SameFate(j)
    BY <2>1, SameListsSameFate DEF Copies
  <2> QED BY <2>1, <2>2 DEF StatusStep
<1>6. CASE SaveProcessing(w)
  <2>1. /\ UNCHANGED <<tasks, processing, results, deadLetter>>
        /\ status' = [status EXCEPT ![p.job] = "processing"]
    BY <1>6 DEF SaveProcessing, SetStatus
  <2>2. SameFate(j)
    BY <2>1, SameListsSameFate DEF Copies
  <2>3. \/ status'[j] = status[j]
        \/ status'[j] = "processing" /\ task[w].job = j
    BY <1>1, <2>1
  <2>4. pc[w] = "save_processing"
    BY <1>6 DEF SaveProcessing, Goto
  <2> QED BY <2>2, <2>3, <2>4 DEF StatusStep
<1>7. CASE SaveResult(w) \/ SaveResultReplyLost(w)
  <2>1. pc[w] # "idle" /\ StoreResult(w)
    BY <1>7 DEF SaveResult, SaveResultReplyLost, Goto
  <2>2. /\ status' = [status EXCEPT ![p.job] = "completed"]
        /\ results' = results \cup {p.job}
        /\ Ack(p, remembered[w]) /\ UNCHANGED tasks
    BY <2>1 DEF StoreResult, SetStatus
  <2>3. /\ Range(processing) \ {p} \subseteq Range(processing')
        /\ Range(processing') \subseteq Range(processing)
    BY <1>1, <1>3, <2>1, <2>2, AckEffect
  <2>4. CASE p.job = j
    BY <1>1, <2>2, <2>4 DEF StatusStep
  <2>5. CASE p.job # j
    <3>1. SameFate(j)
      BY <1>7, <2>1, <2>2, <2>3, <2>5, OthersSameFate DEF StoreResult, Copies, Letters
    <3>2. status'[j] = status[j]
      BY <1>1, <2>2, <2>5
    <3> QED BY <3>1, <3>2 DEF StatusStep
  <2> QED BY <2>4, <2>5
<1>8. CASE Requeue(w)
  <2> DEFINE q == Retried(p, clock[p.job] + 1)
  <2>1. /\ pc[w] # "idle" /\ Ack(p, remembered[w])
        /\ status' = [status EXCEPT ![p.job] = "queued"]
    BY <1>8 DEF Requeue, Goto, SetStatus
  <2>2. /\ Range(processing) \ {p} \subseteq Range(processing')
        /\ Range(processing') \subseteq Range(processing)
    BY <1>1, <1>3, <2>1, AckEffect
  <2>3. clock[p.job] + 1 \in Nat
    BY <1>1, <1>3, <2>1 DEF StoreTypeOK
  <2>4. q \in Payload /\ q.job = p.job
    BY <1>3, <2>1, <2>3, PayloadUpdates
  <2>5. Range(tasks') = Range(tasks) \cup {q}
    BY <1>1, <1>8, <2>4, AppendRange DEF Requeue, PushTask
  <2>6. CASE p.job = j
    <3>1. q \in Copies' /\ q.job = j
      BY <2>4, <2>5, <2>6 DEF Copies
    <3>2. Held(j)'
      BY <3>1, HeldBuriedNext
    <3> QED BY <1>1, <2>1, <2>6, <3>2 DEF StatusStep
  <2>7. CASE p.job # j
    <3>1. SameFate(j)
      BY <1>8, <2>2, <2>4, <2>5, <2>7, OthersSameFate DEF Requeue, Copies, Letters
    <3>2. status'[j] = status[j]
      BY <1>1, <2>1, <2>7
    <3> QED BY <3>1, <3>2 DEF StatusStep
  <2> QED BY <2>6, <2>7
<1>9. CASE SetError(w)
  <2> DEFINE d == [payload |-> p, reason |-> "retry_limit"]
  <2>1. /\ pc[w] # "idle" /\ Ack(p, remembered[w]) /\ UNCHANGED tasks
        /\ status' = [status EXCEPT ![p.job] = "failed"]
    BY <1>9 DEF SetError, Goto, SetStatus
  <2>2. /\ Range(processing) \ {p} \subseteq Range(processing')
        /\ Range(processing') \subseteq Range(processing)
    BY <1>1, <1>3, <2>1, AckEffect
  <2>3. d \in DeadLetter /\ d.payload.job = p.job
    BY <1>3, <2>1 DEF DeadLetter
  <2>4. Letters' = Letters \cup {d}
    BY <1>1, <1>9, <2>3, AppendRange DEF SetError, PushDeadLetter, Letters
  <2>5. CASE p.job = j
    <3>1. Buried(j)'
      BY <2>3, <2>4, <2>5, HeldBuriedNext
    <3> QED BY <1>1, <2>1, <2>5, <3>1 DEF StatusStep
  <2>6. CASE p.job # j
    <3>1. SameFate(j)
      BY <1>9, <2>1, <2>2, <2>3, <2>4, <2>6, OthersSameFate DEF SetError, Copies
    <3>2. status'[j] = status[j]
      BY <1>1, <2>1, <2>6
    <3> QED BY <3>1, <3>2 DEF StatusStep
  <2> QED BY <2>5, <2>6
<1> QED BY <1>2, <1>4, <1>5, <1>6, <1>7, <1>8, <1>9 DEF WorkerStep

(* Every step of a reaper backs the status it writes. *)
LEMMA ReaperStatus ==
  ASSUME TypeOK, ReaperNext, UNCHANGED <<stage, worker>>, NEW j \in Jobs
  PROVE  StatusStep(j)
<1>1. /\ StoreTypeOK /\ ReaperTypeOK
      /\ tasks \in Seq(Payload)
      /\ deadLetter \in Seq(DeadLetter)
      /\ status \in [Jobs -> Statuses]
  BY DEF TypeOK, StoreTypeOK
<1>2. PICK r \in Reapers : Scan(r) \/ ReaperStep(r) \/ ScanFails(r)
  BY DEF ReaperNext
<1>3. CASE \/ Scan(r) \/ ScanFails(r)
           \/ \E c \in snapshot[r] : SkipChangedClaim(r, c) \/ DropOrphanClaim(r, c)
           \/ CountRecovered(r) \/ CountBuried(r) \/ CountBuriedDead(r)
  <2>1. UNCHANGED <<tasks, processing, results, deadLetter, status>>
    BY <1>3 DEF Scan, ScanFails, SkipChangedClaim, DropOrphanClaim, CountRecovered,
                CountBuried, CountBuriedDead, ReaperCount, store
  <2>2. SameFate(j)
    BY <2>1, SameListsSameFate DEF Copies
  <2> QED BY <2>1, <2>2 DEF StatusStep
<1>4. ASSUME NEW c \in snapshot[r], Recover(r, c) PROVE StatusStep(j)
  <2> DEFINE q == Recovered(c.payload)
  <2>1. TakeBack(r, c, "count_recovered") /\ "count_recovered" \in ReaperPcs
    BY <1>4 DEF Recover, ReaperPcs
  <2>2. /\ c.payload \in Payload /\ c.payload.job \in Jobs
        /\ Range(processing) \ {c.payload} \subseteq Range(processing')
        /\ Range(processing') \subseteq Range(processing)
    BY <1>1, <2>1, TakeBackEffect
  <2>3. q \in Payload /\ q.job = c.payload.job
    BY <2>2, PayloadUpdates
  <2>4. Range(tasks') = Range(tasks) \cup {q}
    BY <1>1, <1>4, <2>3, AppendRange DEF Recover, PushTask
  <2>5. status' = [status EXCEPT ![c.payload.job] = "queued"]
    BY <1>4 DEF Recover, SetStatus
  <2>6. CASE c.payload.job = j
    <3>1. q \in Copies' /\ q.job = j
      BY <2>3, <2>4, <2>6 DEF Copies
    <3>2. Held(j)'
      BY <3>1, HeldBuriedNext
    <3> QED BY <1>1, <2>5, <2>6, <3>2 DEF StatusStep
  <2>7. CASE c.payload.job # j
    <3>1. SameFate(j)
      BY <1>4, <2>2, <2>3, <2>4, <2>7, OthersSameFate DEF Recover, Copies, Letters
    <3>2. status'[j] = status[j]
      BY <1>1, <2>5, <2>7
    <3> QED BY <3>1, <3>2 DEF StatusStep
  <2> QED BY <2>6, <2>7
<1>5. ASSUME NEW c \in snapshot[r], Bury(r, c) PROVE StatusStep(j)
  <2> DEFINE d == [payload |-> Recovered(c.payload), reason |-> "recovery_limit"]
  <2>1. TakeBack(r, c, "count_failed") /\ "count_failed" \in ReaperPcs
    BY <1>5 DEF Bury, ReaperPcs
  <2>2. /\ c.payload \in Payload /\ c.payload.job \in Jobs
        /\ Range(processing) \ {c.payload} \subseteq Range(processing')
        /\ Range(processing') \subseteq Range(processing)
    BY <1>1, <2>1, TakeBackEffect
  <2>3. d \in DeadLetter /\ d.payload.job = c.payload.job
    BY <2>2, PayloadUpdates DEF DeadLetter
  <2>4. Letters' = Letters \cup {d}
    BY <1>1, <1>5, <2>3, AppendRange DEF Bury, PushDeadLetter, Letters
  <2>5. status' = [status EXCEPT ![c.payload.job] = "failed"] /\ UNCHANGED tasks
    BY <1>5 DEF Bury, SetStatus
  <2>6. CASE c.payload.job = j
    <3>1. Buried(j)'
      BY <2>3, <2>4, <2>6, HeldBuriedNext
    <3> QED BY <1>1, <2>5, <2>6, <3>1 DEF StatusStep
  <2>7. CASE c.payload.job # j
    <3>1. SameFate(j)
      BY <1>5, <2>2, <2>3, <2>4, <2>5, <2>7, OthersSameFate DEF Bury, Copies
    <3>2. status'[j] = status[j]
      BY <1>1, <2>5, <2>7
    <3> QED BY <3>1, <3>2 DEF StatusStep
  <2> QED BY <2>6, <2>7
<1> QED BY <1>2, <1>3, <1>4, <1>5 DEF ReaperStep, HandleClaim

(* A step of enqueue() keeps what is held, and names a job queued only      *)
(* before it is submitted.                                                  *)
LEMMA ProducerStatus ==
  ASSUME TypeOK, ProducerNext, NEW j \in Jobs
  PROVE  /\ Held(j) => Held(j)'
         /\ UNCHANGED <<processing, results, deadLetter>>
         /\ \/ status'[j] = status[j]
            \/ status'[j] = "queued" /\ stage[j] = "new" /\ stage'[j] = "push"
         /\ Submitted(j) => Submitted(j)'
         /\ Submitted(j)' => Submitted(j) \/ Held(j)'
<1>1. PICK i \in Jobs : Enqueue(i) \/ EnqueueFails(i)
  BY DEF ProducerNext
<1>2. /\ UNCHANGED <<processing, results, deadLetter>>
      /\ tasks \in Seq(Payload) /\ status \in [Jobs -> Statuses]
      /\ stage \in [Jobs -> Stages]
  BY <1>1 DEF Enqueue, EnqueueFails, SaveQueuedStatus, PushNewTask,
              CountSubmitted, store, TypeOK, StoreTypeOK, ProducerTypeOK
<1>3. /\ Held(j) <=> \E p \in Copies : p.job = j
      /\ Held(j)' <=> \E p \in Copies' : p.job = j
  BY HeldByCopies, HeldBuriedNext
<1>4. Submitted(j) => Submitted(j)'
  BY <1>1, SubmittedStays
<1>5. CASE PushNewTask(i)
  <2>1. Range(tasks') = Range(tasks) \cup {NewPayload(i)}
    BY <1>2, <1>5, NewPayloadType, AppendRange DEF PushNewTask, PushTask
  <2>2. Copies' = Copies \cup {NewPayload(i)}
    BY <1>2, <2>1 DEF Copies
  <2>3. i = j => Held(j)'
    BY <1>3, <2>2, NewPayloadType
  <2>4. i # j => (Submitted(j)' => Submitted(j))
    BY <1>2, <1>5 DEF PushNewTask, EnqueueGoto, Submitted
  <2>5. status' = status
    BY <1>5 DEF PushNewTask
  <2>6. Held(j) => Held(j)'
    BY <1>3, <2>2
  <2> QED BY <1>2, <1>4, <2>3, <2>4, <2>5, <2>6
<1>6. CASE ~PushNewTask(i)
  <2>1. UNCHANGED tasks
    BY <1>1, <1>6 DEF Enqueue, EnqueueFails, SaveQueuedStatus, CountSubmitted, store
  <2>2. Held(j) => Held(j)'
    BY <1>2, <1>3, <2>1 DEF Copies
  <2>3. Submitted(j)' => Submitted(j)
    BY <1>1, <1>2, <1>6 DEF Enqueue, EnqueueFails, SaveQueuedStatus, CountSubmitted,
                            EnqueueGoto, Submitted
  <2>4. \/ status'[j] = status[j]
        \/ status'[j] = "queued" /\ stage[j] = "new" /\ stage'[j] = "push"
    BY <1>1, <1>2, <1>6 DEF Enqueue, EnqueueFails, SaveQueuedStatus, CountSubmitted,
                            EnqueueGoto, SetStatus, store
  <2> QED BY <1>2, <1>4, <2>2, <2>3, <2>4
<1> QED BY <1>5, <1>6

(* A step of a worker or a reaper keeps every status backed. *)
LEMMA StatusBackedFrame ==
  ASSUME StatusBacked, Effect, UNCHANGED stage, \A j \in Jobs : StatusStep(j)
  PROVE  StatusBacked'
<1> SUFFICES ASSUME NEW j \in Jobs
             PROVE  /\ status'[j] = "completed" => j \in results'
                    /\ status'[j] = "failed" => Buried(j)'
                    /\ status'[j] = "queued" /\ Submitted(j)' => Held(j)'
  BY DEF StatusBacked
<1>1. /\ j \in results => j \in results'
      /\ Buried(j) => Buried(j)'
  BY EffectOnJobs
<1>2. Submitted(j)' <=> Submitted(j)
  BY DEF Submitted
<1>3. StatusStep(j)
  OBVIOUS
<1> HIDE DEF Held, Buried, Submitted
<1> QED BY <1>1, <1>2, <1>3 DEF StatusBacked, StatusStep, SameFate

(* StatusBacked is inductive relative to the invariant of the queue. *)
LEMMA StatusBackedStep ==
  IInv /\ StatusBacked /\ [Next]_vars => StatusBacked'
<1>1. ASSUME IInv, StatusBacked, ProducerNext PROVE StatusBacked'
  <2> SUFFICES ASSUME NEW j \in Jobs
               PROVE  /\ status'[j] = "completed" => j \in results'
                      /\ status'[j] = "failed" => Buried(j)'
                      /\ status'[j] = "queued" /\ Submitted(j)' => Held(j)'
    BY DEF StatusBacked
  <2>1. /\ Held(j) => Held(j)'
        /\ UNCHANGED <<processing, results, deadLetter>>
        /\ \/ status'[j] = status[j]
           \/ status'[j] = "queued" /\ stage[j] = "new" /\ stage'[j] = "push"
        /\ Submitted(j)' => Submitted(j) \/ Held(j)'
    BY <1>1, ProducerStatus DEF IInv
  <2>2. Buried(j)' <=> Buried(j)
    BY <2>1 DEF Buried
  <2>3. stage'[j] = "push" => ~Submitted(j)'
    BY DEF Submitted
  <2> HIDE DEF Held, Buried, Submitted
  <2> QED BY <1>1, <2>1, <2>2, <2>3 DEF StatusBacked
<1>2. ASSUME IInv, StatusBacked, WorkerNext, UNCHANGED <<stage, reaper>>
      PROVE  StatusBacked'
  BY <1>2, WorkerEffect, WorkerStatus, StatusBackedFrame DEF IInv
<1>3. ASSUME IInv, StatusBacked, ReaperNext, UNCHANGED <<stage, worker>>
      PROVE  StatusBacked'
  BY <1>3, ReaperEffect, ReaperStatus, StatusBackedFrame DEF IInv
<1>4. ASSUME StatusBacked, UNCHANGED vars PROVE StatusBacked'
  BY <1>4 DEF vars, store, StatusBacked, Submitted, Held, PendingOf, InProcessing, Buried
<1> QED BY <1>1, <1>2, <1>3, <1>4 DEF Next

(* The initial state names no status. *)
LEMMA StatusBackedInit == Init => StatusBacked
  BY DEF Init, StoreInit, StatusBacked

(***************************************************************************)
(* What a client reads as the status of its job is backed by a result, a   *)
(* dead letter or a copy in the queue, whatever crashes, fails or comes    *)
(* late: status and list are written by one MULTI or script everywhere but *)
(* in enqueue(), which writes the status first.                            *)
(***************************************************************************)
THEOREM StatusAlwaysBacked == Spec => []StatusBacked
<1>1. Init => StatusBacked
  BY StatusBackedInit
<1>2. IInv /\ StatusBacked /\ [Next]_vars => StatusBacked'
  BY StatusBackedStep
<1> QED BY <1>1, <1>2, Inductive, PTL DEF Spec

============================================================================
