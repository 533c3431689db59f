---------------------------- MODULE JobApiProofs ----------------------------
(***************************************************************************)
(* The answers of the polling endpoints, for any number of clients: they   *)
(* are backed by the store while no key expires, and keep the promise of   *)
(* PolledJob, whatever keys expire, while no claim expires early and no    *)
(* Redis call fails.                                                       *)
(***************************************************************************)
EXTENDS JobApi, QueueLeaseProofs

(* What a handler read first is still true when it reads again. *)
ReadsBacked ==
  \A j \in Jobs :
    /\ request[j].next = "result" => j \in results
    /\ request[j].saw = "completed" => j \in results
    /\ request[j].saw = "failed" => Buried(j)

(* Since its call was answered, the status of a job is there to be read. *)
StatusThere == \A j \in Jobs : stage[j] # "new" => status[j] # "none"

Steps == {"none", "size", "result"}

RequestType == request \in [Jobs -> [next : Steps, saw : Statuses]]

ApiInv == IInv /\ StatusBacked /\ StatusThere /\ RequestType /\ ReadsBacked

(* A step of the queue keeps results, dead letters and a status. *)
LEMMA QueueKeeps ==
  ASSUME IInv, Next, NEW j \in Jobs
  PROVE  /\ j \in results => j \in results'
         /\ Buried(j) => Buried(j)'
         /\ (stage[j] # "new" => status[j] # "none")
              => (stage'[j] # "new" => status'[j] # "none")
<1>1. CASE ProducerNext
  <2>1. PICK i \in Jobs : Enqueue(i) \/ EnqueueFails(i)
    BY <1>1 DEF ProducerNext
  <2>2. UNCHANGED <<results, deadLetter>>
    BY <1>1, ProducerStatus DEF IInv
  <2>3. Buried(j)' <=> Buried(j)
    BY <2>2 DEF Buried
  <2>4. stage \in [Jobs -> Stages] /\ status \in [Jobs -> Statuses]
    BY DEF IInv, TypeOK, ProducerTypeOK, StoreTypeOK
  <2>5. CASE SaveQueuedStatus(i)
    BY <2>2, <2>3, <2>4, <2>5 DEF SaveQueuedStatus, EnqueueGoto, SetStatus
  <2>6. CASE PushNewTask(i) \/ CountSubmitted(i) \/ EnqueueFails(i)
    <3>1. UNCHANGED status /\ (stage'[j] # "new" => stage[j] # "new")
      BY <2>4, <2>6 DEF PushNewTask, CountSubmitted, EnqueueFails, EnqueueGoto, store
    <3> QED BY <2>2, <2>3, <3>1
  <2> QED BY <2>1, <2>5, <2>6 DEF Enqueue
<1>2. CASE \/ WorkerNext /\ UNCHANGED <<stage, reaper>>
           \/ ReaperNext /\ UNCHANGED <<stage, worker>>
  <2>1. Effect /\ StatusStep(j) /\ UNCHANGED stage
    BY <1>2, WorkerEffect, ReaperEffect, WorkerStatus, ReaperStatus DEF IInv
  <2>2. /\ j \in results => j \in results'
        /\ Buried(j) => Buried(j)'
    BY <2>1, EffectOnJobs
  <2>3. status'[j] = "none" => status[j] = "none"
    BY <2>1 DEF StatusStep
  <2> QED BY <2>1, <2>2, <2>3
<1> QED BY <1>1, <1>2 DEF Next

(* Without expiry the reads of a client stay true whatever the queue does. *)
LEMMA ApiInvStep ==
  ASSUME KeysExpire = FALSE
  PROVE  ApiInv /\ [ApiNext]_apiVars => ApiInv'
<1>1. ASSUME ApiInv, Next, UNCHANGED client PROVE ApiInv'
  <2>1. IInv' /\ StatusBacked'
    BY <1>1, IInvStep, StatusBackedStep DEF ApiInv
  <2>2. UNCHANGED request
    BY <1>1 DEF client
  <2>3. \A j \in Jobs :
          /\ j \in results => j \in results'
          /\ Buried(j) => Buried(j)'
          /\ (stage[j] # "new" => status[j] # "none")
               => (stage'[j] # "new" => status'[j] # "none")
    BY <1>1, QueueKeeps DEF ApiInv
  <2>4. StatusThere'
    BY <1>1, <2>3 DEF ApiInv, StatusThere
  <2>5. ReadsBacked'
    <3> SUFFICES ASSUME NEW j \in Jobs
                 PROVE  /\ request'[j].next = "result" => j \in results'
                        /\ request'[j].saw = "completed" => j \in results'
                        /\ request'[j].saw = "failed" => Buried(j)'
      BY DEF ReadsBacked
    <3> HIDE DEF Buried
    <3> QED BY <1>1, <2>2, <2>3 DEF ApiInv, ReadsBacked
  <2>6. RequestType'
    BY <1>1, <2>2 DEF ApiInv, RequestType
  <2> QED BY <2>1, <2>4, <2>5, <2>6 DEF ApiInv
<1>2. ASSUME ApiInv, ClientNext, UNCHANGED vars PROVE ApiInv'
  <2>1. IInv' /\ StatusBacked'
    BY <1>2, IInvStep, StatusBackedStep DEF ApiInv
  <2>2. PICK i \in Polled : FirstRead(i) \/ SecondRead(i) \/ RequestFails(i)
    BY <1>2 DEF ClientNext
  <2>3. i \in Jobs
    BY PolledAreJobs
  <2>4. UNCHANGED <<status, results, deadLetter, stage>>
    BY <1>2 DEF vars, store
  <2>5. status \in [Jobs -> Statuses] /\ request \in [Jobs -> [next : Steps, saw : Statuses]]
    BY <1>2 DEF ApiInv, IInv, TypeOK, StoreTypeOK, RequestType
  <2>6. \/ request' = [request EXCEPT ![i] = NoRequest]
        \/ request' = [request EXCEPT ![i] = [next |-> "size", saw |-> status[i]]]
        \/ /\ status[i] = "completed"
           /\ request' = [request EXCEPT ![i] = [next |-> "result", saw |-> status[i]]]
    BY <2>2 DEF FirstRead, SecondRead, RequestFails, NotFound, ReadStatus, AnswerFailed,
                ReadForResult, AnswerStatus, AnswerResult, Answer, Send
  <2>7. RequestType'
    <3>1. NoRequest \in [next : Steps, saw : Statuses]
      BY DEF NoRequest, Steps, Statuses
    <3>2. \A n \in {"size", "result"} :
            [next |-> n, saw |-> status[i]] \in [next : Steps, saw : Statuses]
      BY <2>3, <2>5 DEF Steps
    <3> QED BY <2>3, <2>5, <2>6, <3>1, <3>2 DEF RequestType
  <2>8. ReadsBacked'
    <3>1. \A j \in Jobs : /\ request[j].next = "result" => j \in results
                          /\ request[j].saw = "completed" => j \in results
                          /\ request[j].saw = "failed" => Buried(j)
                          /\ status[j] = "completed" => j \in results
                          /\ status[j] = "failed" => Buried(j)
      BY <1>2 DEF ApiInv, ReadsBacked, StatusBacked
    <3>2. \A j \in Jobs : Buried(j)' <=> Buried(j)
      BY <2>4 DEF Buried
    <3> SUFFICES ASSUME NEW j \in Jobs
                 PROVE  /\ request'[j].next = "result" => j \in results
                        /\ request'[j].saw = "completed" => j \in results
                        /\ request'[j].saw = "failed" => Buried(j)
      BY <2>4, <3>2 DEF ReadsBacked
    <3> HIDE DEF Buried
    <3>3. CASE j # i
      BY <2>5, <2>6, <3>1, <3>3
    <3>4. CASE j = i
      BY <2>5, <2>6, <3>1, <3>4 DEF NoRequest
    <3> QED BY <3>3, <3>4
  <2>9. StatusThere'
    BY <1>2, <2>4 DEF ApiInv, StatusThere
  <2> QED BY <2>1, <2>7, <2>8, <2>9 DEF ApiInv
<1>3. ASSUME ApiInv, UNCHANGED apiVars PROVE ApiInv'
  <2>1. UNCHANGED vars
    BY <1>3 DEF apiVars, vars
  <2>2. IInv' /\ StatusBacked'
    BY <1>3, <2>1, IInvStep, StatusBackedStep DEF ApiInv
  <2>3. StatusThere' /\ RequestType' /\ ReadsBacked'
    BY <1>3 DEF ApiInv, apiVars, store, client, StatusThere, RequestType, ReadsBacked, Buried
  <2> QED BY <2>2, <2>3 DEF ApiInv
<1>4. ASSUME NEW j \in Polled PROVE ~Expire(j)
  BY DEF Expire
<1> QED BY <1>1, <1>2, <1>3, <1>4 DEF ApiNext

(* At first no client has asked. *)
LEMMA ApiInvInit == ApiInit => ApiInv
<1> SUFFICES ASSUME ApiInit PROVE ApiInv
  OBVIOUS
<1>1. IInv /\ StatusBacked
  BY IInvInit, StatusBackedInit DEF ApiInit
<1>2. StatusThere
  BY DEF ApiInit, Init, ProducerInit, StatusThere
<1>3. RequestType /\ ReadsBacked
  BY DEF ApiInit, NoRequest, RequestType, ReadsBacked, Steps, Statuses
<1> QED BY <1>1, <1>2, <1>3 DEF ApiInv

(* An answer that a step gives is backed after that step. *)
LEMMA AnswerBacked ==
  ASSUME ApiInv, ClientNext, UNCHANGED vars, NEW j \in Jobs, answer'[j] # answer[j],
         DOMAIN answer = Jobs
  PROVE  Backed(j)'
<1>1. PICK i \in Polled : FirstRead(i) \/ SecondRead(i) \/ RequestFails(i)
  BY DEF ClientNext
<1>2. UNCHANGED <<status, results, deadLetter, stage>>
  BY DEF vars, store
<1>3. Buried(j)' <=> Buried(j)
  BY <1>2 DEF Buried
<1>4. \/ UNCHANGED answer
      \/ /\ NotFound(i) /\ answer' = [answer EXCEPT ![i] = "unknown"]
      \/ /\ AnswerFailed(i) /\ answer' = [answer EXCEPT ![i] = "failed"]
      \/ /\ AnswerStatus(i) /\ answer' = [answer EXCEPT ![i] = request[i].saw]
      \/ /\ AnswerResult(i)
         /\ answer' = [answer EXCEPT ![i] = IF i \in results THEN "completed" ELSE "empty"]
  BY <1>1 DEF FirstRead, SecondRead, RequestFails, NotFound, ReadStatus, AnswerFailed,
              ReadForResult, AnswerStatus, AnswerResult, Answer, Send
<1>5. i = j
  BY <1>4
<1>6. ~NotFound(j)
  BY DEF NotFound, Ask, ApiInv, StatusThere
<1>7. AnswerFailed(j) => Buried(j)
  BY DEF AnswerFailed, ApiInv, StatusBacked
<1>8. /\ request[j].saw = "completed" => j \in results
      /\ request[j].saw = "failed" => Buried(j)
      /\ request[j].saw \notin {"empty", "unknown"}
  BY DEF ApiInv, RequestType, ReadsBacked, Statuses
<1>9. AnswerResult(j) => j \in results
  BY DEF AnswerResult, ApiInv, ReadsBacked
<1> HIDE DEF Buried
<1>10. \/ answer'[j] = "failed" /\ Buried(j)
       \/ answer'[j] = "completed" /\ j \in results
       \/ answer'[j] = request[j].saw
  BY <1>4, <1>5, <1>6, <1>7, <1>9
<1> QED BY <1>2, <1>3, <1>8, <1>10 DEF Backed

(***************************************************************************)
(* While no key expires, every answer to a client is true and complete     *)
(* when it is given, whatever crashes, fails or comes late: no 404 and no  *)
(* empty result for a job whose submission was answered, no completed      *)
(* without a result and no failed without a dead letter.                   *)
(***************************************************************************)
THEOREM AnswersTrue ==
  ASSUME KeysExpire = FALSE
  PROVE  ApiSpec => AnswersBacked
<1> DEFINE AnswerType == DOMAIN answer = Jobs
<1>1. ApiInit => ApiInv /\ AnswerType
  BY ApiInvInit DEF ApiInit
<1>2. ApiInv /\ [ApiNext]_apiVars => ApiInv'
  BY ApiInvStep
<1>3. AnswerType /\ [ApiNext]_apiVars => AnswerType'
  <2>1. ASSUME AnswerType, ClientNext PROVE AnswerType'
    BY <2>1 DEF ClientNext, FirstRead, SecondRead, RequestFails, NotFound, ReadStatus,
                AnswerFailed, ReadForResult, AnswerStatus, AnswerResult, Answer, Send
  <2>2. ASSUME AnswerType, UNCHANGED answer PROVE AnswerType'
    BY <2>2
  <2> QED BY <2>1, <2>2 DEF ApiNext, apiVars, client
<1>4. ApiInv /\ AnswerType /\ [ApiNext]_apiVars
        => [\A j \in Jobs : answer'[j] # answer[j] => Backed(j)']_apiVars
  <2>1. ASSUME ApiInv, AnswerType, ClientNext, UNCHANGED vars
        PROVE  \A j \in Jobs : answer'[j] # answer[j] => Backed(j)'
    BY <2>1, AnswerBacked
  <2>2. ASSUME UNCHANGED answer
        PROVE  \A j \in Jobs : answer'[j] # answer[j] => Backed(j)'
    BY <2>2
  <2>3. ASSUME Next, UNCHANGED client PROVE UNCHANGED answer
    BY <2>3 DEF client
  <2> QED BY <2>1, <2>2, <2>3 DEF ApiNext
<1> HIDE DEF AnswerType
<1> QED BY <1>1, <1>2, <1>3, <1>4, PTL DEF ApiSpec, AnswersBacked

----------------------------------------------------------------------------
(***************************************************************************)
(* What the client is told when no claim expires early and no Redis call   *)
(* fails, while keys expire: first what the status of a job says of its    *)
(* outcome.                                                                 *)
(***************************************************************************)
(* The outcome of a job, by its place in the queue. *)
Outcomes ==
  \A j \in Jobs :
    /\ Outcome(j) \in {"open", "completed", "failed"}
    /\ ~Submitted(j) => Outcome(j) = "open"
    /\ Waits(j) => Outcome(j) = "open"
    /\ Runs(j) => Outcome(j) = "open"
    /\ Submitted(j) /\ ~Waits(j) /\ ~Runs(j) /\ Buried(j) => Outcome(j) = "failed"
    /\ Submitted(j) /\ ~Waits(j) /\ ~Runs(j) /\ ~Buried(j) => Outcome(j) = "completed"
    /\ Outcome(j) = "completed" <=> Phase(j) = "stored"
    /\ Outcome(j) = "failed" <=> Phase(j) = "buried"

(* Every place has its outcome, *)
LEMMA OutcomesFound == LeaseHeld => Outcomes
<1> SUFFICES ASSUME LeaseHeld, NEW j \in Jobs
             PROVE  /\ Outcome(j) \in {"open", "completed", "failed"}
                    /\ ~Submitted(j) => Outcome(j) = "open"
                    /\ Waits(j) => Outcome(j) = "open"
                    /\ Runs(j) => Outcome(j) = "open"
                    /\ Submitted(j) /\ ~Waits(j) /\ ~Runs(j) /\ Buried(j)
                         => Outcome(j) = "failed"
                    /\ Submitted(j) /\ ~Waits(j) /\ ~Runs(j) /\ ~Buried(j)
                         => Outcome(j) = "completed"
                    /\ Outcome(j) = "completed" <=> Phase(j) = "stored"
                    /\ Outcome(j) = "failed" <=> Phase(j) = "buried"
  BY DEF Outcomes
<1>1. Place(j)
  BY PlacesFound DEF Places
<1>2. Held(j) <=> Waits(j) \/ Runs(j)
  BY HeldByCopies DEF Waits, Runs, Copies
<1>3. Outcome(j) = IF ~Submitted(j) \/ Held(j) THEN "open"
                   ELSE IF Buried(j) THEN "failed" ELSE "completed"
  BY DEF Outcome
<1> HIDE DEF Waits, Runs, Submitted, Buried, Held, Phase, Outcome
<1>4. CASE ~Submitted(j)
  BY <1>1, <1>3, <1>4 DEF Place
<1>5. CASE Waits(j) \/ Runs(j)
  BY <1>1, <1>2, <1>3, <1>5 DEF Place
<1>6. CASE Submitted(j) /\ ~Waits(j) /\ ~Runs(j)
  BY <1>1, <1>2, <1>3, <1>6 DEF Place
<1> QED BY <1>4, <1>5, <1>6

(* in the next state too. *)
LEMMA OutcomesFoundNext == LeaseHeld' => Outcomes'
  BY OutcomesFound, PTL

(* A step of the queue leaves the status and the outcome of a job alone,    *)
(* goes on with it, or decides it, and the status says which.               *)
StatusLaw(j) ==
  \/ /\ status'[j] = status[j] /\ (j \in results' <=> j \in results)
     /\ Outcome(j)' = Outcome(j)
     /\ stage'[j] # "new" => stage[j] # "new"
  \/ /\ status'[j] \in {"queued", "processing"} /\ (j \in results' <=> j \in results)
     /\ Outcome(j) = "open" /\ Outcome(j)' = "open"
  \/ /\ status'[j] = "completed" /\ j \in results'
     /\ Outcome(j) = "open" /\ Outcome(j)' = "completed"
  \/ /\ status'[j] = "failed" /\ (j \in results' <=> j \in results)
     /\ Outcome(j) = "open" /\ Outcome(j)' = "failed"

(* Jobs whose copies and dead letters stay keep their outcome. *)
LEMMA SameOutcome ==
  ASSUME Outcomes, Outcomes', NEW j \in Jobs,
         Waits(j)' \/ Runs(j)' <=> Waits(j) \/ Runs(j),
         Submitted(j)' <=> Submitted(j),
         Buried(j)' <=> Buried(j)
  PROVE  Outcome(j)' = Outcome(j)
<1> HIDE DEF Waits, Runs, Submitted, Buried, Outcome, Phase
<1> QED BY DEF Outcomes

(* What leaves the processing list, *)
LEMMA LeavesLaw ==
  ASSUME LeaseHeld, LeaseHeld', NEW p, Leaves(p), UNCHANGED stage, NEW j \in Jobs
  PROVE  StatusLaw(j)
<1>1. Outcomes /\ Outcomes' /\ Place(j) /\ Place(j)'
  BY OutcomesFound, OutcomesFoundNext, PlacesFound, PlacesFoundNext DEF Places
<1>2. p.job \in Jobs /\ status \in [Jobs -> Statuses]
  BY DEF Leaves, Payload, LeaseHeld, TypeOK, StoreTypeOK
<1>3. CASE j # p.job
  <2>1. Outcome(j)' = Outcome(j)
    BY <1>1, <1>3, LeavesFate, SameOutcome
  <2>2. status'[j] = status[j] /\ (j \in results' <=> j \in results)
    BY <1>2, <1>3 DEF Leaves, SetStatus
  <2> QED BY <2>1, <2>2 DEF StatusLaw
<1>4. CASE j = p.job
  <2>1. Runs(j) /\ ~Runs(j)' /\ (Submitted(j)' <=> Submitted(j))
    BY <1>4 DEF Leaves, Runs, Submitted
  <2>2. \/ /\ status'[j] = "completed" /\ j \in results'
           /\ (Waits(j)' <=> Waits(j)) /\ (Buried(j)' <=> Buried(j))
        \/ /\ status'[j] = "queued" /\ Waits(j)' /\ (j \in results' <=> j \in results)
        \/ /\ status'[j] = "failed" /\ Buried(j)' /\ (j \in results' <=> j \in results)
    <3>1. CASE /\ UNCHANGED <<tasks, deadLetter>>
               /\ results' = results \cup {p.job} /\ SetStatus(p.job, "completed")
      BY <1>2, <1>4, <3>1 DEF SetStatus, Waits, Buried
    <3>2. CASE /\ UNCHANGED <<deadLetter, results>> /\ SetStatus(p.job, "queued")
               /\ \E q : q.job = p.job /\ Range(tasks') = Range(tasks) \cup {q}
      BY <1>2, <1>4, <3>2 DEF SetStatus, Waits
    <3>3. CASE /\ UNCHANGED <<tasks, results>> /\ SetStatus(p.job, "failed")
               /\ \E d : d.payload.job = p.job /\ Letters' = Letters \cup {d}
      <4>1. Buried(j)'
        BY <1>4, <3>3, HeldBuriedNext
      <4> QED BY <1>2, <1>4, <3>3, <4>1 DEF SetStatus
    <3> QED BY <3>1, <3>2, <3>3 DEF Leaves
  <2> HIDE DEF Waits, Runs, Submitted, Buried, Outcome, Phase
  <2> QED BY <1>1, <2>1, <2>2 DEF Outcomes, Place, StatusLaw
<1> QED BY <1>3, <1>4

(* and every other step of a worker, *)
LEMMA WorkerLaw ==
  ASSUME RedisErrors = FALSE, LeaseHeld, LeaseHeld', WorkerNext, UNCHANGED stage,
         NEW j \in Jobs
  PROVE  StatusLaw(j)
<1>1. Outcomes /\ Outcomes'
  BY OutcomesFound, OutcomesFoundNext
<1>2. TypeOK /\ status \in [Jobs -> Statuses]
  BY DEF LeaseHeld, TypeOK, StoreTypeOK
<1>3. PICK w \in Workers : Dequeue(w) \/ GoesOn(w) \/ Returns(w)
  BY WorkerReturns
<1>4. ASSUME Copies' = Copies, UNCHANGED deadLetter PROVE Outcome(j)' = Outcome(j)
  <2>1. Waits(j)' \/ Runs(j)' <=> Waits(j) \/ Runs(j)
    BY <1>4 DEF Waits, Runs, Copies
  <2>2. (Buried(j)' <=> Buried(j)) /\ (Submitted(j)' <=> Submitted(j))
    BY <1>4 DEF Buried, Submitted
  <2> QED BY <1>1, <2>1, <2>2, SameOutcome
<1>5. CASE Dequeue(w)
  <2>1. Copies' = Copies
    BY <1>2, <1>5, DequeueCopies
  <2>2. UNCHANGED <<status, results, deadLetter>>
    BY <1>5 DEF Dequeue
  <2> QED BY <1>4, <2>1, <2>2 DEF StatusLaw
<1>6. CASE GoesOn(w)
  <2>1. Outcome(j)' = Outcome(j) /\ UNCHANGED results
    BY <1>4, <1>6 DEF GoesOn, Copies
  <2>2. CASE status'[j] = status[j]
    BY <2>1, <2>2 DEF StatusLaw
  <2>3. CASE status'[j] # status[j]
    <3>1. Executing(w) /\ SetStatus(task[w].job, "processing")
      BY <1>6, <2>3 DEF GoesOn
    <3>2. j = task[w].job /\ status'[j] = "processing"
      BY <1>2, <2>3, <3>1 DEF SetStatus
    <3>3. Runs(j)
      BY <3>1, <3>2 DEF LeaseHeld, ExecutingHeld, Runs
    <3>4. Outcome(j) = "open"
      BY <1>1, <3>3 DEF Outcomes
    <3> QED BY <2>1, <3>2, <3>4 DEF StatusLaw
  <2> QED BY <2>2, <2>3
<1>7. CASE Returns(w)
  <2>1. PICK p : p = task[w]
    OBVIOUS
  <2> QED BY <1>7, <2>1, LeavesLaw DEF Returns
<1> QED BY <1>3, <1>5, <1>6, <1>7

(* every step of the reaper *)
LEMMA ReaperLaw ==
  ASSUME LeaseHeld, LeaseHeld', ReaperNext, UNCHANGED <<stage, worker>>, NEW j \in Jobs
  PROVE  StatusLaw(j)
<1>1. CASE UNCHANGED <<tasks, processing, deadLetter, status, results>>
  <2>1. Outcomes /\ Outcomes'
    BY OutcomesFound, OutcomesFoundNext
  <2>2. /\ Waits(j)' \/ Runs(j)' <=> Waits(j) \/ Runs(j)
        /\ Submitted(j)' <=> Submitted(j)
        /\ Buried(j)' <=> Buried(j)
    BY <1>1 DEF Waits, Runs, Submitted, Buried
  <2>3. Outcome(j)' = Outcome(j)
    BY <2>1, <2>2, SameOutcome
  <2> QED BY <1>1, <2>3 DEF StatusLaw
<1>2. CASE \E p : Leaves(p)
  BY <1>2, LeavesLaw
<1> QED BY <1>1, <1>2, ReaperExpires

(* and every step of the API process obeys this law. *)
LEMMA ProducerLaw ==
  ASSUME LeaseHeld, LeaseHeld', ProducerNext, UNCHANGED <<worker, reaper>>, NEW j \in Jobs
  PROVE  StatusLaw(j)
<1>1. Outcomes /\ Outcomes'
  BY OutcomesFound, OutcomesFoundNext
<1>2. PICK i \in Jobs : Enqueue(i) \/ EnqueueFails(i)
  BY DEF ProducerNext
<1>3. /\ stage \in [Jobs -> Stages] /\ status \in [Jobs -> Statuses]
      /\ tasks \in Seq(Payload)
  BY DEF LeaseHeld, TypeOK, ProducerTypeOK, StoreTypeOK
<1>4. Buried(j)' <=> Buried(j)
  BY <1>2 DEF Enqueue, SaveQueuedStatus, PushNewTask, CountSubmitted, EnqueueFails, store, Buried
<1>5. CASE SaveQueuedStatus(i)
  <2>1. /\ Waits(j)' \/ Runs(j)' <=> Waits(j) \/ Runs(j)
        /\ Submitted(j)' <=> Submitted(j)
    BY <1>3, <1>5 DEF SaveQueuedStatus, EnqueueGoto, Waits, Runs, Submitted
  <2>2. Outcome(j)' = Outcome(j) /\ UNCHANGED results
    BY <1>1, <1>4, <1>5, <2>1, SameOutcome DEF SaveQueuedStatus
  <2>3. CASE j = i
    <3>1. ~Submitted(j) /\ status'[j] = "queued"
      BY <1>3, <1>5, <2>3 DEF SaveQueuedStatus, EnqueueGoto, SetStatus, Submitted
    <3>2. Outcome(j) = "open"
      BY <1>1, <3>1 DEF Outcomes
    <3> QED BY <2>2, <3>1, <3>2 DEF StatusLaw
  <2>4. CASE j # i
    <3>1. status'[j] = status[j] /\ stage'[j] = stage[j]
      BY <1>3, <1>5, <2>4 DEF SaveQueuedStatus, EnqueueGoto, SetStatus
    <3> QED BY <2>2, <3>1 DEF StatusLaw
  <2> QED BY <2>3, <2>4
<1>6. CASE PushNewTask(i)
  <2>1. /\ UNCHANGED <<status, results>> /\ (stage'[j] # "new" => stage[j] # "new")
        /\ j # i => (Submitted(j)' <=> Submitted(j))
        /\ ~Submitted(i)
    BY <1>3, <1>6 DEF PushNewTask, EnqueueGoto, Submitted
  <2>2. Range(tasks') = Range(tasks) \cup {NewPayload(i)}
    BY <1>3, <1>6, AppendRange, NewPayloadType DEF PushNewTask, PushTask, LeaseHeld, TypeOK,
                                                   StoreTypeOK
  <2>3. NewPayload(i).job = i
    BY DEF NewPayload
  <2>4. CASE j = i
    <3>1. Waits(j)' /\ ~Submitted(j)
      BY <2>1, <2>2, <2>3, <2>4 DEF Waits
    <3>2. Outcome(j) = "open" /\ Outcome(j)' = "open"
      BY <1>1, <3>1 DEF Outcomes
    <3> QED BY <2>1, <3>2 DEF StatusLaw
  <2>5. CASE j # i
    <3>1. Waits(j)' \/ Runs(j)' <=> Waits(j) \/ Runs(j)
      BY <1>6, <2>2, <2>3, <2>5 DEF Waits, Runs, PushNewTask
    <3>2. Outcome(j)' = Outcome(j)
      BY <1>1, <1>4, <2>1, <2>5, <3>1, SameOutcome
    <3> QED BY <2>1, <3>2 DEF StatusLaw
  <2> QED BY <2>4, <2>5
<1>7. CASE CountSubmitted(i) \/ EnqueueFails(i)
  <2>1. /\ Waits(j)' \/ Runs(j)' <=> Waits(j) \/ Runs(j)
        /\ Submitted(j)' <=> Submitted(j)
        /\ UNCHANGED <<status, results>> /\ (stage'[j] # "new" => stage[j] # "new")
    BY <1>3, <1>7 DEF CountSubmitted, EnqueueFails, EnqueueGoto, store, Waits, Runs, Submitted
  <2>2. Outcome(j)' = Outcome(j)
    BY <1>1, <1>4, <2>1, SameOutcome
  <2> QED BY <2>1, <2>2 DEF StatusLaw
<1> QED BY <1>2, <1>5, <1>6, <1>7 DEF Enqueue

(* So does every step of the queue. *)
LEMMA QueueLaw ==
  ASSUME RedisErrors = FALSE
  PROVE  LeaseHeld /\ LeaseHeld' /\ Next => \A j \in Jobs : StatusLaw(j)
<1> SUFFICES ASSUME LeaseHeld, LeaseHeld', Next, NEW j \in Jobs PROVE StatusLaw(j)
  OBVIOUS
<1>1. CASE ProducerNext /\ UNCHANGED <<worker, reaper>>
  BY <1>1, ProducerLaw
<1>2. CASE WorkerNext /\ UNCHANGED <<stage, reaper>>
  BY <1>2, WorkerLaw
<1>3. CASE ReaperNext /\ UNCHANGED <<stage, worker>>
  BY <1>3, ReaperLaw
<1> QED BY <1>1, <1>2, <1>3 DEF Next

(* The status of a job says no more than its outcome, and is lost before   *)
(* that only if a key lapsed.                                               *)
StatusTrue(j) ==
  /\ status[j] = "completed" <=> j \in results
  /\ status[j] = "completed" => Outcome(j) = "completed"
  /\ status[j] = "failed" => Outcome(j) = "failed"
  /\ Outcome(j) # "open" => status[j] \in {Outcome(j), "none"}
  /\ status[j] = "none" /\ stage[j] # "new" => Outcome(j) # "open" \/ j \in lapsed

(* What a client read and what it was told is true, and what it reads next *)
(* cannot take it back.                                                     *)
ClientTrue(j) ==
  /\ request[j].saw \in {"completed", "failed"} => Outcome(j) = request[j].saw
  /\ request[j].next = "result" => request[j].saw = "completed"
  /\ request[j] = NoRequest \/ request[j].saw # "none"
  /\ answer[j] \in {"completed", "failed"} =>
       /\ Outcome(j) = answer[j]
       /\ request[j] = NoRequest \/ request[j].saw = answer[j]
  /\ answer[j] \in {"empty", "unknown"} /\ j \notin lapsed =>
       /\ Outcome(j) # "open" /\ status[j] = "none"
       /\ request[j] = NoRequest

AnswersTyped == answer \in [Jobs -> Answers] /\ lapsed \subseteq Jobs

(* The inductive invariant of the answers under expiry. *)
ApiHeld ==
  /\ LeaseHeld
  /\ RequestType /\ AnswersTyped
  /\ \A j \in Jobs : StatusTrue(j) /\ ClientTrue(j)

(* The queue keeps it: what it decides was open, and nobody was told. *)
LEMMA QueueKeepsTrue ==
  ASSUME Preempt = FALSE, RedisErrors = FALSE
  PROVE  ApiHeld /\ [Next]_vars /\ UNCHANGED client => ApiHeld'
<1> SUFFICES ASSUME ApiHeld, [Next]_vars, UNCHANGED client PROVE ApiHeld'
  OBVIOUS
<1>1. LeaseHeld'
  BY LeaseHeldStep DEF ApiHeld
<1>2. UNCHANGED <<request, answer, lapsed>>
  BY DEF client
<1>3. RequestType' /\ AnswersTyped'
  BY <1>2 DEF ApiHeld, RequestType, AnswersTyped
<1>4. \A j \in Jobs : Outcome(j) \in {"open", "completed", "failed"}
  BY OutcomesFound DEF ApiHeld, Outcomes
<1>5. ASSUME NEW j \in Jobs, StatusLaw(j) PROVE StatusTrue(j)' /\ ClientTrue(j)'
  <2>1. StatusTrue(j) /\ ClientTrue(j)
    BY DEF ApiHeld
  <2> HIDE DEF Outcome, NoRequest
  <2>2. StatusTrue(j)'
    BY <1>2, <1>4, <1>5, <2>1 DEF StatusTrue, StatusLaw
  <2>3. ClientTrue(j)'
    BY <1>2, <1>4, <1>5, <2>1 DEF StatusTrue, ClientTrue, StatusLaw, NoRequest
  <2> QED BY <2>2, <2>3
<1>6. ASSUME NEW j \in Jobs, UNCHANGED vars PROVE StatusLaw(j)
  BY <1>6 DEF vars, store, StatusLaw, Outcome, Submitted, Held, PendingOf, InProcessing, Buried
<1>7. ASSUME Next PROVE \A j \in Jobs : StatusLaw(j)
  BY <1>1, <1>7, QueueLaw DEF ApiHeld
<1> QED BY <1>1, <1>3, <1>5, <1>6, <1>7 DEF ApiHeld

(* A step of a client changes its request and its answer only, *)
LEMMA ClientFrame ==
  ASSUME ApiHeld, ClientNext, UNCHANGED vars
  PROVE  /\ LeaseHeld' /\ UNCHANGED <<lapsed, status, results, stage>>
         /\ \A j \in Jobs : StatusTrue(j)' /\ Outcome(j)' = Outcome(j)
<1>1. UNCHANGED <<tasks, processing, claims, deadLetter, clock, stage, worker, reaper,
                  status, results>>
  BY DEF vars, store
<1>2. TypeOK'
  BY StutterTypes DEF ApiHeld, LeaseHeld
<1>3. LeaseHeld'
  BY <1>1, <1>2, LeaseHeldFrame DEF ApiHeld
<1>4. UNCHANGED lapsed
  BY DEF ClientNext, FirstRead, SecondRead, RequestFails, NotFound, ReadStatus, AnswerFailed,
         ReadForResult, AnswerStatus, AnswerResult, Answer, Send
<1>5. \A j \in Jobs : Outcome(j)' = Outcome(j)
  BY <1>1 DEF Outcome, Submitted, Held, PendingOf, InProcessing, Buried
<1>6. \A j \in Jobs : StatusTrue(j)'
  <2> HIDE DEF Outcome
  <2> QED BY <1>1, <1>4, <1>5 DEF ApiHeld, StatusTrue
<1> QED BY <1>1, <1>3, <1>4, <1>5, <1>6

(* and what it reads and is told is true. *)
LEMMA ClientKeepsTrue ==
  ASSUME RedisErrors = FALSE
  PROVE  ApiHeld /\ ClientNext /\ UNCHANGED vars => ApiHeld'
<1> SUFFICES ASSUME ApiHeld, ClientNext, UNCHANGED vars PROVE ApiHeld'
  OBVIOUS
<1>1. /\ LeaseHeld' /\ UNCHANGED <<lapsed, status, results, stage>>
      /\ \A j \in Jobs : StatusTrue(j)' /\ Outcome(j)' = Outcome(j)
  BY ClientFrame
<1>2. PICK i \in Polled : FirstRead(i) \/ SecondRead(i)
  BY DEF ClientNext, RequestFails
<1>3. i \in Jobs /\ StatusTrue(i) /\ ClientTrue(i)
  BY PolledAreJobs DEF ApiHeld
<1>4. /\ request \in [Jobs -> [next : Steps, saw : Statuses]]
      /\ answer \in [Jobs -> Answers] /\ lapsed \subseteq Jobs
      /\ status \in [Jobs -> Statuses]
  BY DEF ApiHeld, RequestType, AnswersTyped, LeaseHeld, TypeOK, StoreTypeOK
<1>5. NoRequest \in [next : Steps, saw : Statuses]
  BY DEF NoRequest, Steps, Statuses
<1>6. Outcome(i) \in {"open", "completed", "failed"}
  BY <1>3, OutcomesFound DEF ApiHeld, Outcomes
<1> HIDE DEF Outcome
<1>7. ASSUME NEW r \in [next : Steps, saw : Statuses], NEW a \in Answers,
             request' = [request EXCEPT ![i] = r], answer' = [answer EXCEPT ![i] = a],
             ClientTrue(i)'
      PROVE  ApiHeld'
  <2>1. RequestType' /\ AnswersTyped'
    BY <1>1, <1>3, <1>4, <1>7 DEF RequestType, AnswersTyped
  <2>2. ASSUME NEW j \in Jobs \ {i} PROVE ClientTrue(j)'
    <3>1. request'[j] = request[j] /\ answer'[j] = answer[j] /\ ClientTrue(j)
      BY <1>4, <1>7 DEF ApiHeld
    <3> QED BY <1>1, <3>1 DEF ClientTrue, NoRequest
  <2> QED BY <1>1, <1>7, <2>1, <2>2 DEF ApiHeld
<1>8. ASSUME NEW n \in {"size", "result"}, Send(i, n), status[i] # "none",
             request[i] = NoRequest, n = "result" => status[i] = "completed"
      PROVE  ApiHeld'
  <2>1. PICK r : r = [next |-> n, saw |-> status[i]]
    OBVIOUS
  <2>2. r \in [next : Steps, saw : Statuses] /\ r.next = n /\ r.saw = status[i]
    BY <1>3, <1>4, <1>8, <2>1 DEF Steps
  <2>3. /\ request' = [request EXCEPT ![i] = r] /\ answer' = [answer EXCEPT ![i] = answer[i]]
        /\ request'[i] = r /\ answer'[i] = answer[i] /\ answer[i] \in Answers
    BY <1>3, <1>4, <1>8, <2>1 DEF Send
  <2>4. /\ request'[i].next = n /\ request'[i].saw = status[i]
        /\ request'[i] # NoRequest
    BY <1>8, <2>2, <2>3 DEF NoRequest
  <2>5. ClientTrue(i)'
    BY <1>1, <1>3, <1>6, <1>8, <2>3, <2>4 DEF ClientTrue, StatusTrue
  <2> QED BY <1>7, <2>2, <2>3, <2>5
<1>9. ASSUME NEW a \in Answers, Answer(i, a),
             a \in {"completed", "failed"} => Outcome(i) = a,
             a \in {"empty", "unknown"} /\ i \notin lapsed
               => Outcome(i) # "open" /\ status[i] = "none"
      PROVE  ApiHeld'
  <2>1. /\ request' = [request EXCEPT ![i] = NoRequest] /\ answer' = [answer EXCEPT ![i] = a]
        /\ request'[i] = NoRequest /\ answer'[i] = a
    BY <1>3, <1>4, <1>9 DEF Answer
  <2>2. request'[i].next = "none" /\ request'[i].saw = "none"
    BY <2>1 DEF NoRequest
  <2>3. ClientTrue(i)'
    BY <1>1, <1>3, <1>9, <2>1, <2>2 DEF ClientTrue, NoRequest
  <2> QED BY <1>5, <1>7, <2>1, <2>3
<1>10. CASE NotFound(i)
  BY <1>3, <1>9, <1>10 DEF NotFound, Ask, StatusTrue, Answers
<1>11. CASE ReadStatus(i) \/ ReadForResult(i)
  BY <1>8, <1>11 DEF ReadStatus, ReadForResult, Ask
<1>12. CASE AnswerFailed(i)
  BY <1>3, <1>9, <1>12 DEF AnswerFailed, Ask, StatusTrue, Answers, Statuses
<1>13. CASE AnswerStatus(i)
  <2>1. PICK a : a = request[i].saw
    OBVIOUS
  <2>2. a \in Statuses /\ Answer(i, a)
    BY <1>3, <1>4, <1>13, <2>1 DEF AnswerStatus
  <2> QED BY <1>3, <1>9, <2>1, <2>2 DEF ClientTrue, Answers, Statuses
<1>14. CASE AnswerResult(i)
  <2>1. Outcome(i) = "completed"
    BY <1>3, <1>14 DEF AnswerResult, ClientTrue
  <2>2. CASE i \in results
    BY <1>9, <1>14, <2>1, <2>2 DEF AnswerResult, Answers, Statuses
  <2>3. CASE i \notin results
    <3>1. status[i] = "none"
      BY <1>3, <2>1, <2>3 DEF StatusTrue
    <3> QED BY <1>9, <1>14, <2>1, <2>3, <3>1 DEF AnswerResult, Answers
  <2> QED BY <2>2, <2>3
<1> QED BY <1>2, <1>10, <1>11, <1>12, <1>13, <1>14 DEF FirstRead, SecondRead

(* Redis forgets a key: the outcome of the job is what it was. *)
LEMMA ExpireKeepsTrue ==
  ASSUME ApiHeld, NEW i \in Polled, Expire(i),
         UNCHANGED <<stage, worker, reaper, request, answer>>
  PROVE  /\ ApiHeld' /\ UNCHANGED answer
         /\ \A j \in Jobs : Outcome(j)' = Outcome(j)
         /\ lapsed' = IF Outcome(i) = "open" THEN lapsed \cup {i} ELSE lapsed
         /\ \A j \in Jobs : status'[j] \in {status[j], "none"}
<1>1. /\ i \in Jobs /\ status \in [Jobs -> Statuses]
      /\ \A j \in Jobs : StatusTrue(j) /\ ClientTrue(j)
      /\ TypeOK /\ LeaseHeld /\ Outcomes
  BY PolledAreJobs, OutcomesFound DEF ApiHeld, LeaseHeld, TypeOK, StoreTypeOK
<1>2. /\ status' = [status EXCEPT ![i] = "none"]
      /\ results' = results \ {i}
  BY <1>1 DEF Expire, ExpireBoth, ExpireResult, ExpireStatus, SetStatus, StatusTrue
<1>3. UNCHANGED <<tasks, processing, claims, deadLetter, stats, clock>>
  BY DEF Expire
<1>4. TypeOK'
  <2>1. status' \in [Jobs -> Statuses] /\ results' \subseteq Jobs
    BY <1>1, <1>2 DEF Statuses, TypeOK, StoreTypeOK
  <2> QED BY <1>1, <1>3, <2>1 DEF TypeOK, StoreTypeOK, ProducerTypeOK, WorkerTypeOK, ReaperTypeOK,
                                  worker, reaper
<1>5. LeaseHeld'
  BY <1>1, <1>3, <1>4, LeaseHeldFrame
<1>6. \A j \in Jobs : Outcome(j)' = Outcome(j)
  BY <1>3 DEF Outcome, Submitted, Held, PendingOf, InProcessing, Buried
<1>7. lapsed' = IF Outcome(i) = "open" THEN lapsed \cup {i} ELSE lapsed
  BY DEF Expire
<1>8. \A j \in Jobs : Outcome(j) \in {"open", "completed", "failed"}
  BY <1>1 DEF Outcomes
<1> HIDE DEF Outcome
<1>9. RequestType' /\ AnswersTyped'
  BY <1>1, <1>7 DEF ApiHeld, RequestType, AnswersTyped
<1>10. ASSUME NEW j \in Jobs PROVE StatusTrue(j)' /\ ClientTrue(j)'
  <2>1. status'[j] = (IF j = i THEN "none" ELSE status[j]) /\ (j \in results' <=> j \in results /\ j # i)
    BY <1>1, <1>2
  <2>2. Outcome(j)' = Outcome(j) /\ (j \in lapsed => j \in lapsed')
    BY <1>6, <1>7
  <2>3. StatusTrue(j)'
    BY <1>1, <1>7, <1>8, <2>1, <2>2 DEF StatusTrue
  <2>4. ClientTrue(j)'
    BY <1>1, <2>1, <2>2 DEF ClientTrue, NoRequest
  <2> QED BY <2>3, <2>4
<1>11. \A j \in Jobs : status'[j] \in {status[j], "none"}
  BY <1>1, <1>2
<1> QED BY <1>5, <1>6, <1>7, <1>9, <1>10, <1>11 DEF ApiHeld

(* So every step keeps it. *)
LEMMA ApiHeldStep ==
  ASSUME Preempt = FALSE, RedisErrors = FALSE
  PROVE  ApiHeld /\ [ApiNext]_apiVars => ApiHeld'
<1> SUFFICES ASSUME ApiHeld, [ApiNext]_apiVars PROVE ApiHeld'
  OBVIOUS
<1>1. ApiHeld /\ [Next]_vars /\ UNCHANGED client => ApiHeld'
  BY QueueKeepsTrue, Zenon
<1>2. ApiHeld /\ ClientNext /\ UNCHANGED vars => ApiHeld'
  BY ClientKeepsTrue, Zenon
<1>3. UNCHANGED apiVars => UNCHANGED vars /\ UNCHANGED client
  BY DEF apiVars, vars
<1>4. CASE (\E j \in Polled : Expire(j)) /\ UNCHANGED <<stage, worker, reaper, request, answer>>
  BY <1>4, ExpireKeepsTrue
<1> QED BY <1>1, <1>2, <1>3, <1>4 DEF ApiNext

(* At first nothing is decided and nobody has asked. *)
LEMMA ApiHeldInit == ApiInit => ApiHeld /\ Promised!Init
<1> SUFFICES ASSUME ApiInit PROVE ApiHeld /\ Promised!Init
  OBVIOUS
<1>1. LeaseHeld
  BY LeaseHeldInit DEF ApiInit
<1>2. \A j \in Jobs : ~Submitted(j) /\ status[j] = "none" /\ stage[j] = "new" /\ j \notin results
  BY DEF ApiInit, Init, ProducerInit, StoreInit, Submitted
<1>3. \A j \in Jobs : Outcome(j) = "open"
  BY <1>2 DEF Outcome
<1>4. \A j \in Jobs : answer[j] = "none" /\ request[j] = NoRequest
  BY DEF ApiInit
<1>5. RequestType /\ AnswersTyped
  BY DEF ApiInit, NoRequest, RequestType, AnswersTyped, Steps, Statuses, Answers
<1>6. \A j \in Jobs : StatusTrue(j) /\ ClientTrue(j)
  <2> HIDE DEF Outcome
  <2> QED BY <1>2, <1>3, <1>4 DEF StatusTrue, ClientTrue, NoRequest
<1>7. Promised!Init
  <2>1. [j \in Jobs |-> Outcome(j)] = [j \in Jobs |-> "open"]
    BY <1>3
  <2>2. \A j \in Jobs : Told(j) = "nothing"
    BY <1>4 DEF Told
  <2>3. [j \in Jobs |-> Told(j)] = [j \in Jobs |-> "nothing"]
    BY <2>2
  <2> QED BY <2>1, <2>3 DEF Promised!Init, ApiInit
<1> QED BY <1>1, <1>5, <1>6, <1>7 DEF ApiHeld

(* A step of JobLease moves one job. *)
LEMMA OnePhaseMoves ==
  ASSUME [Lease!Next]_(Lease!vars)
  PROVE  \E j : \A i \in Jobs : i # j => Phase(i)' = Phase(i)
<1> HIDE DEF Phase
<1>1. CASE UNCHANGED Lease!vars
  <2>1. [i \in Jobs |-> Phase(i)]' = [i \in Jobs |-> Phase(i)]
    BY <1>1 DEF Lease!vars
  <2>2. \A i \in Jobs : Phase(i)' = Phase(i)
    BY <2>1
  <2> QED BY <2>2
<1>2. CASE Lease!Next
  <2>1. \E j \in Jobs : \E from, to, w : Lease!Move(j, from, to, w)
    BY <1>2 DEF Lease!Next, Lease!Submit, Lease!Grant, Lease!Return, Lease!Abandon, Lease!Expire
  <2>2. PICK j, to :
          [i \in Jobs |-> Phase(i)]' = [[i \in Jobs |-> Phase(i)] EXCEPT ![j] = to]
    BY <2>1 DEF Lease!Move
  <2>3. \A i \in Jobs : i # j => Phase(i)' = Phase(i)
    BY <2>2
  <2> QED BY <2>3
<1> QED BY <1>1, <1>2

(* A step of the queue decides one job, or none. *)
LEMMA QueueDecides ==
  ASSUME RedisErrors = FALSE
  PROVE  ApiHeld /\ ApiHeld' /\ Next /\ UNCHANGED client
           => Promised!Next \/ UNCHANGED Promised!vars
<1> SUFFICES ASSUME ApiHeld, ApiHeld', Next, UNCHANGED client
             PROVE  Promised!Next \/ UNCHANGED Promised!vars
  OBVIOUS
<1>1. LeaseHeld /\ LeaseHeld' /\ Outcomes /\ Outcomes'
  BY OutcomesFound, OutcomesFoundNext DEF ApiHeld
<1>2. LeaseHeld /\ LeaseHeld' /\ [Next]_vars => [Lease!Next]_(Lease!vars)
  BY LeaseRefined, Zenon
<1>3. LeaseHeld /\ LeaseHeld' /\ Next => \A j \in Jobs : StatusLaw(j)
  BY QueueLaw, Zenon
<1>4. PICK j : \A i \in Jobs : i # j => Phase(i)' = Phase(i)
  BY <1>1, <1>2, OnePhaseMoves
<1>5. \A i \in Jobs : StatusLaw(i)
  BY <1>1, <1>3
<1>6. UNCHANGED lapsed /\ \A i \in Jobs : Told(i)' = Told(i)
  BY DEF client, Told
<1> HIDE DEF Phase, Outcome, Told
<1>7. \A i \in Jobs : i # j => Outcome(i)' = Outcome(i)
  <2> SUFFICES ASSUME NEW i \in Jobs, i # j PROVE Outcome(i)' = Outcome(i)
    OBVIOUS
  <2>1. /\ Outcome(i) \in {"open", "completed", "failed"}
        /\ Outcome(i)' \in {"open", "completed", "failed"}
        /\ Outcome(i) = "completed" <=> Phase(i) = "stored"
        /\ Outcome(i) = "failed" <=> Phase(i) = "buried"
        /\ Outcome(i)' = "completed" <=> Phase(i)' = "stored"
        /\ Outcome(i)' = "failed" <=> Phase(i)' = "buried"
    BY <1>1 DEF Outcomes
  <2> QED BY <1>4, <2>1
<1>8. [i \in Jobs |-> Told(i)]' = [i \in Jobs |-> Told(i)]
  BY <1>6
<1>9. CASE \A i \in Jobs : Outcome(i)' = Outcome(i)
  <2>1. [i \in Jobs |-> Outcome(i)]' = [i \in Jobs |-> Outcome(i)]
    BY <1>9
  <2> QED BY <1>6, <1>8, <2>1 DEF Promised!vars
<1>10. CASE j \in Jobs /\ Outcome(j)' # Outcome(j)
  <2>1. Outcome(j) = "open" /\ Outcome(j)' \in {"completed", "failed"}
    BY <1>5, <1>10 DEF StatusLaw
  <2>2. /\ [i \in Jobs |-> Outcome(i)][j] = "open"
        /\ [i \in Jobs |-> Outcome(i)]'
              = [[i \in Jobs |-> Outcome(i)] EXCEPT ![j] = Outcome(j)']
    BY <1>7, <1>10, <2>1
  <2>3. Promised!Decide(j)
    BY <1>6, <1>8, <2>1, <2>2 DEF Promised!Decide, Promised!Decisions
  <2> QED BY <1>10, <2>3 DEF Promised!Next
<1> QED BY <1>7, <1>9, <1>10

(* A key that expires is a lapse, or nothing to the client. *)
LEMMA ExpireLapses ==
  ASSUME ApiHeld, NEW i \in Polled, Expire(i),
         UNCHANGED <<stage, worker, reaper, request, answer>>
  PROVE  Promised!Next \/ UNCHANGED Promised!vars
<1>1. /\ i \in Jobs
      /\ \A j \in Jobs : Outcome(j)' = Outcome(j) /\ Told(j)' = Told(j)
      /\ lapsed' = IF Outcome(i) = "open" THEN lapsed \cup {i} ELSE lapsed
  BY PolledAreJobs, ExpireKeepsTrue DEF Told
<1> HIDE DEF Outcome, Told
<1>2. /\ [j \in Jobs |-> Outcome(j)]' = [j \in Jobs |-> Outcome(j)]
      /\ [j \in Jobs |-> Told(j)]' = [j \in Jobs |-> Told(j)]
  BY <1>1
<1>3. CASE Outcome(i) = "open"
  <2>1. [j \in Jobs |-> Outcome(j)][i] = "open"
    BY <1>1, <1>3
  <2>2. Promised!Lapse(i)
    BY <1>1, <1>2, <1>3, <2>1 DEF Promised!Lapse
  <2> QED BY <1>1, <2>2 DEF Promised!Next
<1>4. CASE Outcome(i) # "open"
  BY <1>1, <1>2, <1>4 DEF Promised!vars
<1> QED BY <1>3, <1>4

(* What the answers mean to the client. *)
LEMMA ToldAnswers ==
  ASSUME NEW j \in Jobs, answer[j] \in Answers
  PROVE  /\ answer[j] = "none" => Told(j) = "nothing"
         /\ answer[j] \in {"queued", "processing"} => Told(j) = "open"
         /\ answer[j] \in {"completed", "failed"} => Told(j) = answer[j]
         /\ answer[j] \in {"empty", "unknown"} => Told(j) = "gone"
  BY DEF Told, Answers, Statuses

(* in the next state too. *)
LEMMA ToldAnswersNext ==
  ASSUME NEW j \in Jobs, answer'[j] \in Answers
  PROVE  /\ answer'[j] = "none" => Told(j)' = "nothing"
         /\ answer'[j] \in {"queued", "processing"} => Told(j)' = "open"
         /\ answer'[j] \in {"completed", "failed"} => Told(j)' = answer'[j]
         /\ answer'[j] \in {"empty", "unknown"} => Told(j)' = "gone"
  BY DEF Told, Answers, Statuses

(* An answer is one of those that PolledJob allows. *)
LEMMA AnswerTells ==
  ASSUME ApiHeld, ApiHeld', ClientNext, UNCHANGED vars, NEW i \in Jobs, NEW a \in Answers,
         Answer(i, a), a # "none",
         a \in {"queued", "processing"} => request[i] # NoRequest /\ request[i].saw = a,
         a = "failed" => request[i].saw = a \/ status[i] = a,
         a = "completed" => request[i] # NoRequest /\ request[i].saw = a,
         a \in {"empty", "unknown"} => Outcome(i) # "open" \/ i \in lapsed
  PROVE  Promised!Next
<1>1. /\ UNCHANGED lapsed /\ \A j \in Jobs : Outcome(j)' = Outcome(j)
      /\ answer \in [Jobs -> Answers] /\ answer' = [answer EXCEPT ![i] = a]
      /\ StatusTrue(i) /\ ClientTrue(i) /\ ClientTrue(i)' /\ Outcome(i) \in {"open", "completed", "failed"}
  BY ClientFrame, OutcomesFound DEF ApiHeld, AnswersTyped, Answer, Outcomes
<1>2. \A j \in Jobs : j # i => Told(j)' = Told(j)
  BY <1>1 DEF Told
<1>3. /\ answer[i] = "none" => Told(i) = "nothing"
      /\ answer[i] \in {"queued", "processing"} => Told(i) = "open"
      /\ answer[i] \in {"completed", "failed"} => Told(i) = answer[i]
      /\ answer[i] \in {"empty", "unknown"} => Told(i) = "gone"
      /\ answer[i] \in Answers
  BY <1>1, ToldAnswers
<1>4. /\ a \in {"queued", "processing"} => Told(i)' = "open"
      /\ a \in {"completed", "failed"} => Told(i)' = a
      /\ a \in {"empty", "unknown"} => Told(i)' = "gone"
      /\ answer'[i] = a
  <2>1. answer'[i] = a
    BY <1>1
  <2> QED BY <2>1, ToldAnswersNext
<1> HIDE DEF Outcome, Told
<1>5. [j \in Jobs |-> Outcome(j)]' = [j \in Jobs |-> Outcome(j)]
  BY <1>1
<1>6. /\ [j \in Jobs |-> Told(j)]' = [[j \in Jobs |-> Told(j)] EXCEPT ![i] = Told(i)']
      /\ [j \in Jobs |-> Told(j)][i] = Told(i)
      /\ [j \in Jobs |-> Outcome(j)][i] = Outcome(i)
  BY <1>2
<1>7. CASE a \in {"queued", "processing"}
  <2>1. \/ Told(i) \in {"nothing", "open"}
        \/ Told(i) = "gone" /\ i \in lapsed
    BY <1>1, <1>3, <1>7 DEF ClientTrue, Answers, Statuses
  <2>2. Promised!TellOpen(i)
    BY <1>1, <1>4, <1>5, <1>6, <1>7, <2>1 DEF Promised!TellOpen, Promised!MayTell
  <2> QED BY <2>2 DEF Promised!Next
<1>8. CASE a \in {"completed", "failed"}
  <2>1. Outcome(i) = a
    BY <1>1, <1>4, <1>8 DEF ClientTrue
  <2>2. \/ Told(i) \in {"nothing", "open", Outcome(i)}
        \/ Told(i) = "gone" /\ i \in lapsed
    BY <1>1, <1>3, <1>8, <2>1 DEF StatusTrue, ClientTrue, Answers, Statuses, NoRequest
  <2>3. Promised!TellDecision(i)
    BY <1>1, <1>4, <1>5, <1>6, <1>8, <2>1, <2>2
    DEF Promised!TellDecision, Promised!MayTell, Promised!Decisions
  <2> QED BY <2>3 DEF Promised!Next
<1>9. CASE a \in {"empty", "unknown"}
  <2>1. Promised!TellGone(i)
    BY <1>1, <1>4, <1>5, <1>6, <1>9 DEF Promised!TellGone, Promised!Decisions
  <2> QED BY <2>1 DEF Promised!Next
<1> QED BY <1>7, <1>8, <1>9 DEF Answers, Statuses

(* So a step of a client is one of PolledJob, or none. *)
LEMMA ClientTells ==
  ASSUME RedisErrors = FALSE
  PROVE  ApiHeld /\ ApiHeld' /\ ClientNext /\ UNCHANGED vars
           => Promised!Next \/ UNCHANGED Promised!vars
<1> SUFFICES ASSUME ApiHeld, ApiHeld', ClientNext, UNCHANGED vars
             PROVE  Promised!Next \/ UNCHANGED Promised!vars
  OBVIOUS
<1>1. PICK i \in Polled : FirstRead(i) \/ SecondRead(i)
  BY DEF ClientNext, RequestFails
<1>2. i \in Jobs /\ StatusTrue(i) /\ ClientTrue(i) /\ request[i].saw \in Statuses
  BY <1>1, PolledAreJobs DEF ApiHeld, RequestType
<1>3. \A j \in Jobs : Outcome(j)' = Outcome(j)
  BY ClientFrame
<1> HIDE DEF Outcome
<1>4. CASE ReadStatus(i) \/ ReadForResult(i)
  <2>1. UNCHANGED <<answer, lapsed>>
    BY <1>4 DEF ReadStatus, ReadForResult, Send
  <2>2. \A j \in Jobs : Told(j)' = Told(j)
    BY <2>1 DEF Told
  <2> HIDE DEF Told
  <2>3. /\ [j \in Jobs |-> Outcome(j)]' = [j \in Jobs |-> Outcome(j)]
        /\ [j \in Jobs |-> Told(j)]' = [j \in Jobs |-> Told(j)]
    BY <1>3, <2>2
  <2> QED BY <2>1, <2>3 DEF Promised!vars
<1>5. CASE NotFound(i)
  BY <1>2, <1>5, AnswerTells DEF NotFound, Ask, StatusTrue, Answers
<1>6. CASE AnswerFailed(i)
  BY <1>2, <1>6, AnswerTells DEF AnswerFailed, Answers, Statuses
<1>7. CASE AnswerStatus(i)
  <2>1. PICK a : a = request[i].saw
    OBVIOUS
  <2>2. a \in Answers /\ Answer(i, a) /\ request[i] # NoRequest /\ a # "none"
    BY <1>2, <1>7, <2>1 DEF AnswerStatus, ClientTrue, NoRequest, Answers
  <2>3. a \notin {"empty", "unknown"}
    BY <1>2, <2>1 DEF Statuses
  <2> QED BY <1>2, <2>1, <2>2, <2>3, AnswerTells
<1>8. CASE AnswerResult(i)
  <2>1. /\ request[i] # NoRequest /\ request[i].saw = "completed"
        /\ Outcome(i) = "completed"
    BY <1>2, <1>8 DEF AnswerResult, ClientTrue, NoRequest
  <2>2. PICK a \in {"completed", "empty"} : Answer(i, a)
    BY <1>8 DEF AnswerResult
  <2> QED BY <1>2, <2>1, <2>2, AnswerTells DEF Answers, Statuses
<1> QED BY <1>1, <1>4, <1>5, <1>6, <1>7, <1>8 DEF FirstRead, SecondRead

(* Every step of queue, clients and expiry is one of PolledJob, or none. *)
LEMMA PromiseRefined ==
  ASSUME RedisErrors = FALSE
  PROVE  ApiHeld /\ ApiHeld' /\ [ApiNext]_apiVars => [Promised!Next]_(Promised!vars)
<1> SUFFICES ASSUME ApiHeld, ApiHeld', [ApiNext]_apiVars
             PROVE  Promised!Next \/ UNCHANGED Promised!vars
  OBVIOUS
<1>1. ApiHeld /\ ApiHeld' /\ Next /\ UNCHANGED client
        => Promised!Next \/ UNCHANGED Promised!vars
  BY QueueDecides, Zenon
<1>2. ApiHeld /\ ApiHeld' /\ ClientNext /\ UNCHANGED vars
        => Promised!Next \/ UNCHANGED Promised!vars
  BY ClientTells, Zenon
<1>3. CASE UNCHANGED apiVars
  BY <1>3 DEF apiVars, store, client, Promised!vars, Outcome, Submitted, Held, PendingOf,
              InProcessing, Buried, Told
<1>4. CASE (\E j \in Polled : Expire(j)) /\ UNCHANGED <<stage, worker, reaper, request, answer>>
  BY <1>4, ExpireLapses
<1> QED BY <1>1, <1>2, <1>3, <1>4 DEF ApiNext

(***************************************************************************)
(* While no claim expires early and no Redis call fails, polling keeps the *)
(* promise of PolledJob for any number of jobs, workers and reapers and    *)
(* whatever keys expire: every answer is true when it is given, a decision *)
(* that was told is never taken back, and a 404 or an empty result before  *)
(* the decision comes only of a key that expired before it.                *)
(***************************************************************************)
THEOREM PolledTruth ==
  ASSUME Preempt = FALSE, RedisErrors = FALSE
  PROVE  ApiSpec => ImplementsPolledJob
<1>1. ApiInit => ApiHeld /\ Promised!Init
  BY ApiHeldInit
<1>2. ApiHeld /\ [ApiNext]_apiVars => ApiHeld'
  BY ApiHeldStep, Zenon
<1>3. ApiHeld /\ ApiHeld' /\ [ApiNext]_apiVars => [Promised!Next]_(Promised!vars)
  BY PromiseRefined, Zenon
<1> QED BY <1>1, <1>2, <1>3, PTL DEF ApiSpec, ImplementsPolledJob, Promised!Spec

(* Reads and expiry are no steps of the lease, *)
LEMMA PolledLease ==
  ASSUME RedisErrors = FALSE
  PROVE  ApiHeld /\ ApiHeld' /\ [ApiNext]_apiVars => [Lease!Next]_(Lease!vars)
<1> SUFFICES ASSUME ApiHeld, ApiHeld', [ApiNext]_apiVars PROVE [Lease!Next]_(Lease!vars)
  OBVIOUS
<1>1. LeaseHeld /\ LeaseHeld'
  BY DEF ApiHeld
<1>2. LeaseHeld /\ LeaseHeld' /\ [Next]_vars => [Lease!Next]_(Lease!vars)
  BY LeaseRefined, Zenon
<1>3. \/ [Next]_vars
      \/ UNCHANGED <<tasks, processing, deadLetter, stage, worker>>
  BY DEF ApiNext, apiVars, vars, Expire
<1>4. ASSUME UNCHANGED <<tasks, processing, deadLetter, stage, worker>>
      PROVE  UNCHANGED Lease!vars
  BY <1>1, <1>4, LeaseUntouched
<1> QED BY <1>1, <1>2, <1>3, <1>4

(***************************************************************************)
(* The jobs stay under their leases while clients poll and keys expire.    *)
(***************************************************************************)
THEOREM LeaseKeptPolled ==
  ASSUME Preempt = FALSE, RedisErrors = FALSE
  PROVE  ApiSpec => ImplementsJobLease
<1>1. ApiInit => ApiHeld /\ Lease!Init
  BY ApiHeldInit, LeaseHeldInit DEF ApiInit
<1>2. ApiHeld /\ [ApiNext]_apiVars => ApiHeld'
  BY ApiHeldStep, Zenon
<1>3. ApiHeld /\ ApiHeld' /\ [ApiNext]_apiVars => [Lease!Next]_(Lease!vars)
  BY PolledLease, Zenon
<1> QED BY <1>1, <1>2, <1>3, PTL DEF ApiSpec, ImplementsJobLease, Lease!Spec

(***************************************************************************)
(* Under the same conditions no late write reopens a completed job: what a *)
(* client reads as completed it reads as completed until the key expires.  *)
(***************************************************************************)
THEOREM CompletedForGood ==
  ASSUME Preempt = FALSE, RedisErrors = FALSE
  PROVE  ApiSpec => CompletedStays
<1>1. ApiInit => ApiHeld
  BY ApiHeldInit
<1>2. ApiHeld /\ [ApiNext]_apiVars => ApiHeld'
  BY ApiHeldStep, Zenon
<1>3. ApiHeld /\ ApiHeld' /\ [ApiNext]_apiVars
        => [\A j \in Jobs :
              status[j] = "completed" => status'[j] \in {"completed", "none"}]_vars
  <2> SUFFICES ASSUME ApiHeld, ApiHeld', [ApiNext]_apiVars, NEW j \in Jobs,
                      status[j] = "completed"
               PROVE  status'[j] \in {"completed", "none"}
    OBVIOUS
  <2>1. LeaseHeld /\ LeaseHeld' /\ StatusTrue(j)
    BY DEF ApiHeld
  <2>2. LeaseHeld /\ LeaseHeld' /\ Next => \A i \in Jobs : StatusLaw(i)
    BY QueueLaw, Zenon
  <2>3. CASE UNCHANGED status
    BY <2>3
  <2>4. CASE Next
    <3> HIDE DEF Outcome
    <3> QED BY <2>1, <2>2, <2>4 DEF StatusTrue, StatusLaw
  <2>5. CASE \E i \in Polled : Expire(i) /\ UNCHANGED <<stage, worker, reaper, request, answer>>
    BY <2>5, ExpireKeepsTrue
  <2> QED BY <2>3, <2>4, <2>5 DEF ApiNext, apiVars, vars, store
<1> QED BY <1>1, <1>2, <1>3, PTL DEF ApiSpec, CompletedStays

============================================================================
