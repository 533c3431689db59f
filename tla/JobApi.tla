------------------------------- MODULE JobApi -------------------------------
(***************************************************************************)
(* The queue API as a client sees it: GET /queue/status and GET            *)
(* /queue/result, which read the keys of a job by separate Redis commands  *)
(* while the queue goes on, and the expiry of those keys.  The client of a *)
(* job sends its requests one after the other; readers change nothing, so  *)
(* that one client per job stands for any number of them.                  *)
(***************************************************************************)
EXTENDS ReliableQueue

CONSTANTS
  Polled,      \* the jobs whose clients poll and whose keys may expire
  KeysExpire   \* may 3600 s pass after the last write of a key?

ASSUME PolledAreJobs == Polled \subseteq Jobs
ASSUME KeysExpireIsBoolean == KeysExpire \in BOOLEAN

VARIABLES
  request,   \* the client's request in flight, after its read of the status
  answer,    \* the last answer the client of each job got, one of Answers
  lapsed     \* history: the jobs of which a key expired before they were decided

client == <<request, answer, lapsed>>

apiVars == <<store, stage, worker, reaper, client>>

(* Between two requests.  next is the second command of the handler, saw   *)
(* the status that the first one returned.                                 *)
NoRequest == [next |-> "none", saw |-> "none"]

(* "empty" is {"status": "completed", "result": null}, "unknown" a 404. *)
Answers == Statuses \cup {"empty", "unknown"}

ApiInit ==
  /\ Init
  /\ request = [j \in Jobs |-> NoRequest]
  /\ answer = [j \in Jobs |-> "none"]
  /\ lapsed = {}

----------------------------------------------------------------------------
(* The handlers.  A client learns the id of its job from POST /queue/chat. *)

Ask(j) == stage[j] = "answered" /\ request[j] = NoRequest

Send(j, next) ==
  /\ request' = [request EXCEPT ![j] = [next |-> next, saw |-> status[j]]]
  /\ UNCHANGED <<answer, lapsed>>

Answer(j, a) ==
  /\ answer' = [answer EXCEPT ![j] = a]
  /\ request' = [request EXCEPT ![j] = NoRequest]
  /\ UNCHANGED lapsed

(* Both handlers: get_status() returns None *)
NotFound(j) ==
  /\ Ask(j)
  /\ status[j] = "none"
  /\ Answer(j, "unknown")

(* get_job_status() goes on to queue_size() with any status, and            *)
(* get_job_result() with one that is neither failed nor completed.          *)
ReadStatus(j) ==
  /\ Ask(j)
  /\ status[j] # "none"
  /\ Send(j, "size")

(* get_job_result() answers a failed job at once *)
AnswerFailed(j) ==
  /\ Ask(j)
  /\ status[j] = "failed"
  /\ Answer(j, "failed")

(* Slip: whatever has not failed is taken for completed. *)
ReadAnyForResult(j) ==
  /\ Ask(j)
  /\ status[j] \notin {"none", "failed"}
  /\ Send(j, "result")

(* get_job_result() goes on to get_result() *)
ReadForResult(j) ==
  /\ Ask(j)
  /\ status[j] = "completed"
  /\ Send(j, "result")

AnswerStatus(j) ==
  /\ request[j].next = "size"
  /\ Answer(j, request[j].saw)

(* get_result() may find no key any more: the answer still says completed. *)
AnswerResult(j) ==
  /\ request[j].next = "result"
  /\ Answer(j, IF j \in results THEN "completed" ELSE "empty")

(* The second read raises: the client gets a 500 and may ask again. *)
RequestFails(j) ==
  /\ RedisErrors
  /\ request[j] # NoRequest
  /\ request' = [request EXCEPT ![j] = NoRequest]
  /\ UNCHANGED <<answer, lapsed>>

FirstRead(j) == NotFound(j) \/ ReadStatus(j) \/ AnswerFailed(j) \/ ReadForResult(j)
SecondRead(j) == AnswerStatus(j) \/ AnswerResult(j)

----------------------------------------------------------------------------
(* Expiry, by Redis itself.  Every SET gives its key 3600 s, so that keys   *)
(* expire in the order of their last writes.  The result is written in one  *)
(* MULTI with the status completed: they expire together, unless the status *)
(* was written again, and then the result expires first.                    *)

Outcome(j) ==
  IF ~Submitted(j) \/ Held(j) THEN "open"
  ELSE IF Buried(j) THEN "failed" ELSE "completed"

ExpireBoth(j) ==
  /\ status[j] = "completed"
  /\ SetStatus(j, "none")
  /\ results' = results \ {j}

ExpireResult(j) ==
  /\ status[j] # "completed"
  /\ j \in results
  /\ results' = results \ {j}
  /\ UNCHANGED status

ExpireStatus(j) ==
  /\ status[j] \notin {"none", "completed"}
  /\ j \notin results
  /\ SetStatus(j, "none")
  /\ UNCHANGED results

Expire(j) ==
  /\ KeysExpire
  /\ ExpireBoth(j) \/ ExpireResult(j) \/ ExpireStatus(j)
  /\ lapsed' = IF Outcome(j) = "open" THEN lapsed \cup {j} ELSE lapsed
  /\ UNCHANGED <<tasks, processing, claims, deadLetter, stats, clock>>

----------------------------------------------------------------------------
ClientNext == \E j \in Polled : FirstRead(j) \/ SecondRead(j) \/ RequestFails(j)

ApiNext ==
  \/ Next /\ UNCHANGED client
  \/ ClientNext /\ UNCHANGED vars
  \/ (\E j \in Polled : Expire(j)) /\ UNCHANGED <<stage, worker, reaper, request, answer>>

ApiSpec == ApiInit /\ [][ApiNext]_apiVars

(* Clients keep asking, and not every request fails. *)
ApiFairSpec ==
  /\ ApiSpec
  /\ Fairness
  /\ \A j \in Polled :
       /\ WF_apiVars(FirstRead(j) /\ UNCHANGED vars)
       /\ SF_apiVars(SecondRead(j) /\ UNCHANGED vars)

----------------------------------------------------------------------------
(***************************************************************************)
(* While nothing expires, an answer is true and complete whatever fails:   *)
(* one that says completed carries the result, although status and result  *)
(* are read by two commands, and one that says failed is about a job that  *)
(* operators find among the dead letters.                                  *)
(***************************************************************************)
Backed(j) ==
  CASE answer[j] \in {"empty", "unknown"} -> FALSE
    [] answer[j] = "completed"            -> j \in results
    [] answer[j] = "failed"               -> Buried(j)
    [] OTHER                              -> TRUE

AnswersBacked == [][\A j \in Jobs : answer'[j] # answer[j] => Backed(j)']_apiVars

Told(j) ==
  CASE answer[j] = "none"                     -> "nothing"
    [] answer[j] \in {"queued", "processing"} -> "open"
    [] answer[j] \in {"completed", "failed"}  -> answer[j]
    [] answer[j] \in {"empty", "unknown"}     -> "gone"

Promised == INSTANCE PolledJob WITH
  outcome <- [j \in Jobs |-> Outcome(j)],
  told    <- [j \in Jobs |-> Told(j)]

(***************************************************************************)
(* Without failing calls and early timeouts, the answers a client gets are *)
(* those of PolledJob: the truth, never taken back, and no 404 and no empty *)
(* result before the job is decided, unless it waited so long that one of   *)
(* its keys expired.                                                        *)
(***************************************************************************)
ImplementsPolledJob == Promised!Spec

(***************************************************************************)
(* A client that keeps polling the status of a job learns in the end that  *)
(* it completed or failed, for good, although workers crash and calls fail.*)
(***************************************************************************)
ClientConcludes ==
  \A j \in Polled :
    stage[j] = "answered" ~> [](answer[j] \in {"completed", "failed"})

============================================================================
