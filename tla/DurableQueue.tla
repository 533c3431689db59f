---------------------------- MODULE DurableQueue ----------------------------
(***************************************************************************)
(* The queue on a Redis that restarts.  Redis writes an append-only file   *)
(* and syncs it every second; when its pod is replaced it comes back with  *)
(* the keys as they were after some command that was synced, a MULTI or a  *)
(* script counting as one, and forgets the commands after it.  The other   *)
(* processes go on with what they remember.                                *)
(***************************************************************************)
EXTENDS ReliableQueue

CONSTANTS
  MaxRestarts,   \* bound on the restarts of Redis, for model checking
  SyncsInWindow  \* TRUE: the file may end between a BLMOVE and its claim

ASSUME MaxRestartsIsNatural == MaxRestarts \in Nat
ASSUME SyncsInWindowIsBoolean == SyncsInWindow \in BOOLEAN

VARIABLES
  durable,    \* the keys as the append-only file would restore them
  safe,       \* the jobs that were in the file at some time
  restarts

disk == <<durable, safe, restarts>>

durableVars == <<store, stage, worker, reaper, disk>>

(* The keys that are stored in Redis: all but the wall clock. *)
Keys == [tasks |-> tasks, processing |-> processing, claims |-> claims,
         deadLetter |-> deadLetter, status |-> status, results |-> results,
         stats |-> stats]

DurableInit ==
  /\ Init
  /\ durable = Keys
  /\ safe = {}
  /\ restarts = 0

Kept(j) == Held(j) \/ j \in results \/ Buried(j)

(* appendfsync everysec: the file catches up with the commands. *)
Fsync ==
  /\ SyncsInWindow \/ \A w \in Workers : pc[w] # "record_claim"
  /\ restarts < MaxRestarts
  /\ durable' = Keys
  /\ safe' = safe \cup {j \in Jobs : Kept(j)}
  /\ UNCHANGED <<vars, restarts>>

(* Redis restarts and loads the file.  Time goes on. *)
Restart ==
  /\ restarts < MaxRestarts
  /\ restarts' = restarts + 1
  /\ tasks' = durable.tasks
  /\ processing' = durable.processing
  /\ claims' = durable.claims
  /\ deadLetter' = durable.deadLetter
  /\ status' = durable.status
  /\ results' = durable.results
  /\ stats' = durable.stats
  /\ UNCHANGED <<clock, stage, worker, reaper, durable, safe>>

DurableNext ==
  \/ Next /\ UNCHANGED disk
  \/ Fsync
  \/ Restart

DurableSpec == DurableInit /\ [][DurableNext]_durableVars

(* Nothing is assumed about Fsync and Restart. *)
DurableFairSpec == DurableSpec /\ Fairness

----------------------------------------------------------------------------
(***************************************************************************)
(* A job that was synced once is never lost, whatever Redis forgets later, *)
(* and whatever late workers and reapers do to its older copies.           *)
(***************************************************************************)
SyncedJobsKept == \A j \in safe : Kept(j)

(***************************************************************************)
(* The status of such a job is still backed by the rest of the store.  Not *)
(* so for other jobs: the status queued may be restored without payload.   *)
(***************************************************************************)
SyncedStatusBacked ==
  \A j \in safe :
    /\ status[j] = "completed" => j \in results
    /\ status[j] = "failed" => Buried(j)
    /\ status[j] = "queued" => Held(j)

(***************************************************************************)
(* Such a job is settled in the end: restored next to workers that         *)
(* remember what Redis forgot, it may run twice, and a copy of it may be   *)
(* left in the processing list, its claim overwritten by that of another   *)
(* copy, but not all of them are.  A file that ends between a BLMOVE and   *)
(* its claim is excepted: the payload comes back without a claim, and no   *)
(* reaper will look at it.                                                 *)
(***************************************************************************)
SyncedJobsSettle ==
  \A j \in Jobs : j \in safe ~> [](j \in results \/ Buried(j))

============================================================================
