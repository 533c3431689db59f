------------------------------ MODULE Reaper ------------------------------
(***************************************************************************)
(* The reaper process: main() of app/reaper.py and recover_stale_tasks()   *)
(* with its two Lua scripts.  A scan reads the clock and the claims hash   *)
(* once and then works through that snapshot, one script per stale claim,  *)
(* while workers and other reapers go on.                                  *)
(***************************************************************************)
EXTENDS Worker

CONSTANTS
  Reapers,   \* reaper processes; a rolling update runs two for a while
  Preempt    \* TRUE: a claim may expire while its worker is still alive

ASSUME PreemptIsBoolean == Preempt \in BOOLEAN
ASSUME ReapersAreFinite == IsFiniteSet(Reapers)

VARIABLES
  snapshot,  \* the stale claims of the current scan not handled yet
  rpc        \* next step of each reaper

reaper == <<snapshot, rpc>>

ReaperPcs == {"scan", "count_recovered", "count_failed", "count_dead"}

ReaperTypeOK ==
  /\ snapshot \in [Reapers -> SUBSET Claim]
  /\ rpc \in [Reapers -> ReaperPcs]

ReaperInit ==
  /\ snapshot = [r \in Reapers |-> {}]
  /\ rpc = [r \in Reapers |-> "scan"]

(***************************************************************************)
(* now - claimed_at >= timeout_seconds.  Any claim can be that old at any  *)
(* scan, unless the timeout exceeds every execution (Preempt = FALSE):     *)
(* then only a claim whose worker no longer works on it can.               *)
(***************************************************************************)
MayBeStale(c) ==
  Preempt \/ \A w \in Workers : ~(Executing(w) /\ task[w] = c.payload)

(* Slip: the age is taken from processing_started_at, so that a claim that  *)
(* does not carry it yet is skipped.                                        *)
StaleStartedClaims ==
  {c \in {claims[j] : j \in Jobs} \ {NoClaim} : c.started /\ MayBeStale(c)}

StaleClaims == {c \in {claims[j] : j \in Jobs} \ {NoClaim} : MayBeStale(c)}

(* HGETALL, and the selection of the claims that are old enough *)
Scan(r) ==
  /\ rpc[r] = "scan"
  /\ snapshot[r] = {}
  /\ \E S \in (SUBSET StaleClaims) \ {{}} :
       snapshot' = [snapshot EXCEPT ![r] = S]
  /\ UNCHANGED <<store, rpc>>

(***************************************************************************)
(* The outcomes of a script for one claim c of the snapshot.  Both scripts *)
(* start with the same two tests.                                          *)
(***************************************************************************)
Handle(r, c, next) ==
  /\ rpc[r] = "scan"
  /\ c \in snapshot[r]
  /\ snapshot' = [snapshot EXCEPT ![r] = @ \ {c}]
  /\ rpc' = [rpc EXCEPT ![r] = next]

(* Slip: the current claim is not compared. *)
ClaimNotCompared(c) == TRUE

(* HGET still returns the claim that was scanned *)
ClaimUnchanged(c) == claims[c.payload.job] = c

SkipChangedClaim(r, c) ==
  /\ ~ClaimUnchanged(c)
  /\ Handle(r, c, "scan")
  /\ UNCHANGED store

(* LREM removes nothing: the orphan claim is deleted *)
DropOrphanClaim(r, c) ==
  /\ ClaimUnchanged(c)
  /\ c.payload \notin Range(processing)
  /\ Handle(r, c, "scan")
  /\ DropClaim(c.payload.job)
  /\ UNCHANGED <<tasks, processing, deadLetter, status, results, stats, clock>>

(* Slip: neither the claim nor the result of LREM is looked at. *)
TakeBackBlindly(r, c, next) ==
  /\ Handle(r, c, next)
  /\ RemoveProcessing(c.payload)
  /\ DropClaim(c.payload.job)

(* LREM removed the payload: the script goes on and deletes the claim *)
TakeBack(r, c, next) ==
  /\ ClaimUnchanged(c)
  /\ c.payload \in Range(processing)
  /\ Handle(r, c, next)
  /\ RemoveProcessing(c.payload)
  /\ DropClaim(c.payload.job)

(* Slip: the limit is compared before the recovery is counted. *)
RecoverableTooLong(p) == p.recoveries <= MaxRecoveries

(* recoveries += 1 comes before the comparison with the limit *)
Recoverable(p) == Recovered(p).recoveries <= MaxRecoveries

(* _recover_claim_atomically *)
Recover(r, c) ==
  /\ Recoverable(c.payload)
  /\ TakeBack(r, c, "count_recovered")
  /\ PushTask(Recovered(c.payload))
  /\ SetStatus(c.payload.job, "queued")
  /\ UNCHANGED <<deadLetter, results, stats, clock>>

(* Slip: the status is not saved with the dead letter. *)
BurySilently(r, c) ==
  /\ ~Recoverable(c.payload)
  /\ TakeBack(r, c, "count_failed")
  /\ PushDeadLetter(Recovered(c.payload), "recovery_limit")
  /\ UNCHANGED <<tasks, status, results, stats, clock>>

(* _dead_letter_claim_atomically *)
Bury(r, c) ==
  /\ ~Recoverable(c.payload)
  /\ TakeBack(r, c, "count_failed")
  /\ PushDeadLetter(Recovered(c.payload), "recovery_limit")
  /\ SetStatus(c.payload.job, "failed")
  /\ UNCHANGED <<tasks, results, stats, clock>>

ReaperCount(r, from, counter, to) ==
  /\ rpc[r] = from
  /\ rpc' = [rpc EXCEPT ![r] = to]
  /\ Increment(counter)
  /\ UNCHANGED <<tasks, processing, claims, deadLetter, status, results, clock,
                 snapshot>>

CountRecovered(r) == ReaperCount(r, "count_recovered", "recoveries", "scan")

(* Slip: the field of the other counter. *)
CountBuriedTwice(r) == ReaperCount(r, "count_failed", "dead_lettered", "count_dead")

CountBuried(r) == ReaperCount(r, "count_failed", "failed", "count_dead")
CountBuriedDead(r) == ReaperCount(r, "count_dead", "dead_lettered", "scan")

(* A Redis call raises (main() swallows it) or the process is restarted:    *)
(* the rest of the scan is given up.                                        *)
ScanFails(r) ==
  /\ RedisErrors
  /\ snapshot[r] # {} \/ rpc[r] # "scan"
  /\ snapshot' = [snapshot EXCEPT ![r] = {}]
  /\ rpc' = [rpc EXCEPT ![r] = "scan"]
  /\ UNCHANGED store

HandleClaim(r, c) ==
  SkipChangedClaim(r, c) \/ DropOrphanClaim(r, c) \/ Recover(r, c) \/ Bury(r, c)

ReaperStep(r) ==
  \/ \E c \in snapshot[r] : HandleClaim(r, c)
  \/ CountRecovered(r) \/ CountBuried(r) \/ CountBuriedDead(r)

============================================================================
