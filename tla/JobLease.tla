----------------------------- MODULE JobLease -----------------------------
(***************************************************************************)
(* What the queue promises when claims outlive executions and Redis calls  *)
(* do not fail: every job runs under a lease.  One worker at a time owns   *)
(* the job, only its owner settles or retries it, the lease is revoked     *)
(* only after the owner died, and a settled job stays settled.             *)
(***************************************************************************)
CONSTANTS Jobs, Workers, Nobody

VARIABLES
  phase,  \* where the job is in its life
  owner   \* the live worker that holds its lease

vars == <<phase, owner>>

Phases == {"new", "waiting", "leased", "stored", "buried"}

Init ==
  /\ phase = [j \in Jobs |-> "new"]
  /\ owner = [j \in Jobs |-> Nobody]

Move(j, from, to, w) ==
  /\ phase[j] = from
  /\ phase' = [phase EXCEPT ![j] = to]
  /\ owner' = [owner EXCEPT ![j] = w]

Submit(j) == Move(j, "new", "waiting", Nobody)

Grant(j, w) == Move(j, "waiting", "leased", w)

(* The owner returns the lease: result, retry or dead letter. *)
Return(j, w) ==
  /\ owner[j] = w
  /\ \E to \in {"stored", "waiting", "buried"} : Move(j, "leased", to, Nobody)

(* The owner dies and the lease is left without an owner. *)
Abandon(j, w) ==
  /\ owner[j] = w
  /\ Move(j, "leased", "leased", Nobody)

(* An abandoned lease expires: one more turn, or a dead letter. *)
Expire(j) ==
  /\ owner[j] = Nobody
  /\ \E to \in {"waiting", "buried"} : Move(j, "leased", to, Nobody)

Next ==
  \E j \in Jobs :
    \/ Submit(j)
    \/ Expire(j)
    \/ \E w \in Workers : Grant(j, w) \/ Return(j, w) \/ Abandon(j, w)

Spec == Init /\ [][Next]_vars

============================================================================
