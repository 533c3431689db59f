-------------------------- MODULE MCReliableQueue --------------------------
(* Small instances of ReliableQueue for TLC. *)
EXTENDS ReliableQueue, TLC

(* Workers are interchangeable, and so are reapers.  Not used with          *)
(* liveness.                                                                *)
Interchangeable == Permutations(Workers) \cup Permutations(Reapers)

(***************************************************************************)
(* The part of a state that its future depends on.  The counters are       *)
(* written and never read; the order of the dead letters and of the        *)
(* processing list (elements are removed by value) is not read either; a   *)
(* call to enqueue() that has pushed its payload, and a worker that has    *)
(* only counters left to write, do nothing else any more.  A worker that   *)
(* counts is represented by one of its steps, so CrashPcs must contain     *)
(* them: the crash leads on to the loop.  Not used where a property is     *)
(* about the counters.  Readings are compared with the current claims      *)
(* only, and new ones are greater than all of them.                        *)
(***************************************************************************)
Undated(c) == IF c = NoClaim THEN c ELSE [c EXCEPT !.reading = 0]

BehaviourOnly ==
  LET counting(w) == pc[w] \in {"count_retry", "count_failed", "count_dead",
                                "record_duration"}
  IN <<tasks, ToBag(processing), [j \in Jobs |-> Undated(claims[j])], Range(deadLetter), status, results,
       clock, [j \in Jobs |-> IF Submitted(j) THEN "submitted" ELSE stage[j]],
       [w \in Workers |->
          IF counting(w) THEN <<"counting">>
          ELSE <<pc[w], task[w], remembered[w]>>],
       [r \in Reapers |-> {<<Undated(c), ClaimUnchanged(c)>> : c \in snapshot[r]}],
       [r \in Reapers |-> IF rpc[r] = "count_dead" THEN "count_recovered" ELSE rpc[r]]>>

============================================================================
