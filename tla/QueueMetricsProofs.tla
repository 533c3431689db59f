------------------------- MODULE QueueMetricsProofs -------------------------
(***************************************************************************)
(* The counters and histograms of the queue, and what a snapshot that is   *)
(* read by six commands shows of them: lemmas and theorems for any finite  *)
(* number of jobs, workers and reapers, any bounds and any durations.      *)
(***************************************************************************)
EXTENDS QueueMetrics, ReliableQueueProofs, FiniteSetTheorems

----------------------------------------------------------------------------
(* Counting processes *)

(* The processes of S whose program counter f stands at x. *)
At(f, S, x) == {i \in S : f[i] = x}

(* The set of the processes at a step is finite, and its size is a number. *)
LEMMA AtFinite ==
  ASSUME NEW S, IsFiniteSet(S), NEW f, NEW x
  PROVE  IsFiniteSet(At(f, S, x)) /\ Cardinality(At(f, S, x)) \in Nat
<1>1. At(f, S, x) \in SUBSET S
  BY DEF At
<1> QED BY <1>1, FS_Subset, FS_CardinalityType

(* When one process comes, there is one more; when it goes, there is one    *)
(* less; and otherwise there are as many as before.                         *)
LEMMA MoveOne ==
  ASSUME NEW A, IsFiniteSet(A), NEW i, NEW B, B = A \cup {i} \/ B = A \ {i}
  PROVE  /\ i \in B /\ i \notin A => Cardinality(B) = Cardinality(A) + 1
         /\ i \notin B /\ i \in A => Cardinality(B) = Cardinality(A) - 1
         /\ (i \in B <=> i \in A) => Cardinality(B) = Cardinality(A)
<1>1. CASE B = A \cup {i}
  BY <1>1, FS_AddElement
<1>2. CASE B = A \ {i}
  BY <1>2, FS_RemoveElement
<1> QED BY <1>1, <1>2

----------------------------------------------------------------------------
(***************************************************************************)
(* The inductive part of CountersLag: what is counted is ahead of its      *)
(* counter by at least the processes that are about to count it.           *)
(***************************************************************************)
SubmissionsOwed ==
  stats["submitted"] + Cardinality(At(stage, Jobs, "count"))
    <= Cardinality({j \in Jobs : Submitted(j)})

(* The steps at which a process owes a count, and who stands at such a step. *)
Owing == {"observe_wait", "count_failed", "count_dead"}

Due(x) == Cardinality(At(pc, Workers, x)) + Cardinality(At(rpc, Reapers, x))

WaitsOwed == stats["waits"] + Due("observe_wait") <= stats["attempts"]
DeadOwed == stats["dead_lettered"] + Due("count_dead") <= stats["failed"]
FailedOwed == stats["failed"] + Due("count_failed") <= Len(deadLetter)

CountersOwed == SubmissionsOwed /\ WaitsOwed /\ DeadOwed /\ FailedOwed

(* What a process that goes from one step to another does to the counters   *)
(* and the dead letters: it counts nothing that is compared, or it counts   *)
(* and goes on, or it buries a job and owes the count.                      *)
Books(from, to) ==
  \/ /\ to \notin Owing
     /\ UNCHANGED <<stats, deadLetter>>
  \/ /\ to \notin Owing
     /\ \E c \in {"completed", "retries", "recoveries", "inferences"} : Increment(c)
     /\ UNCHANGED deadLetter
  \/ /\ from = "count_attempt" /\ to = "observe_wait"
     /\ Increment("attempts") /\ UNCHANGED deadLetter
  \/ /\ from = "observe_wait" /\ to \notin Owing
     /\ Increment("waits") /\ UNCHANGED deadLetter
  \/ /\ from \notin Owing /\ to = "count_failed" /\ UNCHANGED stats
     /\ \E d \in DeadLetter : deadLetter' = Append(deadLetter, d)
  \/ /\ from = "count_failed" /\ to = "count_dead"
     /\ Increment("failed") /\ UNCHANGED deadLetter
  \/ /\ from = "count_dead" /\ to \notin Owing
     /\ Increment("dead_lettered") /\ UNCHANGED deadLetter

WorkerBooks(w) ==
  \E to \in WorkerPcs : pc' = [pc EXCEPT ![w] = to] /\ Books(pc[w], to)

ReaperBooks(r) ==
  \E to \in ReaperPcs : rpc' = [rpc EXCEPT ![r] = to] /\ Books(rpc[r], to)

(* Every step of a worker keeps these books. *)
LEMMA WorkerKeepsBooks ==
  ASSUME TypeOK, WorkerNext
  PROVE  \E w \in Workers : WorkerBooks(w)
<1>1. StoreTypeOK /\ WorkerTypeOK
  BY DEF TypeOK
<1>2. PICK w \in Workers : WorkerStep(w) \/ Crash(w)
  BY DEF WorkerNext
<1>3. CASE Dequeue(w) \/ RecordClaim(w) \/ MarkStarted(w) \/ SaveProcessing(w)
  BY <1>3 DEF Dequeue, RecordClaim, MarkStarted, WriteClaim, SaveProcessing, Goto, WorkerBooks, Books,
              WorkerPcs, Owing
<1>4. CASE InferenceFails(w) \/ CountCompletedFails(w) \/ HandlerFails(w)
  BY <1>4 DEF InferenceFails, CountCompletedFails, HandlerFails, store, Goto,
              WorkerBooks, Books, WorkerPcs, Owing
<1>5. CASE SaveResult(w) \/ SaveResultReplyLost(w) \/ Requeue(w)
  BY <1>5 DEF SaveResult, SaveResultReplyLost, StoreResult, Requeue, Goto,
              WorkerBooks, Books, WorkerPcs, Owing
<1>6. CASE CountCompleted(w) \/ CountRetry(w)
  BY <1>6 DEF CountCompleted, CountRetry, CountStep, Goto, WorkerBooks, Books, WorkerPcs, Owing
<1>7. CASE CountAttempt(w)
  BY <1>7 DEF CountAttempt, CountStep, Goto, WorkerBooks, Books, WorkerPcs, Owing
<1>8. CASE ObserveWait(w)
  BY <1>8 DEF ObserveWait, CountStep, Goto, WorkerBooks, Books, WorkerPcs, Owing
<1>9. CASE CountFailed(w)
  BY <1>9 DEF CountFailed, CountStep, Goto, WorkerBooks, Books, WorkerPcs, Owing
<1>10. CASE CountDead(w)
  BY <1>10 DEF CountDead, CountStep, Goto, WorkerBooks, Books, WorkerPcs, Owing
<1>11. CASE SetError(w)
  <2>1. task[w] \in Payload
    BY <1>1, <1>11, TaskType DEF SetError, Goto
  <2>2. [payload |-> task[w], reason |-> "retry_limit"] \in DeadLetter
    BY <2>1 DEF DeadLetter
  <2> QED BY <1>11, <2>2 DEF SetError, PushDeadLetter, Goto, WorkerBooks, Books, WorkerPcs, Owing
<1>12. CASE RecordDuration(w) \/ Crash(w)
  BY <1>12 DEF RecordDuration, Crash, store, Reset, WorkerBooks, Books, WorkerPcs, Owing
<1> QED
  BY <1>2, <1>3, <1>4, <1>5, <1>6, <1>7, <1>8, <1>9, <1>10, <1>11, <1>12
  DEF WorkerStep

(* And every step of a reaper. *)
LEMMA ReaperKeepsBooks ==
  ASSUME TypeOK, ReaperNext
  PROVE  \E r \in Reapers : ReaperBooks(r)
<1>1. StoreTypeOK /\ ReaperTypeOK
  BY DEF TypeOK
<1>2. PICK r \in Reapers : Scan(r) \/ ReaperStep(r) \/ ScanFails(r)
  BY DEF ReaperNext
<1>3. CASE Scan(r)
  <2>1. rpc' = [rpc EXCEPT ![r] = "scan"]
    BY <1>1, <1>3 DEF Scan, ReaperTypeOK
  <2> QED BY <1>3, <2>1 DEF Scan, store, ReaperBooks, Books, ReaperPcs, Owing
<1>4. ASSUME NEW c \in snapshot[r],
             SkipChangedClaim(r, c) \/ DropOrphanClaim(r, c) \/ Recover(r, c)
      PROVE  ReaperBooks(r)
  BY <1>4 DEF SkipChangedClaim, DropOrphanClaim, Recover, TakeBack, Handle, store,
              ReaperBooks, Books, ReaperPcs, Owing
<1>5. ASSUME NEW c \in snapshot[r], Bury(r, c)
      PROVE  ReaperBooks(r)
  <2>1. TakeBack(r, c, "count_failed") /\ "count_failed" \in ReaperPcs
    BY <1>5 DEF Bury, ReaperPcs
  <2>2. c.payload \in Payload
    BY <1>1, <2>1, TakeBackEffect
  <2>3. [payload |-> Recovered(c.payload), reason |-> "recovery_limit"] \in DeadLetter
    BY <2>2, PayloadUpdates DEF DeadLetter
  <2> QED BY <1>5, <2>1, <2>3 DEF Bury, PushDeadLetter, TakeBack, Handle, ReaperBooks, Books, Owing
<1>6. CASE CountRecovered(r)
  BY <1>6 DEF CountRecovered, ReaperCount, ReaperBooks, Books, ReaperPcs, Owing
<1>7. CASE CountBuried(r)
  BY <1>7 DEF CountBuried, ReaperCount, ReaperBooks, Books, ReaperPcs, Owing
<1>8. CASE CountBuriedDead(r)
  BY <1>8 DEF CountBuriedDead, ReaperCount, ReaperBooks, Books, ReaperPcs, Owing
<1>9. CASE ScanFails(r)
  BY <1>9 DEF ScanFails, store, ReaperBooks, Books, ReaperPcs, Owing
<1> QED
  BY <1>2, <1>3, <1>4, <1>5, <1>6, <1>7, <1>8, <1>9 DEF ReaperStep, HandleClaim

(* A move from one step to another, seen by those who owe a count. *)
Moved(from, to) ==
  \A x \in Owing :
    Due(x)' = Due(x) + (IF x = to THEN 1 ELSE 0) - (IF x = from THEN 1 ELSE 0)

(* Each of these sizes is a number. *)
LEMMA DueType == \A x \in Owing : Due(x) \in Nat
  BY AtFinite, JobsAndWorkersAreFinite, ReapersAreFinite DEF Due

(* A worker that takes a step moves, *)
LEMMA WorkerMoves ==
  ASSUME WorkerTypeOK, NEW w \in Workers, NEW to \in WorkerPcs,
         pc' = [pc EXCEPT ![w] = to], UNCHANGED rpc
  PROVE  Moved(pc[w], to)
<1> SUFFICES ASSUME NEW x \in Owing
             PROVE  Due(x)' = Due(x) + (IF x = to THEN 1 ELSE 0)
                                     - (IF x = pc[w] THEN 1 ELSE 0)
  BY DEF Moved
<1>1. pc \in [Workers -> WorkerPcs] /\ IsFiniteSet(Workers) /\ IsFiniteSet(Reapers)
  BY JobsAndWorkersAreFinite, ReapersAreFinite DEF WorkerTypeOK
<1> DEFINE n == Cardinality(At(pc, Workers, x))
           m == Cardinality(At(pc', Workers, x))
           r == Cardinality(At(rpc, Reapers, x))
<1>2. n \in Nat /\ r \in Nat
  BY <1>1, AtFinite
<1>3. /\ x = to /\ x # pc[w] => m = n + 1
      /\ x # to /\ x = pc[w] => m = n - 1
      /\ (x = to <=> x = pc[w]) => m = n
  <2>1. /\ w \in At(pc, Workers, x) <=> x = pc[w]
        /\ w \in At(pc', Workers, x) <=> x = to
    BY <1>1 DEF At
  <2>2. \/ At(pc', Workers, x) = At(pc, Workers, x) \cup {w}
        \/ At(pc', Workers, x) = At(pc, Workers, x) \ {w}
    <3>1. CASE x = to
      BY <1>1, <3>1 DEF At
    <3>2. CASE x # to
      BY <1>1, <3>2 DEF At
    <3> QED BY <3>1, <3>2
  <2>3. IsFiniteSet(At(pc, Workers, x))
    BY <1>1, AtFinite
  <2> DEFINE A == At(pc, Workers, x)
             B == At(pc', Workers, x)
  <2>4. /\ w \in B /\ w \notin A => Cardinality(B) = Cardinality(A) + 1
        /\ w \notin B /\ w \in A => Cardinality(B) = Cardinality(A) - 1
        /\ (w \in B <=> w \in A) => Cardinality(B) = Cardinality(A)
    <3> HIDE DEF A, B
    <3>1. IsFiniteSet(A) /\ (B = A \cup {w} \/ B = A \ {w})
      BY <2>2, <2>3 DEF A, B
    <3> QED BY <3>1, MoveOne
  <2> QED BY <2>1, <2>4
<1>4. Due(x) = n + r /\ Due(x)' = m + r
  BY DEF Due
<1> HIDE DEF n, m, r
<1> QED BY <1>2, <1>3, <1>4

(* and so does a reaper. *)
LEMMA ReaperMoves ==
  ASSUME ReaperTypeOK, NEW r \in Reapers, NEW to \in ReaperPcs,
         rpc' = [rpc EXCEPT ![r] = to], UNCHANGED pc
  PROVE  Moved(rpc[r], to)
<1> SUFFICES ASSUME NEW x \in Owing
             PROVE  Due(x)' = Due(x) + (IF x = to THEN 1 ELSE 0)
                                     - (IF x = rpc[r] THEN 1 ELSE 0)
  BY DEF Moved
<1>1. rpc \in [Reapers -> ReaperPcs] /\ IsFiniteSet(Workers) /\ IsFiniteSet(Reapers)
  BY JobsAndWorkersAreFinite, ReapersAreFinite DEF ReaperTypeOK
<1> DEFINE n == Cardinality(At(rpc, Reapers, x))
           m == Cardinality(At(rpc', Reapers, x))
           k == Cardinality(At(pc, Workers, x))
<1>2. n \in Nat /\ k \in Nat
  BY <1>1, AtFinite
<1>3. /\ x = to /\ x # rpc[r] => m = n + 1
      /\ x # to /\ x = rpc[r] => m = n - 1
      /\ (x = to <=> x = rpc[r]) => m = n
  <2>1. /\ r \in At(rpc, Reapers, x) <=> x = rpc[r]
        /\ r \in At(rpc', Reapers, x) <=> x = to
    BY <1>1 DEF At
  <2>2. \/ At(rpc', Reapers, x) = At(rpc, Reapers, x) \cup {r}
        \/ At(rpc', Reapers, x) = At(rpc, Reapers, x) \ {r}
    <3>1. CASE x = to
      BY <1>1, <3>1 DEF At
    <3>2. CASE x # to
      BY <1>1, <3>2 DEF At
    <3> QED BY <3>1, <3>2
  <2>3. IsFiniteSet(At(rpc, Reapers, x))
    BY <1>1, AtFinite
  <2> DEFINE A == At(rpc, Reapers, x)
             B == At(rpc', Reapers, x)
  <2>4. /\ r \in B /\ r \notin A => Cardinality(B) = Cardinality(A) + 1
        /\ r \notin B /\ r \in A => Cardinality(B) = Cardinality(A) - 1
        /\ (r \in B <=> r \in A) => Cardinality(B) = Cardinality(A)
    <3> HIDE DEF A, B
    <3>1. IsFiniteSet(A) /\ (B = A \cup {r} \/ B = A \ {r})
      BY <2>2, <2>3 DEF A, B
    <3> QED BY <3>1, MoveOne
  <2> QED BY <2>1, <2>4
<1>4. Due(x) = k + n /\ Due(x)' = k + m
  BY DEF Due
<1> HIDE DEF n, m, k
<1> QED BY <1>2, <1>3, <1>4

(* One counter goes up by one, and no other changes. *)
LEMMA IncrementOne ==
  ASSUME StoreTypeOK, NEW c \in Counters, Increment(c)
  PROVE  \A d \in Counters : stats'[d] = IF d = c THEN stats[d] + 1 ELSE stats[d]
  BY DEF StoreTypeOK, Increment

(* Books that are kept in a move keep the counters behind. *)
LEMMA BooksOwe ==
  ASSUME StoreTypeOK, CountersOwed, NEW from, NEW to, Moved(from, to), Books(from, to),
         UNCHANGED stage
  PROVE  CountersOwed'
<1>1. /\ stats \in [Counters -> Nat] /\ deadLetter \in Seq(DeadLetter)
      /\ Len(deadLetter) \in Nat
      /\ stats["waits"] \in Nat /\ stats["attempts"] \in Nat
      /\ stats["dead_lettered"] \in Nat /\ stats["failed"] \in Nat
  BY DEF StoreTypeOK, Counters
<1>2. \A x \in Owing : Due(x) \in Nat
  BY DueType
<1>3. \A x \in Owing :
        Due(x)' = Due(x) + (IF x = to THEN 1 ELSE 0) - (IF x = from THEN 1 ELSE 0)
  BY DEF Moved
<1>4. SubmissionsOwed'
  <2>1. stats'["submitted"] = stats["submitted"]
    BY <1>1, IncrementOne DEF Books, Counters
  <2> QED BY <2>1 DEF CountersOwed, SubmissionsOwed, Submitted
<1>5. WaitsOwed'
  <2>1. \/ UNCHANGED <<stats["waits"], stats["attempts"]>> /\ to # "observe_wait"
        \/ /\ stats'["waits"] = stats["waits"]
           /\ stats'["attempts"] = stats["attempts"] + 1
           /\ from # "observe_wait" /\ to = "observe_wait"
        \/ /\ stats'["waits"] = stats["waits"] + 1
           /\ stats'["attempts"] = stats["attempts"]
           /\ from = "observe_wait" /\ to # "observe_wait"
    BY <1>1, IncrementOne DEF Books, Counters, Owing
  <2>2. /\ Due("observe_wait") \in Nat
        /\ Due("observe_wait")' =
             Due("observe_wait") + (IF "observe_wait" = to THEN 1 ELSE 0) - (IF "observe_wait" = from THEN 1 ELSE 0)
    BY <1>2, <1>3 DEF Owing
  <2> QED BY <1>1, <2>1, <2>2 DEF CountersOwed, WaitsOwed
<1>6. DeadOwed'
  <2>1. \/ UNCHANGED <<stats["dead_lettered"], stats["failed"]>> /\ to # "count_dead"
        \/ /\ stats'["dead_lettered"] = stats["dead_lettered"]
           /\ stats'["failed"] = stats["failed"] + 1
           /\ from # "count_dead" /\ to = "count_dead"
        \/ /\ stats'["dead_lettered"] = stats["dead_lettered"] + 1
           /\ stats'["failed"] = stats["failed"]
           /\ from = "count_dead" /\ to # "count_dead"
    BY <1>1, IncrementOne DEF Books, Counters, Owing
  <2>2. /\ Due("count_dead") \in Nat
        /\ Due("count_dead")' =
             Due("count_dead") + (IF "count_dead" = to THEN 1 ELSE 0) - (IF "count_dead" = from THEN 1 ELSE 0)
    BY <1>2, <1>3 DEF Owing
  <2> QED BY <1>1, <2>1, <2>2 DEF CountersOwed, DeadOwed
<1>7. FailedOwed'
  <2>1. \/ /\ UNCHANGED <<stats["failed"], Len(deadLetter)>>
           /\ to # "count_failed"
        \/ /\ stats'["failed"] = stats["failed"]
           /\ Len(deadLetter') = Len(deadLetter) + 1
           /\ from # "count_failed" /\ to = "count_failed"
        \/ /\ stats'["failed"] = stats["failed"] + 1
           /\ Len(deadLetter') = Len(deadLetter)
           /\ from = "count_failed" /\ to # "count_failed"
    BY <1>1, IncrementOne DEF Books, Counters, Owing
  <2>2. /\ Due("count_failed") \in Nat
        /\ Due("count_failed")' =
             Due("count_failed") + (IF "count_failed" = to THEN 1 ELSE 0) - (IF "count_failed" = from THEN 1 ELSE 0)
    BY <1>2, <1>3 DEF Owing
  <2> QED BY <1>1, <2>1, <2>2 DEF CountersOwed, FailedOwed
<1> QED BY <1>4, <1>5, <1>6, <1>7 DEF CountersOwed

(* The counters stay behind in the steps of workers and reapers ... *)
LEMMA WorkerOwes ==
  ASSUME TypeOK, CountersOwed, WorkerNext, UNCHANGED <<stage, reaper>>
  PROVE  CountersOwed'
<1>1. StoreTypeOK /\ WorkerTypeOK
  BY DEF TypeOK
<1>2. PICK w \in Workers : WorkerBooks(w)
  BY WorkerKeepsBooks
<1>3. PICK to \in WorkerPcs : pc' = [pc EXCEPT ![w] = to] /\ Books(pc[w], to)
  BY <1>2 DEF WorkerBooks
<1>4. Moved(pc[w], to)
  BY <1>1, <1>3, WorkerMoves DEF reaper
<1> QED BY <1>1, <1>3, <1>4, BooksOwe

(* ... those of reapers too ... *)
LEMMA ReaperOwes ==
  ASSUME TypeOK, CountersOwed, ReaperNext, UNCHANGED <<stage, worker>>
  PROVE  CountersOwed'
<1>1. StoreTypeOK /\ ReaperTypeOK
  BY DEF TypeOK
<1>2. PICK r \in Reapers : ReaperBooks(r)
  BY ReaperKeepsBooks
<1>3. PICK to \in ReaperPcs : rpc' = [rpc EXCEPT ![r] = to] /\ Books(rpc[r], to)
  BY <1>2 DEF ReaperBooks
<1>4. Moved(rpc[r], to)
  BY <1>1, <1>3, ReaperMoves DEF worker
<1> QED BY <1>1, <1>3, <1>4, BooksOwe

(* ... and in those of enqueue(), which count a job after they push it. *)
LEMMA ProducerOwes ==
  ASSUME TypeOK, CountersOwed, ProducerNext, UNCHANGED <<worker, reaper>>
  PROVE  CountersOwed'
<1>1. StoreTypeOK /\ stage \in [Jobs -> Stages] /\ stats["submitted"] \in Nat
  BY DEF TypeOK, StoreTypeOK, ProducerTypeOK, Counters
<1>2. PICK j \in Jobs : Enqueue(j) \/ EnqueueFails(j)
  BY DEF ProducerNext
<1> DEFINE A == At(stage, Jobs, "count")
           B == {i \in Jobs : Submitted(i)}
<1>3. IsFiniteSet(Jobs)
  BY JobsAndWorkersAreFinite
<1>4. /\ IsFiniteSet(A) /\ Cardinality(A) \in Nat
      /\ IsFiniteSet(B) /\ Cardinality(B) \in Nat
  <2>1. B \in SUBSET Jobs
    OBVIOUS
  <2> QED BY <1>3, <2>1, AtFinite, FS_Subset, FS_CardinalityType
<1>5. SubmissionsOwed'
  <2>1. CASE SaveQueuedStatus(j)
    <3>1. A' = A /\ B' = B /\ UNCHANGED stats
      BY <1>1, <2>1 DEF SaveQueuedStatus, EnqueueGoto, At, Submitted, Stages
    <3> QED BY <3>1 DEF CountersOwed, SubmissionsOwed
  <2>2. CASE PushNewTask(j)
    <3>1. /\ A' = A \cup {j} /\ B' = B \cup {j} /\ j \notin A /\ j \notin B
          /\ UNCHANGED stats
      BY <1>1, <2>2 DEF PushNewTask, EnqueueGoto, At, Submitted, Stages
    <3>2. Cardinality(A') = Cardinality(A) + 1 /\ Cardinality(B') = Cardinality(B) + 1
      BY <1>4, <3>1, FS_AddElement
    <3> HIDE DEF A, B
    <3>3. stats["submitted"] + Cardinality(A) <= Cardinality(B)
      BY DEF CountersOwed, SubmissionsOwed, A, B
    <3>4. stats'["submitted"] + Cardinality(A') <= Cardinality(B')
      BY <1>1, <1>4, <3>1, <3>2, <3>3
    <3> QED BY <3>4 DEF SubmissionsOwed, A, B
  <2>3. CASE CountSubmitted(j)
    <3>1. /\ A' = A \ {j} /\ B' = B /\ j \in A
          /\ stats'["submitted"] = stats["submitted"] + 1
      BY <1>1, <2>3, IncrementOne
      DEF CountSubmitted, EnqueueGoto, At, Submitted, Stages, Counters
    <3>2. Cardinality(A') = Cardinality(A) - 1
      BY <1>4, <3>1, FS_RemoveElement
    <3> HIDE DEF A, B
    <3>3. stats["submitted"] + Cardinality(A) <= Cardinality(B)
      BY DEF CountersOwed, SubmissionsOwed, A, B
    <3>4. stats'["submitted"] + Cardinality(A') <= Cardinality(B')
      BY <1>1, <1>4, <3>1, <3>2, <3>3
    <3> QED BY <3>4 DEF SubmissionsOwed, A, B
  <2>4. CASE EnqueueFails(j)
    <3>1. B' = B /\ UNCHANGED stats /\ A' \in SUBSET A
      BY <1>1, <2>4 DEF EnqueueFails, EnqueueGoto, At, Submitted, Stages, store
    <3>2. Cardinality(A') <= Cardinality(A) /\ Cardinality(A') \in Nat
      BY <1>4, <3>1, FS_Subset, FS_CardinalityType
    <3> HIDE DEF A, B
    <3>3. stats["submitted"] + Cardinality(A) <= Cardinality(B)
      BY DEF CountersOwed, SubmissionsOwed, A, B
    <3>4. stats'["submitted"] + Cardinality(A') <= Cardinality(B')
      BY <1>1, <1>4, <3>1, <3>2, <3>3
    <3> QED BY <3>4 DEF SubmissionsOwed, A, B
  <2> QED BY <1>2, <2>1, <2>2, <2>3, <2>4 DEF Enqueue
<1>6. /\ UNCHANGED <<pc, rpc, deadLetter>>
      /\ \A c \in Counters \ {"submitted"} : stats'[c] = stats[c]
  BY <1>1, <1>2, IncrementOne
  DEF worker, reaper, Enqueue, SaveQueuedStatus, PushNewTask, CountSubmitted,
      EnqueueFails, store, Counters
<1>7. WaitsOwed' /\ DeadOwed' /\ FailedOwed'
  BY <1>6 DEF CountersOwed, WaitsOwed, DeadOwed, FailedOwed, Due, Counters
<1> QED BY <1>5, <1>7 DEF CountersOwed

(* At first nothing is counted, and nobody stands anywhere. *)
LEMMA CountersOwedInit == Init => CountersOwed
<1> SUFFICES ASSUME Init PROVE CountersOwed
  OBVIOUS
<1>1. /\ At(stage, Jobs, "count") = {} /\ {j \in Jobs : Submitted(j)} = {}
      /\ \A x \in Owing : At(pc, Workers, x) = {} /\ At(rpc, Reapers, x) = {}
  BY DEF Init, ProducerInit, WorkerInit, ReaperInit, At, Owing, Submitted
<1>2. Cardinality({}) = 0
  BY FS_EmptySet
<1>3. /\ Due("observe_wait") = 0 /\ Due("count_dead") = 0
      /\ Due("count_failed") = 0
  BY <1>1, <1>2 DEF Due, Owing
<1>4. /\ stats["submitted"] = 0 /\ stats["waits"] = 0 /\ stats["attempts"] = 0
      /\ stats["dead_lettered"] = 0 /\ stats["failed"] = 0 /\ Len(deadLetter) = 0
  BY DEF Init, StoreInit, Counters
<1>5. SubmissionsOwed
  <2>1. /\ Cardinality(At(stage, Jobs, "count")) = 0
        /\ Cardinality({j \in Jobs : Submitted(j)}) = 0
    BY <1>1, <1>2
  <2> QED BY <1>4, <2>1 DEF SubmissionsOwed
<1>6. WaitsOwed /\ DeadOwed /\ FailedOwed
  BY <1>3, <1>4 DEF WaitsOwed, DeadOwed, FailedOwed
<1> QED BY <1>5, <1>6 DEF CountersOwed

(* Every step of the queue leaves the counters behind. *)
LEMMA CountersOwedStep == TypeOK /\ CountersOwed /\ [Next]_vars => CountersOwed'
<1>1. ASSUME CountersOwed, UNCHANGED vars PROVE CountersOwed'
  BY <1>1 DEF vars, store, worker, reaper, CountersOwed, SubmissionsOwed, WaitsOwed,
              DeadOwed, FailedOwed, Due, Submitted
<1> QED BY <1>1, WorkerOwes, ReaperOwes, ProducerOwes DEF Next

(* A counter that is behind by what is owed is behind. *)
LEMMA OwedLag == TypeOK /\ CountersOwed => CountersLag
<1> SUFFICES ASSUME TypeOK, CountersOwed PROVE CountersLag
  OBVIOUS
<1>1. /\ stats["submitted"] \in Nat /\ stats["waits"] \in Nat
      /\ stats["attempts"] \in Nat /\ stats["dead_lettered"] \in Nat
      /\ stats["failed"] \in Nat /\ Len(deadLetter) \in Nat
  BY DEF TypeOK, StoreTypeOK, Counters
<1>2. /\ Cardinality(At(stage, Jobs, "count")) \in Nat
      /\ Cardinality({j \in Jobs : Submitted(j)}) \in Nat
  <2>1. {j \in Jobs : Submitted(j)} \in SUBSET Jobs
    OBVIOUS
  <2> QED BY <2>1, AtFinite, JobsAndWorkersAreFinite, FS_Subset, FS_CardinalityType
<1>3. /\ Due("observe_wait") \in Nat /\ Due("count_dead") \in Nat
      /\ Due("count_failed") \in Nat
  BY DueType DEF Owing
<1>4. stats["submitted"] <= Cardinality({j \in Jobs : Submitted(j)})
  BY <1>1, <1>2 DEF CountersOwed, SubmissionsOwed
<1>5. /\ stats["waits"] <= stats["attempts"]
      /\ stats["dead_lettered"] <= stats["failed"]
      /\ stats["failed"] <= Len(deadLetter)
  BY <1>1, <1>3 DEF CountersOwed, WaitsOwed, DeadOwed, FailedOwed
<1> QED BY <1>4, <1>5 DEF CountersLag

(***************************************************************************)
(* Submissions, waits, dead-lettered and failed jobs are never counted     *)
(* ahead of the jobs submitted, the attempts and failures counted and the  *)
(* letters in the list, for any number of processes that die or fail       *)
(* between a write and its count.                                          *)
(***************************************************************************)
THEOREM CountersBehind == Spec => []CountersLag
<1> QED BY TypeCorrect, CountersOwedInit, CountersOwedStep, OwedLag, PTL DEF Spec

----------------------------------------------------------------------------
(* What a snapshot shows *)

(* A histogram that Prometheus accepts, and its count. *)
Cumulative(bins, count) ==
  /\ count \in Nat
  /\ \A b \in Bounds :
       /\ bins[b] \in Nat
       /\ bins[b] <= count
       /\ \A c \in Bounds : b <= c => bins[b] <= bins[c]

(* The histograms in Redis are cumulative after every MULTI. *)
LiveCumulative ==
  /\ buckets \in [Histograms -> [Bounds -> Nat]]
  /\ \A h \in Histograms : Cumulative(buckets[h], stats[h])

(* The fields of a snapshot that its invariants look at. *)
ScrapeTypeOK ==
  /\ scrape.stats = [c \in DOMAIN scrape.stats |-> scrape.stats[c]]
  /\ DOMAIN scrape.stats \subseteq Counters
  /\ \A c \in DOMAIN scrape.stats : scrape.stats[c] \in Nat
  /\ scrape.dead \in Nat
  /\ scrape.histograms \in [Histograms -> [Bounds -> Nat]]
  /\ scrape = [at |-> scrape.at, stats |-> scrape.stats, pending |-> scrape.pending,
               processing |-> scrape.processing, dead |-> scrape.dead,
               histograms |-> scrape.histograms]

CountersRead ==
  scrape.at \in {"pending", "processing", "dead", "waits", "inferences", "collect"}

(***************************************************************************)
(* The inductive part of DeadLettersShown and BucketsCumulative: what has  *)
(* been read so far is in order, and the list of dead letters, which is    *)
(* read after its counters, is at least as long as they say.               *)
(***************************************************************************)
PageOK ==
  /\ CountersRead =>
       /\ {"failed", "dead_lettered"} \subseteq DOMAIN scrape.stats
       /\ scrape.stats["dead_lettered"] <= scrape.stats["failed"]
       /\ scrape.stats["failed"] <= Len(deadLetter)
  /\ LengthsRead => scrape.stats["failed"] <= scrape.dead
  /\ scrape.at \in {"inferences", "collect"} =>
       /\ "waits" \in DOMAIN scrape.stats
       /\ Cumulative(scrape.histograms["waits"], scrape.stats["waits"])
  /\ scrape.at = "collect" =>
       /\ "inferences" \in DOMAIN scrape.stats
       /\ Cumulative(scrape.histograms["inferences"], scrape.stats["inferences"])

MetricsInv == LiveCumulative /\ ScrapeTypeOK /\ PageOK

(* A step of the queue counts at most one of everything, and takes no dead  *)
(* letter back.                                                             *)
LEMMA QueueCounts ==
  ASSUME TypeOK, Next
  PROVE  /\ \A c \in Counters : stats'[c] = stats[c] \/ stats'[c] = stats[c] + 1
         /\ Len(deadLetter') \in Nat /\ Len(deadLetter) <= Len(deadLetter')
<1>1. StoreTypeOK /\ deadLetter \in Seq(DeadLetter) /\ Len(deadLetter) \in Nat
  BY DEF TypeOK, StoreTypeOK
<1>2. ASSUME NEW from, NEW to, Books(from, to)
      PROVE  /\ \A c \in Counters : stats'[c] = stats[c] \/ stats'[c] = stats[c] + 1
             /\ Len(deadLetter') \in Nat /\ Len(deadLetter) <= Len(deadLetter')
  <2>1. UNCHANGED stats \/ \E c \in Counters : Increment(c)
    BY <1>2 DEF Books, Counters
  <2>2. UNCHANGED deadLetter \/ \E d \in DeadLetter : deadLetter' = Append(deadLetter, d)
    BY <1>2 DEF Books
  <2> QED BY <1>1, <2>1, <2>2, IncrementOne
<1>3. CASE WorkerNext
  BY <1>2, <1>3, WorkerKeepsBooks DEF WorkerBooks
<1>4. CASE ReaperNext
  BY <1>2, <1>4, ReaperKeepsBooks DEF ReaperBooks
<1>5. CASE ProducerNext
  <2>1. UNCHANGED deadLetter /\ (UNCHANGED stats \/ Increment("submitted"))
    BY <1>5 DEF ProducerNext, Enqueue, SaveQueuedStatus, PushNewTask, CountSubmitted,
                EnqueueFails, store
  <2> QED BY <1>1, <2>1, IncrementOne DEF Counters
<1> QED BY <1>3, <1>4, <1>5 DEF Next

(* What is observed goes into every bucket it fits in, and is counted. *)
LEMMA ObservedCumulative ==
  ASSUME NEW h \in Histograms, NEW v \in Durations, LiveCumulative
  PROVE  /\ Observed(h, v) \in [Bounds -> Nat]
         /\ Cumulative(Observed(h, v), stats[h] + 1)
<1>1. /\ Bounds \subseteq Nat /\ v \in Nat
      /\ buckets[h] \in [Bounds -> Nat] /\ stats[h] \in Nat
      /\ Cumulative(buckets[h], stats[h])
  BY BoundsAreNaturals DEF LiveCumulative, Cumulative
<1>2. \A b \in Bounds : Observed(h, v)[b] = IF v <= b THEN buckets[h][b] + 1 ELSE buckets[h][b]
  BY DEF Observed
<1>3. Observed(h, v) \in [Bounds -> Nat]
  BY <1>1 DEF Observed
<1>4. ASSUME NEW b \in Bounds
      PROVE  Observed(h, v)[b] <= stats[h] + 1
  BY <1>1, <1>2, <1>4 DEF Cumulative
<1>5. ASSUME NEW b \in Bounds, NEW c \in Bounds, b <= c
      PROVE  Observed(h, v)[b] <= Observed(h, v)[c]
  <2>1. /\ buckets[h][b] \in Nat /\ buckets[h][c] \in Nat
        /\ buckets[h][b] <= buckets[h][c]
    BY <1>1, <1>5 DEF Cumulative
  <2>2. v <= b => v <= c
    BY <1>1, <1>5
  <2> QED BY <1>2, <2>1, <2>2
<1> QED BY <1>1, <1>3, <1>4, <1>5 DEF Cumulative

(* Every step of the queue leaves the histograms in Redis cumulative, *)
LEMMA ObserveKeepsLive ==
  ASSUME TypeOK, LiveCumulative, Next, Observe
  PROVE  LiveCumulative'
<1>1. PICK v \in Durations :
        buckets' = [h \in Histograms |->
                      IF stats'[h] = stats[h] THEN buckets[h] ELSE Observed(h, v)]
  BY DEF Observe
<1>2. \A h \in Histograms : stats'[h] = stats[h] \/ stats'[h] = stats[h] + 1
  BY QueueCounts DEF Histograms, Counters
<1>3. ASSUME NEW h \in Histograms
      PROVE  buckets'[h] \in [Bounds -> Nat] /\ Cumulative(buckets'[h], stats'[h])
  <2>1. CASE stats'[h] = stats[h]
    BY <1>1, <1>3, <2>1 DEF LiveCumulative
  <2>2. CASE stats'[h] # stats[h]
    <3>1. buckets'[h] = Observed(h, v) /\ stats'[h] = stats[h] + 1
      BY <1>1, <1>2, <1>3, <2>2
    <3> QED BY <1>3, <3>1, ObservedCumulative
  <2> QED BY <2>1, <2>2
<1> QED BY <1>1, <1>3 DEF LiveCumulative, Cumulative

(* and the snapshot in order. *)
LEMMA QueueKeepsPage ==
  ASSUME TypeOK, ScrapeTypeOK, PageOK, Next, UNCHANGED scrape
  PROVE  ScrapeTypeOK' /\ PageOK'
<1>1. ScrapeTypeOK'
  BY DEF ScrapeTypeOK
<1>2. /\ Len(deadLetter) \in Nat /\ Len(deadLetter') \in Nat
      /\ Len(deadLetter) <= Len(deadLetter')
  BY QueueCounts DEF TypeOK, StoreTypeOK
<1>3. CountersRead => scrape.stats["failed"] <= Len(deadLetter')
  <2>1. CountersRead => scrape.stats["failed"] \in Nat
    BY DEF ScrapeTypeOK, PageOK
  <2> QED BY <1>2, <2>1 DEF PageOK
<1> QED BY <1>1, <1>3 DEF PageOK, CountersRead, LengthsRead, Cumulative

(* A step of the reader keeps the snapshot in order. *)
LEMMA ReaderKeepsPage ==
  ASSUME TypeOK, CountersLag, MetricsInv, Scrape \/ AnswerStats \/ ScrapeFails,
         UNCHANGED vars
  PROVE  MetricsInv'
<1>1. /\ stats \in [Counters -> Nat] /\ Len(deadLetter) \in Nat
      /\ UNCHANGED <<stats, deadLetter, buckets>>
  BY DEF TypeOK, StoreTypeOK, vars, store, Scrape, ReadCounters, ReadPending,
         ReadProcessing, ReadDeadLetters, ReadHistogram, Collect, AnswerStats,
         ScrapeFails, Read
<1>2. LiveCumulative'
  BY <1>1 DEF MetricsInv, LiveCumulative, Cumulative
<1>3. ScrapeTypeOK /\ PageOK
  BY DEF MetricsInv
<1>4. CASE ReadCounters
  <2>1. /\ scrape'.at = "pending"
        /\ scrape'.stats = [c \in Counters \ Histograms |-> stats[c]]
        /\ scrape'.dead = scrape.dead /\ scrape'.histograms = scrape.histograms
        /\ scrape' = [at |-> scrape'.at, stats |-> scrape'.stats,
                      pending |-> scrape'.pending, processing |-> scrape'.processing,
                      dead |-> scrape'.dead, histograms |-> scrape'.histograms]
    BY <1>3, <1>4 DEF ReadCounters, Read, ScrapeTypeOK
  <2>2. ScrapeTypeOK'
    BY <1>1, <1>3, <2>1 DEF ScrapeTypeOK
  <2>3. /\ {"failed", "dead_lettered"} \subseteq DOMAIN scrape'.stats
        /\ scrape'.stats["dead_lettered"] = stats["dead_lettered"]
        /\ scrape'.stats["failed"] = stats["failed"]
    BY <2>1 DEF Counters, Histograms
  <2>4. PageOK'
    BY <1>1, <2>1, <2>3 DEF CountersLag, PageOK, CountersRead, LengthsRead
  <2> QED BY <1>2, <2>2, <2>4 DEF MetricsInv
<1>5. CASE ReadPending \/ ReadProcessing
  <2>1. /\ \/ scrape.at = "pending" /\ scrape'.at = "processing"
           \/ scrape.at = "processing" /\ scrape'.at = "dead"
        /\ scrape'.stats = scrape.stats
        /\ scrape'.dead = scrape.dead /\ scrape'.histograms = scrape.histograms
        /\ scrape' = [at |-> scrape'.at, stats |-> scrape'.stats,
                      pending |-> scrape'.pending, processing |-> scrape'.processing,
                      dead |-> scrape'.dead, histograms |-> scrape'.histograms]
    BY <1>3, <1>5 DEF ReadPending, ReadProcessing, Read, ScrapeTypeOK
  <2>2. ScrapeTypeOK'
    BY <1>3, <2>1 DEF ScrapeTypeOK
  <2>3. PageOK'
    BY <1>1, <1>3, <2>1 DEF PageOK, CountersRead, LengthsRead
  <2> QED BY <1>2, <2>2, <2>3 DEF MetricsInv
<1>6. CASE ReadDeadLetters
  <2>1. /\ scrape.at = "dead" /\ scrape'.at = "waits"
        /\ scrape'.stats = scrape.stats
        /\ scrape'.dead = Len(deadLetter) /\ scrape'.histograms = scrape.histograms
        /\ scrape' = [at |-> scrape'.at, stats |-> scrape'.stats,
                      pending |-> scrape'.pending, processing |-> scrape'.processing,
                      dead |-> scrape'.dead, histograms |-> scrape'.histograms]
    BY <1>3, <1>6 DEF ReadDeadLetters, Read, ScrapeTypeOK
  <2>2. ScrapeTypeOK'
    BY <1>1, <1>3, <2>1 DEF ScrapeTypeOK
  <2>3. PageOK'
    BY <1>1, <1>3, <2>1 DEF PageOK, CountersRead, LengthsRead
  <2> QED BY <1>2, <2>2, <2>3 DEF MetricsInv
<1>7. ASSUME NEW h \in Histograms, NEW to, ReadHistogram(h, to),
             \/ h = "waits" /\ to = "inferences"
             \/ h = "inferences" /\ to = "collect"
      PROVE  MetricsInv'
  <2>1. /\ scrape.at = h /\ scrape'.at = to
        /\ scrape'.stats = [c \in DOMAIN scrape.stats \cup {h} |->
                              IF c = h THEN stats[h] ELSE scrape.stats[c]]
        /\ scrape'.dead = scrape.dead
        /\ scrape'.histograms = [scrape.histograms EXCEPT ![h] = buckets[h]]
        /\ scrape' = [at |-> scrape'.at, stats |-> scrape'.stats,
                      pending |-> scrape'.pending, processing |-> scrape'.processing,
                      dead |-> scrape'.dead, histograms |-> scrape'.histograms]
    BY <1>3, <1>7 DEF ReadHistogram, Read, ScrapeTypeOK
  <2>2. /\ h \in Counters /\ h \notin {"failed", "dead_lettered"}
        /\ buckets[h] \in [Bounds -> Nat] /\ Cumulative(buckets[h], stats[h])
    BY <1>7 DEF MetricsInv, LiveCumulative, Counters, Histograms
  <2>3. ScrapeTypeOK'
    BY <1>1, <1>3, <1>7, <2>1, <2>2 DEF ScrapeTypeOK
  <2>4. /\ h \in DOMAIN scrape'.stats
        /\ Cumulative(scrape'.histograms[h], scrape'.stats[h])
        /\ \A c \in DOMAIN scrape.stats :
             c \in DOMAIN scrape'.stats /\ (c # h => scrape'.stats[c] = scrape.stats[c])
        /\ \A g \in Histograms :
             g # h => scrape'.histograms[g] = scrape.histograms[g]
    BY <1>3, <1>7, <2>1, <2>2 DEF ScrapeTypeOK
  <2>5. PageOK'
    BY <1>1, <1>3, <1>7, <2>1, <2>2, <2>4
    DEF PageOK, CountersRead, LengthsRead, Cumulative, Histograms
  <2> QED BY <1>2, <2>3, <2>5 DEF MetricsInv
<1>8. CASE Collect \/ AnswerStats \/ ScrapeFails
  <2>1. scrape' = [Blank EXCEPT !.at = "idle"] \/ scrape' = [Blank EXCEPT !.at = "down"]
    BY <1>8 DEF Collect, AnswerStats, ScrapeFails, Read
  <2>2. ScrapeTypeOK'
    BY <2>1 DEF ScrapeTypeOK, Blank
  <2>3. PageOK'
    BY <2>1 DEF PageOK, CountersRead, LengthsRead, Blank
  <2> QED BY <1>2, <2>2, <2>3 DEF MetricsInv
<1> QED
  BY <1>4, <1>5, <1>6, <1>7, <1>8 DEF Scrape, Histograms

(* At first nothing is observed, and nobody reads. *)
LEMMA MetricsInvInit == MetricsInit => MetricsInv
<1> SUFFICES ASSUME MetricsInit PROVE MetricsInv
  OBVIOUS
<1>1. LiveCumulative
  BY DEF MetricsInit, Init, StoreInit, LiveCumulative, Cumulative, Histograms, Counters
<1>2. ScrapeTypeOK /\ PageOK
  BY DEF MetricsInit, Blank, ScrapeTypeOK, PageOK, CountersRead, LengthsRead
<1> QED BY <1>1, <1>2 DEF MetricsInv

(* Every step keeps the inductive invariant. *)
LEMMA MetricsInvStep ==
  TypeOK /\ CountersLag /\ MetricsInv /\ [MetricsNext]_metricsVars => MetricsInv'
<1>1. ASSUME TypeOK, MetricsInv, Next, Observe, UNCHANGED scrape
      PROVE  MetricsInv'
  BY <1>1, ObserveKeepsLive, QueueKeepsPage DEF MetricsInv
<1>2. ASSUME MetricsInv, UNCHANGED metricsVars
      PROVE  MetricsInv'
  BY <1>2 DEF metricsVars, metrics, store, MetricsInv, LiveCumulative, Cumulative,
              ScrapeTypeOK, PageOK, CountersRead, LengthsRead
<1> QED BY <1>1, <1>2, ReaderKeepsPage DEF MetricsNext

(* A queue that is scraped is a queue. *)
LEMMA ScrapedQueue == MetricsSpec => Spec
<1>1. MetricsInit => Init
  BY DEF MetricsInit
<1>2. [MetricsNext]_metricsVars => [Next]_vars
  BY DEF MetricsNext, metricsVars, vars
<1> QED BY <1>1, <1>2, PTL DEF MetricsSpec, Spec

(* So it holds in every state. *)
LEMMA MetricsAlways == MetricsSpec => []MetricsInv
<1>1. MetricsSpec => []TypeOK /\ []CountersLag
  BY ScrapedQueue, TypeCorrect, CountersBehind, PTL
<1> QED BY <1>1, MetricsInvInit, MetricsInvStep, PTL DEF MetricsSpec

(***************************************************************************)
(* However the six commands of a snapshot are torn apart by workers and    *)
(* reapers, crashes and failing calls, it shows every dead letter that it  *)
(* counts.                                                                 *)
(***************************************************************************)
THEOREM CountedLettersShown == MetricsSpec => []DeadLettersShown
<1>1. MetricsInv => DeadLettersShown
  BY DEF MetricsInv, PageOK, DeadLettersShown, LengthsRead, CountersRead
<1> QED BY <1>1, MetricsAlways, PTL

(***************************************************************************)
(* The histograms of every page are cumulative, for any bounds and any     *)
(* durations.                                                              *)
(***************************************************************************)
THEOREM PagesCumulative == MetricsSpec => []BucketsCumulative
<1>1. MetricsInv => BucketsCumulative
  BY DEF MetricsInv, PageOK, BucketsCumulative, Cumulative, Histograms
<1> QED BY <1>1, MetricsAlways, PTL

============================================================================
