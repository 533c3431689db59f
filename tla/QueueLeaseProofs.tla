-------------------------- MODULE QueueLeaseProofs --------------------------
(***************************************************************************)
(* Who holds which payload: no two payloads in the lists are the same      *)
(* text, and, when no claim expires early, a job has one copy and one      *)
(* worker, is settled for good once it has no copy, is not out of the      *)
(* reaper's sight, is under a lease (JobLease) if no Redis call fails, and *)
(* has no more turns than its budgets allow.  Lemmas and theorems for      *)
(* ReliableQueue.                                                          *)
(***************************************************************************)
EXTENDS ReliableQueueProofs, FiniteSetTheorems

----------------------------------------------------------------------------
(* What tells payloads apart: the created_at that every push but that of   *)
(* the reaper renews, or the job alone.                                     *)
Stamp == [p \in Payload |-> <<p.job, p.created>>]
JobOf == [p \in Payload |-> p.job]

(* The elements of a list are told apart by f. *)
Apart(s, f) == \A i, k \in DOMAIN s : i # k => f[s[i]] # f[s[k]]

(* No element of S is like e. *)
NoneLike(S, f, e) == \A p \in S : f[p] # f[e]

ListsApart(f) ==
  /\ Apart(tasks, f)
  /\ Apart(processing, f)
  /\ \A p \in Range(tasks) : NoneLike(Range(processing), f, p)

(* What the claims hash and the snapshots of the reapers remember. *)
Claimed ==
  {claims[j].payload : j \in {i \in Jobs : claims[i] # NoClaim}} \cup
  {c.payload : c \in UNION {snapshot[r] : r \in Reapers}}

Tasked == {task[w] : w \in {v \in Workers : pc[v] # "idle"}}

(* No payload has a stamp that is still to be given. *)
StampsGiven ==
  \A p \in Copies \cup Claimed \cup Tasked : p.created <= clock[p.job]

(***************************************************************************)
(* The inductive part of PayloadsDistinct: one stamp, one copy.            *)
(***************************************************************************)
StampInv == ListsApart(Stamp) /\ StampsGiven

(* A worker that may still put its job back into the queue: it executes it, *)
(* or its last counter may raise.                                           *)
Responsible(w) == Executing(w) \/ pc[w] = "count_completed"

(* The lists hold nothing of the job of a responsible worker but its        *)
(* payload, which it remembers, and which is in processing.                 *)
OwnCopy(w) ==
  \A p \in Copies :
    p.job = task[w].job =>
      /\ p \in Range(processing) /\ p = task[w]
      /\ remembered[w] /\ pc[w] # "count_completed"

OwnCopies == \A w \in Workers : Responsible(w) => OwnCopy(w)

OwnerAlone ==
  \A v, w \in Workers :
    Responsible(v) /\ Responsible(w) /\ task[v].job = task[w].job => v = w

(* A claim is older than the copies of its payload: it is that of a payload *)
(* that was taken from tasks, and has at most been recovered since.         *)
ClaimsOlder ==
  \A c \in Claimed :
    /\ \A p \in Range(tasks) : Stamp[p] = Stamp[c] => c.recoveries < p.recoveries
    /\ \A p \in Range(processing) : Stamp[p] = Stamp[c] => c.recoveries <= p.recoveries

(* A scanned claim is not that of a payload someone works on. *)
ScannedIdle ==
  \A r \in Reapers : \A c \in snapshot[r] : \A w \in Workers :
    Responsible(w) /\ task[w] = c.payload => c.payload \notin Range(processing)

(* What is being worked on has not been acknowledged. *)
Working(w) ==
  pc[w] \in {"record_claim", "mark_started", "save_processing", "count_attempt",
             "observe_wait", "generate"}

WorkedHeld == \A w \in Workers : Working(w) => task[w] \in Range(processing)

(* What is in processing has its claim, or its worker is about to write it. *)
HasClaim(p) == claims[p.job] # NoClaim /\ claims[p.job].payload = p

Claiming(w) == pc[w] = "record_claim"

ProcessingClaimed ==
  \A p \in Range(processing) :
    HasClaim(p) \/ \E w \in Workers : Claiming(w) /\ task[w] = p

(***************************************************************************)
(* The inductive part of SingleCopy and OneExecutor, when no claim expires *)
(* before its worker has stopped.                                          *)
(***************************************************************************)
LeaseInv ==
  /\ ListsApart(JobOf)
  /\ OwnCopies
  /\ OwnerAlone
  /\ ClaimsOlder
  /\ ScannedIdle

----------------------------------------------------------------------------
(* What the list commands do to a list whose elements are told apart *)

(* One that is like none before it may be appended. *)
LEMMA AppendApart ==
  ASSUME NEW s \in Seq(Payload), NEW e \in Payload, NEW f, Apart(s, f),
         NoneLike(Range(s), f, e)
  PROVE  Apart(Append(s, e), f)
<1> DEFINE t == Append(s, e)
<1>1. /\ Len(t) = Len(s) + 1 /\ DOMAIN t = 1..Len(s) + 1 /\ DOMAIN s = 1..Len(s)
      /\ \A i \in 1..Len(s) : t[i] = s[i]
      /\ t[Len(s) + 1] = e
  OBVIOUS
<1> HIDE DEF t
<1>2. \A i \in 1..Len(s) : f[s[i]] # f[e]
  BY DEF NoneLike, Range
<1>3. ASSUME NEW i \in DOMAIN t, NEW k \in DOMAIN t, i # k PROVE f[t[i]] # f[t[k]]
  <2>1. CASE i \in 1..Len(s) /\ k \in 1..Len(s)
    BY <1>1, <1>3, <2>1 DEF Apart
  <2>2. CASE i = Len(s) + 1
    BY <1>1, <1>2, <1>3, <2>2
  <2>3. CASE k = Len(s) + 1
    BY <1>1, <1>2, <1>3, <2>3
  <2> QED BY <1>1, <2>1, <2>2, <2>3
<1> QED BY <1>3 DEF Apart, t

(* The head of such a list is like none of the rest. *)
LEMMA TailApart ==
  ASSUME NEW s \in Seq(Payload), s # <<>>, NEW f, Apart(s, f)
  PROVE  Apart(Tail(s), f) /\ NoneLike(Range(Tail(s)), f, Head(s))
<1> DEFINE t == Tail(s)
<1>1. /\ Len(s) \in Nat \ {0} /\ DOMAIN t = 1..Len(s) - 1 /\ DOMAIN s = 1..Len(s)
      /\ \A i \in 1..Len(s) - 1 : t[i] = s[i + 1]
      /\ Head(s) = s[1]
  OBVIOUS
<1> HIDE DEF t
<1>2. ASSUME NEW i \in DOMAIN t, NEW k \in DOMAIN t, i # k PROVE f[t[i]] # f[t[k]]
  <2>1. i + 1 \in DOMAIN s /\ k + 1 \in DOMAIN s /\ i + 1 # k + 1
    BY <1>1, <1>2
  <2> QED BY <1>1, <1>2, <2>1 DEF Apart
<1>3. ASSUME NEW i \in DOMAIN t PROVE f[t[i]] # f[s[1]]
  <2>1. i + 1 \in DOMAIN s /\ 1 \in DOMAIN s /\ i + 1 # 1
    BY <1>1, <1>3
  <2> QED BY <1>1, <1>3, <2>1 DEF Apart
<1> QED BY <1>1, <1>2, <1>3 DEF Apart, NoneLike, Range, t

(* What LREM removes is like nothing it leaves. *)
LEMMA RemoveFirstApart ==
  ASSUME NEW s \in Seq(Payload), NEW e, NEW f, Apart(s, f)
  PROVE  /\ Apart(RemoveFirst(s, e), f)
         /\ e \in Range(s) => NoneLike(Range(RemoveFirst(s, e)), f, e)
<1>1. CASE e \notin Range(s)
  <2>1. ~ \E i \in 1..Len(s) : s[i] = e
    BY <1>1 DEF Range
  <2> QED BY <1>1, <2>1 DEF RemoveFirst
<1>2. CASE e \in Range(s)
  <2> DEFINE r == RemoveFirst(s, e)
  <2>1. PICK m \in 1..Len(s) : s[m] = e /\ r = RemoveAt(s, m)
    BY <1>2, RemoveFirstElements
  <2> HIDE DEF r
  <2>2. /\ r \in Seq(Payload) /\ Len(r) = Len(s) - 1
        /\ \A i \in 1..Len(s) - 1 : r[i] = IF i < m THEN s[i] ELSE s[i + 1]
    BY <2>1, RemoveAtElements
  <2> DEFINE from(i) == IF i < m THEN i ELSE i + 1
  <2>3. /\ DOMAIN r = 1..Len(s) - 1 /\ DOMAIN s = 1..Len(s)
        /\ \A i \in DOMAIN r : from(i) \in DOMAIN s /\ from(i) # m /\ r[i] = s[from(i)]
        /\ \A i, k \in DOMAIN r : i # k => from(i) # from(k)
    BY <2>1, <2>2
  <2> HIDE DEF from
  <2>4. Apart(r, f)
    BY <2>3 DEF Apart
  <2>5. \A i \in DOMAIN r : f[r[i]] # f[e]
    BY <2>1, <2>3 DEF Apart
  <2> QED BY <2>4, <2>5 DEF NoneLike, Range, r
<1> QED BY <1>1, <1>2

(* No two elements that are told apart are equal. *)
LEMMA ApartDistinct ==
  ASSUME TypeOK, NEW f, ListsApart(f)
  PROVE  PayloadsDistinct
<1>1. tasks \in Seq(Payload) /\ processing \in Seq(Payload)
  BY DEF TypeOK, StoreTypeOK
<1> DEFINE l == tasks \o processing
<1>2. /\ DOMAIN l = 1..Len(tasks) + Len(processing)
      /\ Len(tasks) \in Nat /\ Len(processing) \in Nat
      /\ DOMAIN tasks = 1..Len(tasks) /\ DOMAIN processing = 1..Len(processing)
      /\ \A i \in 1..Len(tasks) + Len(processing) :
           l[i] = IF i <= Len(tasks) THEN tasks[i] ELSE processing[i - Len(tasks)]
  BY <1>1
<1> HIDE DEF l
<1>3. \A i \in DOMAIN tasks, k \in DOMAIN processing : f[tasks[i]] # f[processing[k]]
  BY DEF ListsApart, NoneLike, Range
<1>4. ASSUME NEW i \in DOMAIN l, NEW k \in DOMAIN l, i # k PROVE l[i] # l[k]
  <2>1. CASE i <= Len(tasks) /\ k <= Len(tasks)
    <3>1. i \in DOMAIN tasks /\ k \in DOMAIN tasks
      BY <1>2, <1>4, <2>1
    <3> QED BY <1>2, <1>4, <2>1, <3>1 DEF ListsApart, Apart
  <2>2. CASE i <= Len(tasks) /\ ~(k <= Len(tasks))
    <3>1. i \in DOMAIN tasks /\ k - Len(tasks) \in DOMAIN processing
      BY <1>2, <1>4, <2>2
    <3> QED BY <1>2, <1>3, <1>4, <2>2, <3>1
  <2>3. CASE ~(i <= Len(tasks)) /\ k <= Len(tasks)
    <3>1. k \in DOMAIN tasks /\ i - Len(tasks) \in DOMAIN processing
      BY <1>2, <1>4, <2>3
    <3> QED BY <1>2, <1>3, <1>4, <2>3, <3>1
  <2>4. CASE ~(i <= Len(tasks)) /\ ~(k <= Len(tasks))
    <3>1. /\ i - Len(tasks) \in DOMAIN processing /\ k - Len(tasks) \in DOMAIN processing
          /\ i - Len(tasks) # k - Len(tasks)
      BY <1>2, <1>4, <2>4
    <3> QED BY <1>2, <1>4, <2>4, <3>1 DEF ListsApart, Apart
  <2> QED BY <2>1, <2>2, <2>3, <2>4
<1> QED BY <1>4 DEF PayloadsDistinct, IsInjective, l

----------------------------------------------------------------------------
(* What steps do to the lists and to what is remembered *)

(* A list may lose an element, and one that is like none may be pushed. *)
LEMMA ListsStayApart ==
  ASSUME TypeOK, NEW f, ListsApart(f),
         UNCHANGED processing \/ \E p : RemoveProcessing(p),
         \/ UNCHANGED tasks
         \/ \E q \in Payload :
              /\ tasks' = Append(tasks, q)
              /\ NoneLike(Range(tasks) \cup Range(processing'), f, q)
  PROVE  ListsApart(f)'
<1>1. /\ StoreTypeOK /\ tasks \in Seq(Payload) /\ processing \in Seq(Payload)
      /\ Apart(tasks, f) /\ Apart(processing, f)
      /\ \A p \in Range(tasks) : NoneLike(Range(processing), f, p)
  BY DEF TypeOK, StoreTypeOK, ListsApart
<1>2. Apart(processing', f) /\ Range(processing') \subseteq Range(processing)
  <2>1. ASSUME NEW p, RemoveProcessing(p)
        PROVE  Apart(processing', f) /\ Range(processing') \subseteq Range(processing)
    BY <1>1, <2>1, RemoveProcessingEffect, RemoveFirstApart DEF RemoveProcessing
  <2> QED BY <1>1, <2>1
<1>3. CASE UNCHANGED tasks
  BY <1>1, <1>2, <1>3 DEF ListsApart, NoneLike
<1>4. ASSUME NEW q \in Payload, tasks' = Append(tasks, q),
             NoneLike(Range(tasks) \cup Range(processing'), f, q)
      PROVE  ListsApart(f)'
  <2>1. Apart(tasks', f) /\ Range(tasks') = Range(tasks) \cup {q}
    <3>1. NoneLike(Range(tasks), f, q)
      BY <1>4 DEF NoneLike
    <3> QED BY <1>1, <1>4, <3>1, AppendApart, AppendRange
  <2>2. NoneLike(Range(processing'), f, q)
    BY <1>4 DEF NoneLike
  <2> QED BY <1>1, <1>2, <2>1, <2>2 DEF ListsApart, NoneLike
<1> QED BY <1>3, <1>4

(* BLMOVE keeps them apart too. *)
LEMMA DequeueApart ==
  ASSUME TypeOK, NEW f, ListsApart(f), NEW w, Dequeue(w)
  PROVE  ListsApart(f)'
<1>1. /\ tasks \in Seq(Payload) /\ processing \in Seq(Payload) /\ tasks # <<>>
      /\ tasks' = Tail(tasks) /\ processing' = Append(processing, Head(tasks))
      /\ Apart(tasks, f) /\ Apart(processing, f)
      /\ \A p \in Range(tasks) : NoneLike(Range(processing), f, p)
  BY DEF TypeOK, StoreTypeOK, Dequeue, ListsApart
<1>2. /\ Head(tasks) \in Payload
      /\ Range(tasks) = Range(Tail(tasks)) \cup {Head(tasks)}
      /\ Apart(Tail(tasks), f) /\ NoneLike(Range(Tail(tasks)), f, Head(tasks))
  BY <1>1, TailRange, TailApart
<1>3. NoneLike(Range(processing), f, Head(tasks))
  BY <1>1, <1>2
<1>4. /\ Apart(processing', f)
      /\ Range(processing') = Range(processing) \cup {Head(tasks)}
  BY <1>1, <1>2, <1>3, AppendApart, AppendRange
<1>5. \A p \in Range(tasks') : NoneLike(Range(processing'), f, p)
  BY <1>1, <1>2, <1>4 DEF NoneLike
<1> QED BY <1>1, <1>2, <1>4, <1>5 DEF ListsApart

(* Whatever is kept somewhere is a payload. *)
LEMMA KeptPayloads ==
  ASSUME TypeOK
  PROVE  \A p \in Copies \cup Claimed \cup Tasked :
           p \in Payload /\ p.job \in Jobs /\ p.created \in Nat /\ clock[p.job] \in Nat
<1>1. /\ tasks \in Seq(Payload) /\ processing \in Seq(Payload)
      /\ claims \in [Jobs -> Claim \cup {NoClaim}] /\ clock \in [Jobs -> Nat]
      /\ snapshot \in [Reapers -> SUBSET Claim]
      /\ \A w \in Workers : pc[w] # "idle" => task[w] \in Payload
  BY DEF TypeOK, StoreTypeOK, WorkerTypeOK, ReaperTypeOK
<1>2. Copies \subseteq Payload
  BY <1>1 DEF Copies, Range
<1>3. Claimed \subseteq Payload
  BY <1>1 DEF Claimed, Claim
<1>4. Tasked \subseteq Payload
  BY <1>1 DEF Tasked
<1> QED BY <1>1, <1>2, <1>3, <1>4 DEF Payload

(* What a step may add to the claims and snapshots ... *)
LEMMA ClaimedFrame ==
  ASSUME NEW S,
         \A j \in Jobs : claims'[j] # NoClaim => \/ claims'[j] = claims[j]
                                                 \/ claims'[j].payload \in S,
         \A r \in Reapers : \A c \in snapshot'[r] :
           c \in snapshot[r] \/ \E j \in Jobs : claims[j] # NoClaim /\ c = claims[j]
  PROVE  Claimed' \subseteq Claimed \cup S
  BY DEF Claimed

(* ... and to the local variables of the workers. *)
LEMMA TaskedFrame ==
  ASSUME NEW S,
         \A w \in Workers : pc'[w] # "idle" => \/ pc[w] # "idle" /\ task'[w] = task[w]
                                               \/ task'[w] \in S
  PROVE  Tasked' \subseteq Tasked \cup S
  BY DEF Tasked

(* The clock of a job goes forward only, so the stamps given stay given. *)
LEMMA StampsFrame ==
  ASSUME TypeOK, StampsGiven,
         UNCHANGED clock \/ \E j \in Jobs : clock' = [clock EXCEPT ![j] = @ + 1],
         \A p \in Copies' : p \in Copies \/ p.created <= clock'[p.job],
         Claimed' \subseteq Claimed \cup Copies \cup Tasked,
         Tasked' \subseteq Tasked \cup Copies
  PROVE  StampsGiven'
<1>1. \A j \in Jobs : clock[j] \in Nat /\ clock'[j] \in Nat /\ clock[j] <= clock'[j]
  BY DEF TypeOK, StoreTypeOK
<1>2. ASSUME NEW p \in Copies \cup Claimed \cup Tasked
      PROVE  p.created <= clock'[p.job]
  <2>1. p.created <= clock[p.job] /\ p.created \in Nat /\ p.job \in Jobs
    BY KeptPayloads DEF StampsGiven
  <2> QED BY <1>1, <2>1
<1> QED BY <1>2 DEF StampsGiven

(* A new stamp is like none of those that were given. *)
LEMMA RetriedLikeNone ==
  ASSUME TypeOK, StampsGiven, NEW p \in Payload
  PROVE  LET q == Retried(p, clock[p.job] + 1)
         IN  /\ q \in Payload /\ q.job = p.job /\ q.created = clock[p.job] + 1
             /\ NoneLike(Copies \cup Claimed \cup Tasked, Stamp, q)
<1> DEFINE q == Retried(p, clock[p.job] + 1)
<1>1. p.job \in Jobs /\ clock[p.job] \in Nat
  BY DEF TypeOK, StoreTypeOK, Payload
<1>2. q \in Payload /\ q.job = p.job /\ q.created = clock[p.job] + 1
  BY <1>1, PayloadUpdates DEF Retried
<1> HIDE DEF q
<1>3. ASSUME NEW x \in Copies \cup Claimed \cup Tasked PROVE Stamp[x] # Stamp[q]
  <2>1. /\ x \in Payload /\ x.created \in Nat
        /\ x.job = q.job => x.created <= clock[p.job]
    BY <1>2, KeptPayloads DEF StampsGiven
  <2>2. Stamp[x] = <<x.job, x.created>> /\ Stamp[q] = <<q.job, q.created>>
    BY <1>2, <2>1 DEF Stamp
  <2>3. x.job = q.job => x.created # q.created
    BY <1>1, <1>2, <2>1
  <2> QED BY <2>2, <2>3
<1> QED BY <1>2, <1>3 DEF NoneLike, q

(* A recovered payload has the stamp of the one it replaces. *)
LEMMA RecoveredAlike ==
  ASSUME NEW p \in Payload
  PROVE  Stamp[Recovered(p)] = Stamp[p] /\ JobOf[Recovered(p)] = JobOf[p]
<1>1. /\ Recovered(p) \in Payload /\ Recovered(p).job = p.job
      /\ Recovered(p).created = p.created
  BY PayloadUpdates DEF Recovered, Payload
<1> QED BY <1>1 DEF Stamp, JobOf

(* A job that is submitted is like none that was. *)
LEMMA NewLikeNone ==
  ASSUME TypeOK, PayloadsKnown, NEW j \in Jobs, ~Submitted(j)
  PROVE  \A p \in Copies \cup Claimed \cup Tasked : p.job # j
<1>1. \A p \in Copies \cup Claimed \cup Tasked : Submitted(p.job)
  BY DEF PayloadsKnown, Known, Copies, Claimed, Tasked
<1> QED BY <1>1

(* Every step of enqueue(), *)
LEMMA ProducerStamps ==
  ASSUME TypeOK, PayloadsKnown, StampInv, ProducerNext, UNCHANGED <<worker, reaper>>
  PROVE  StampInv'
<1>1. PICK j \in Jobs : Enqueue(j) \/ EnqueueFails(j)
  BY DEF ProducerNext
<1>2. UNCHANGED <<processing, claims, clock, snapshot, pc, task>>
  BY <1>1 DEF worker, reaper, Enqueue, SaveQueuedStatus, PushNewTask, CountSubmitted,
              EnqueueFails, store
<1>3. Claimed' = Claimed /\ Tasked' = Tasked
  BY <1>2 DEF Claimed, Tasked
<1>4. CASE PushNewTask(j)
  <2> DEFINE q == NewPayload(j)
  <2>1. ~Submitted(j) /\ tasks' = Append(tasks, q)
    BY <1>4 DEF PushNewTask, EnqueueGoto, Submitted, PushTask
  <2>2. q \in Payload /\ q.job = j /\ q.created = 0
    BY NewPayloadType DEF NewPayload
  <2> HIDE DEF q
  <2>3. NoneLike(Copies, Stamp, q)
    <3>1. \A p \in Copies : p \in Payload /\ p.job # j
      BY <2>1, KeptPayloads, NewLikeNone
    <3> QED BY <2>2, <3>1 DEF NoneLike, Stamp
  <2>4. ListsApart(Stamp)'
    BY <1>2, <2>1, <2>2, <2>3, ListsStayApart DEF StampInv, Copies
  <2>5. Copies' = Copies \cup {q}
    <3>1. Range(tasks') = Range(tasks) \cup {q}
      BY <2>1, <2>2, AppendRange DEF TypeOK, StoreTypeOK
    <3> QED BY <1>2, <3>1 DEF Copies
  <2>6. q.created <= clock'[q.job]
    BY <1>2, <2>2 DEF TypeOK, StoreTypeOK
  <2>7. StampsGiven'
    BY <1>2, <1>3, <2>5, <2>6, StampsFrame DEF StampInv
  <2> QED BY <2>4, <2>7 DEF StampInv
<1>5. CASE UNCHANGED tasks
  <2>1. Copies' = Copies
    BY <1>2, <1>5 DEF Copies
  <2>2. ListsApart(Stamp)'
    BY <1>2, <1>5, ListsStayApart DEF StampInv
  <2>3. StampsGiven'
    BY <1>2, <1>3, <2>1, StampsFrame DEF StampInv
  <2> QED BY <2>2, <2>3 DEF StampInv
<1>6. UNCHANGED tasks \/ PushNewTask(j)
  BY <1>1 DEF Enqueue, SaveQueuedStatus, CountSubmitted, EnqueueFails, store
<1> QED BY <1>4, <1>5, <1>6

----------------------------------------------------------------------------
(* The steps of workers and reapers, by what they do to lists and claims *)

OthersStay(w) ==
  \A v \in Workers \ {w} :
    pc'[v] = pc[v] /\ task'[v] = task[v] /\ remembered'[v] = remembered[v]

Stays(w) == pc[w] # "idle" /\ task'[w] = task[w] /\ remembered'[w] = remembered[w]

(* It may write its claim, while it executes; the lists stay. *)
Keeps(w) ==
  /\ OthersStay(w)
  /\ UNCHANGED <<tasks, processing, clock>>
  /\ \/ UNCHANGED claims
     \/ Executing(w) /\ \E c \in Claim : c.payload = task[w] /\ PutClaim(c)
  /\ pc'[w] # "idle" => Stays(w)
  /\ Responsible(w)' => Responsible(w)
  /\ pc'[w] # "count_completed"
  /\ Working(w)' => Working(w)

(* It is done with its payload and acknowledges it. *)
Drops(w) ==
  /\ OthersStay(w)
  /\ UNCHANGED <<tasks, clock>>
  /\ Responsible(w) /\ pc[w] # "idle" /\ pc[w] # "count_completed" /\ pc'[w] # "idle"
  /\ Ack(task[w], remembered[w])
  /\ UNCHANGED task
  /\ ~Working(w)'

(* Every step of a worker is one of four kinds. *)
LEMMA WorkerMoves ==
  ASSUME TypeOK, WorkerNext
  PROVE  \E w \in Workers : Dequeue(w) \/ Keeps(w) \/ Drops(w) \/ Requeue(w)
<1>1. WorkerTypeOK
  BY DEF TypeOK
<1>2. PICK w \in Workers : WorkerStep(w) \/ Crash(w)
  BY DEF WorkerNext
<1>3. CASE RecordClaim(w) \/ MarkStarted(w)
  <2>1. Executing(w) /\ task[w] \in Payload
    BY <1>1, <1>3, TaskType DEF RecordClaim, MarkStarted, Goto, Executing
  <2>2. \E c \in Claim : c.payload = task[w] /\ PutClaim(c)
    <3>1. PICK b \in BOOLEAN : PutClaim(ClaimOf(w, task[w], b, reading[w] + 1))
      BY <1>3 DEF RecordClaim, MarkStarted, WriteClaim
    <3>2. ClaimOf(w, task[w], b, reading[w] + 1) \in Claim
      BY <1>1, <2>1 DEF Claim, ClaimOf, WorkerTypeOK
    <3> QED BY <3>1, <3>2 DEF ClaimOf
  <2> QED BY <1>1, <1>3, <2>1, <2>2
          DEF RecordClaim, MarkStarted, WriteClaim, Goto, WorkerTypeOK, Keeps, OthersStay, Stays,
              Executing, Responsible, Working
<1>4. CASE SaveProcessing(w) \/ InferenceFails(w) \/ CountCompletedFails(w) \/ HandlerFails(w)
  BY <1>1, <1>4
  DEF SaveProcessing, InferenceFails, CountCompletedFails, HandlerFails, store, Goto,
      WorkerTypeOK, Keeps, OthersStay, Stays, Executing, Responsible, Working
<1>5. CASE CountAttempt(w) \/ ObserveWait(w) \/ CountCompleted(w)
  BY <1>1, <1>5
  DEF CountAttempt, ObserveWait, CountCompleted, CountStep, Goto, WorkerTypeOK, Keeps,
      OthersStay, Stays, Executing, Responsible, Working
<1>6. CASE CountRetry(w) \/ CountFailed(w) \/ CountDead(w)
  BY <1>1, <1>6
  DEF CountRetry, CountFailed, CountDead, CountStep, Goto, WorkerTypeOK, Keeps,
      OthersStay, Stays, Executing, Responsible, Working
<1>7. CASE RecordDuration(w) \/ Crash(w)
  BY <1>1, <1>7
  DEF RecordDuration, Crash, Reset, Forget, store, WorkerTypeOK, Keeps, OthersStay,
      Executing, Responsible, Working
<1>8. CASE SaveResult(w) \/ SaveResultReplyLost(w) \/ SetError(w)
  BY <1>1, <1>8
  DEF SaveResult, SaveResultReplyLost, StoreResult, SetError, Forget, Goto, WorkerTypeOK,
      Drops, OthersStay, Executing, Responsible, Working
<1> QED BY <1>2, <1>3, <1>4, <1>5, <1>6, <1>7, <1>8 DEF WorkerStep

(* It forgets claims, its own or those of the hash; the lists stay. *)
Forgets ==
  /\ UNCHANGED <<tasks, processing, clock>>
  /\ \A j \in Jobs : claims'[j] = claims[j] \/ claims'[j] = NoClaim
  /\ \A r \in Reapers : snapshot'[r] \subseteq snapshot[r]

(* It takes a payload back, and pushes it again or not. *)
TakesBack(c) ==
  /\ c.payload \in Range(processing) /\ RemoveProcessing(c.payload)
  /\ UNCHANGED tasks \/ PushTask(Recovered(c.payload))
  /\ UNCHANGED clock
  /\ \A j \in Jobs : claims'[j] = claims[j] \/ claims'[j] = NoClaim
  /\ \A r \in Reapers : snapshot'[r] \subseteq snapshot[r]

(* Every step of a reaper is one of three. *)
LEMMA ReaperMoves ==
  ASSUME TypeOK, ReaperNext
  PROVE  \/ Forgets
         \/ \E r \in Reapers : Scan(r)
         \/ \E r \in Reapers : \E c \in snapshot[r] : c \in Claim /\ TakesBack(c)
<1>1. /\ claims \in [Jobs -> Claim \cup {NoClaim}]
      /\ snapshot \in [Reapers -> SUBSET Claim]
  BY DEF TypeOK, StoreTypeOK, ReaperTypeOK
<1>2. PICK r \in Reapers : Scan(r) \/ ReaperStep(r) \/ ScanFails(r)
  BY DEF ReaperNext
<1>3. ASSUME NEW c \in snapshot[r], SkipChangedClaim(r, c) \/ DropOrphanClaim(r, c)
      PROVE  Forgets
  BY <1>1, <1>3 DEF SkipChangedClaim, DropOrphanClaim, DropClaim, Handle, store, Forgets
<1>4. ASSUME NEW c \in snapshot[r], Recover(r, c) \/ Bury(r, c)
      PROVE  c \in Claim /\ TakesBack(c)
  BY <1>1, <1>4 DEF Recover, Bury, TakeBack, DropClaim, Handle, TakesBack
<1>5. CASE CountRecovered(r) \/ CountBuried(r) \/ CountBuriedDead(r) \/ ScanFails(r)
  BY <1>1, <1>5 DEF CountRecovered, CountBuried, CountBuriedDead, ReaperCount, ScanFails,
                    store, Forgets
<1> QED BY <1>2, <1>3, <1>4, <1>5 DEF ReaperStep, HandleClaim

(* What they do to the lists, as sets. *)
LEMMA DequeueCopies ==
  ASSUME TypeOK, NEW w, Dequeue(w)
  PROVE  /\ Head(tasks) \in Payload /\ Head(tasks) \in Range(tasks)
         /\ Range(tasks) = Range(tasks') \cup {Head(tasks)}
         /\ Range(processing') = Range(processing) \cup {Head(tasks)}
         /\ Copies' = Copies
<1>1. /\ tasks \in Seq(Payload) /\ processing \in Seq(Payload) /\ tasks # <<>>
      /\ tasks' = Tail(tasks) /\ processing' = Append(processing, Head(tasks))
  BY DEF TypeOK, StoreTypeOK, Dequeue
<1>2. Head(tasks) \in Payload /\ Range(tasks) = Range(Tail(tasks)) \cup {Head(tasks)}
  BY <1>1, TailRange
<1>3. Range(processing') = Range(processing) \cup {Head(tasks)}
  BY <1>1, <1>2, AppendRange
<1> QED BY <1>1, <1>2, <1>3 DEF Copies

(* The MULTI of requeue() pushes one payload, with the next stamp of its job, *)
LEMMA RequeueCopies ==
  ASSUME TypeOK, StampsGiven, NEW w \in Workers, Requeue(w)
  PROVE  \E q \in Payload :
           /\ tasks' = Append(tasks, q) /\ Range(tasks') = Range(tasks) \cup {q}
           /\ q.job = task[w].job /\ q.created = clock'[q.job]
           /\ clock' = [clock EXCEPT ![q.job] = @ + 1]
           /\ NoneLike(Copies \cup Claimed \cup Tasked, Stamp, q)
           /\ UNCHANGED processing \/ RemoveProcessing(task[w])
           /\ Range(processing') \subseteq Range(processing)
<1>1. /\ WorkerTypeOK /\ StoreTypeOK /\ clock \in [Jobs -> Nat]
      /\ tasks \in Seq(Payload)
  BY DEF TypeOK, StoreTypeOK
<1>2. task[w] \in Payload /\ task[w].job \in Jobs
  BY <1>1, TaskType DEF Requeue, Goto
<1> DEFINE q == Retried(task[w], clock[task[w].job] + 1)
<1>3. /\ q \in Payload /\ q.job = task[w].job /\ q.created = clock[task[w].job] + 1
      /\ NoneLike(Copies \cup Claimed \cup Tasked, Stamp, q)
  BY <1>2, RetriedLikeNone
<1>4. /\ tasks' = Append(tasks, q)
      /\ clock' = [clock EXCEPT ![task[w].job] = @ + 1]
      /\ Ack(task[w], remembered[w])
  BY DEF Requeue, PushTask
<1> HIDE DEF q
<1>5. Range(tasks') = Range(tasks) \cup {q}
  BY <1>1, <1>3, <1>4, AppendRange
<1>6. /\ UNCHANGED processing \/ RemoveProcessing(task[w])
      /\ Range(processing') \subseteq Range(processing)
  BY <1>1, <1>2, <1>4, AckEffect DEF Ack
<1>7. q.created = clock'[q.job]
  BY <1>1, <1>2, <1>3, <1>4
<1> QED BY <1>3, <1>4, <1>5, <1>6, <1>7

(* and what a reaper takes back is like nothing that is left. *)
LEMMA TakesBackCopies ==
  ASSUME TypeOK, NEW c \in Claim, TakesBack(c), NEW f, ListsApart(f)
  PROVE  /\ Range(processing') \subseteq Range(processing)
         /\ NoneLike(Range(processing'), f, c.payload)
         /\ NoneLike(Range(tasks), f, c.payload)
         /\ c.payload \in Payload /\ Recovered(c.payload) \in Payload
         /\ \/ UNCHANGED tasks
            \/ /\ tasks' = Append(tasks, Recovered(c.payload))
               /\ Range(tasks') = Range(tasks) \cup {Recovered(c.payload)}
<1>1. /\ StoreTypeOK /\ tasks \in Seq(Payload) /\ processing \in Seq(Payload)
      /\ c.payload \in Payload /\ c.payload \in Range(processing)
      /\ RemoveProcessing(c.payload) /\ Apart(processing, f)
      /\ \A p \in Range(tasks) : NoneLike(Range(processing), f, p)
  BY DEF TypeOK, StoreTypeOK, TakesBack, ListsApart, Claim
<1>2. Range(processing') \subseteq Range(processing)
  BY <1>1, RemoveProcessingEffect
<1>3. NoneLike(Range(processing'), f, c.payload)
  BY <1>1, RemoveFirstApart DEF RemoveProcessing
<1>4. NoneLike(Range(tasks), f, c.payload)
  BY <1>1 DEF NoneLike
<1>5. Recovered(c.payload) \in Payload
  BY <1>1, PayloadUpdates
<1>6. UNCHANGED tasks \/ tasks' = Append(tasks, Recovered(c.payload))
  BY DEF TakesBack, PushTask
<1>7. CASE tasks' = Append(tasks, Recovered(c.payload))
  <2>1. Range(tasks') = Range(tasks) \cup {Recovered(c.payload)}
    BY <1>1, <1>5, <1>7, AppendRange
  <2> QED BY <1>1, <1>2, <1>3, <1>4, <1>5, <1>7, <2>1
<1>8. CASE UNCHANGED tasks
  BY <1>1, <1>2, <1>3, <1>4, <1>5, <1>8
<1> QED BY <1>6, <1>7, <1>8

----------------------------------------------------------------------------
(* One stamp, one copy *)

(* A step of a worker gives at most one new stamp, to the payload it pushes. *)
LEMMA WorkerStamps ==
  ASSUME TypeOK, StampInv, WorkerNext, UNCHANGED <<stage, reaper>>
  PROVE  StampInv'
<1>1. ListsApart(Stamp) /\ StampsGiven /\ UNCHANGED snapshot
  BY DEF StampInv, reaper
<1>2. PICK w \in Workers : Dequeue(w) \/ Keeps(w) \/ Drops(w) \/ Requeue(w)
  BY WorkerMoves
<1>3. CASE Dequeue(w)
  <2>1. ListsApart(Stamp)'
    BY <1>1, <1>3, DequeueApart
  <2>2. Copies' = Copies /\ Head(tasks) \in Copies
    BY <1>3, DequeueCopies DEF Copies
  <2>3. Claimed' = Claimed /\ UNCHANGED clock
    BY <1>1, <1>3 DEF Dequeue, Claimed
  <2>4. Tasked' \subseteq Tasked \cup Copies
    <3>1. \A v \in Workers : pc'[v] # "idle" => \/ pc[v] # "idle" /\ task'[v] = task[v]
                                                \/ task'[v] \in Copies
      BY <1>3, <2>2 DEF Dequeue, Goto, TypeOK, WorkerTypeOK
    <3> QED BY <3>1, TaskedFrame
  <2>5. StampsGiven'
    BY <1>1, <2>2, <2>3, <2>4, StampsFrame
  <2> QED BY <2>1, <2>5 DEF StampInv
<1>4. CASE Keeps(w)
  <2>1. ListsApart(Stamp)'
    BY <1>1, <1>4, ListsStayApart DEF Keeps
  <2>2. Copies' = Copies /\ UNCHANGED clock
    BY <1>4 DEF Keeps, Copies
  <2>3. Claimed' \subseteq Claimed \cup Tasked
    <3>1. \A j \in Jobs : claims'[j] # NoClaim => \/ claims'[j] = claims[j]
                                                  \/ claims'[j].payload \in Tasked
      BY <1>4 DEF Keeps, PutClaim, Tasked, Executing, TypeOK, StoreTypeOK
    <3> QED BY <1>1, <3>1, ClaimedFrame
  <2>4. Tasked' \subseteq Tasked \cup Copies
    <3>1. \A v \in Workers : pc'[v] # "idle" => pc[v] # "idle" /\ task'[v] = task[v]
      BY <1>4 DEF Keeps, OthersStay, Stays
    <3> QED BY <3>1, TaskedFrame
  <2>5. StampsGiven'
    BY <1>1, <2>2, <2>3, <2>4, StampsFrame
  <2> QED BY <2>1, <2>5 DEF StampInv
<1>5. ASSUME Drops(w) \/ Requeue(w)
      PROVE  /\ Claimed' \subseteq Claimed \cup Tasked
             /\ Tasked' \subseteq Tasked \cup Copies
  <2>1. Ack(task[w], remembered[w]) /\ task[w] \in Tasked /\ UNCHANGED task
    BY <1>5 DEF Drops, Requeue, Goto, Tasked
  <2>2. \A v \in Workers : pc'[v] # "idle" => pc[v] # "idle"
    BY <1>5 DEF Drops, OthersStay, Requeue, Goto, TypeOK, WorkerTypeOK
  <2>3. \A j \in Jobs : claims'[j] # NoClaim => claims'[j] = claims[j]
    BY <2>1 DEF Ack, DropClaim, TypeOK, StoreTypeOK
  <2> QED BY <1>1, <2>1, <2>2, <2>3, TaskedFrame, ClaimedFrame
<1>6. CASE Drops(w)
  <2>1. UNCHANGED processing \/ RemoveProcessing(task[w])
    BY <1>6 DEF Drops, Ack
  <2>2. ListsApart(Stamp)' /\ UNCHANGED <<tasks, clock>>
    BY <1>1, <1>6, <2>1, ListsStayApart DEF Drops
  <2>3. Copies' \subseteq Copies
    BY <2>1, <2>2, RemoveProcessingEffect DEF Copies, TypeOK
  <2>4. StampsGiven'
    BY <1>1, <1>5, <1>6, <2>2, <2>3, StampsFrame
  <2> QED BY <2>2, <2>4 DEF StampInv
<1>7. CASE Requeue(w)
  <2>1. PICK q \in Payload :
          /\ tasks' = Append(tasks, q) /\ Range(tasks') = Range(tasks) \cup {q}
          /\ q.job = task[w].job /\ q.created = clock'[q.job]
          /\ clock' = [clock EXCEPT ![q.job] = @ + 1]
          /\ NoneLike(Copies \cup Claimed \cup Tasked, Stamp, q)
          /\ UNCHANGED processing \/ RemoveProcessing(task[w])
          /\ Range(processing') \subseteq Range(processing)
    BY <1>1, <1>7, RequeueCopies
  <2>2. NoneLike(Range(tasks) \cup Range(processing'), Stamp, q)
    BY <2>1 DEF NoneLike, Copies
  <2>3. ListsApart(Stamp)'
    BY <1>1, <2>1, <2>2, ListsStayApart
  <2>4. q.job \in Jobs /\ \A p \in Copies' : p \in Copies \/ p = q
    BY <2>1 DEF Copies, Payload
  <2>5. q.created <= clock'[q.job]
    BY <2>1, <2>4 DEF TypeOK, StoreTypeOK
  <2>6. StampsGiven'
    BY <1>1, <1>5, <1>7, <2>1, <2>4, <2>5, StampsFrame
  <2> QED BY <2>3, <2>6 DEF StampInv
<1> QED BY <1>2, <1>3, <1>4, <1>6, <1>7

(* A reaper gives none: the copy it pushes replaces the one it took back. *)
LEMMA ReaperStamps ==
  ASSUME TypeOK, StampInv, ReaperNext, UNCHANGED <<stage, worker>>
  PROVE  StampInv'
<1>1. ListsApart(Stamp) /\ StampsGiven /\ Tasked' = Tasked
  BY DEF StampInv, worker, Tasked
<1>2. CASE Forgets
  <2>1. ListsApart(Stamp)'
    BY <1>1, <1>2, ListsStayApart DEF Forgets
  <2>2. Copies' = Copies /\ Claimed' \subseteq Claimed /\ UNCHANGED clock
    BY <1>2 DEF Forgets, Copies, Claimed
  <2>3. StampsGiven'
    BY <1>1, <2>2, StampsFrame
  <2> QED BY <2>1, <2>3 DEF StampInv
<1>3. ASSUME NEW r \in Reapers, Scan(r) PROVE StampInv'
  <2>1. UNCHANGED store
    BY <1>3 DEF Scan
  <2>2. Copies' = Copies /\ UNCHANGED <<tasks, processing, clock, claims>>
    BY <2>1 DEF store, Copies
  <2>3. ListsApart(Stamp)'
    BY <1>1, <2>2, ListsStayApart
  <2>4. Claimed' \subseteq Claimed
    <3>1. \A s \in Reapers : \A c \in snapshot'[s] :
            c \in snapshot[s] \/ \E j \in Jobs : claims[j] # NoClaim /\ c = claims[j]
      BY <1>3 DEF Scan, StaleClaims, TypeOK, ReaperTypeOK
    <3> QED BY <2>2, <3>1, ClaimedFrame
  <2>5. StampsGiven'
    BY <1>1, <2>2, <2>4, StampsFrame
  <2> QED BY <2>3, <2>5 DEF StampInv
<1>4. ASSUME NEW r \in Reapers, NEW c \in snapshot[r], c \in Claim, TakesBack(c)
      PROVE  StampInv'
  <2>1. /\ Range(processing') \subseteq Range(processing)
        /\ NoneLike(Range(processing'), Stamp, c.payload)
        /\ NoneLike(Range(tasks), Stamp, c.payload)
        /\ c.payload \in Payload /\ Recovered(c.payload) \in Payload
        /\ \/ UNCHANGED tasks
           \/ /\ tasks' = Append(tasks, Recovered(c.payload))
              /\ Range(tasks') = Range(tasks) \cup {Recovered(c.payload)}
    BY <1>1, <1>4, TakesBackCopies
  <2>2. NoneLike(Range(tasks) \cup Range(processing'), Stamp, Recovered(c.payload))
    BY <2>1, RecoveredAlike DEF NoneLike
  <2>3. RemoveProcessing(c.payload) /\ UNCHANGED clock
    BY <1>4 DEF TakesBack
  <2>4. ListsApart(Stamp)'
    BY <1>1, <2>1, <2>2, <2>3, ListsStayApart
  <2>5. Claimed' \subseteq Claimed
    BY <1>4 DEF TakesBack, Claimed
  <2>6. \A p \in Copies' : p \in Copies \/ p = Recovered(c.payload)
    BY <2>1 DEF Copies
  <2>7. Recovered(c.payload).created <= clock'[Recovered(c.payload).job]
    <3>1. c.payload.created <= clock[c.payload.job]
      BY <1>1, <1>4 DEF StampsGiven, Copies, TakesBack
    <3>2. /\ Recovered(c.payload).job = c.payload.job
          /\ Recovered(c.payload).created = c.payload.created
      BY <2>1 DEF Recovered, Payload
    <3> QED BY <2>3, <3>1, <3>2
  <2>8. StampsGiven'
    BY <1>1, <2>3, <2>5, <2>6, <2>7, StampsFrame
  <2> QED BY <2>4, <2>8 DEF StampInv
<1> QED BY <1>2, <1>3, <1>4, ReaperMoves

(* Nobody holds anything in the beginning. *)
LEMMA LeaseInit ==
  ASSUME Init
  PROVE  StampInv /\ LeaseInv
<1>1. tasks = <<>> /\ processing = <<>>
  BY DEF Init, StoreInit
<1>2. /\ Range(tasks) = {} /\ Range(processing) = {}
      /\ DOMAIN tasks = {} /\ DOMAIN processing = {}
  BY <1>1 DEF Range
<1>3. /\ Claimed = {} /\ Tasked = {}
      /\ \A w \in Workers : pc[w] = "idle"
      /\ \A r \in Reapers : snapshot[r] = {}
  BY DEF Init, StoreInit, WorkerInit, ReaperInit, Claimed, Tasked
<1>4. \A w \in Workers : ~Responsible(w)
  BY <1>3 DEF Responsible, Executing
<1>5. \A f : ListsApart(f)
  BY <1>2 DEF ListsApart, Apart
<1> QED BY <1>2, <1>3, <1>4, <1>5
        DEF StampInv, LeaseInv, StampsGiven, Copies, OwnCopies, OwnerAlone, ClaimsOlder,
            ScannedIdle

(* StampInv is inductive. *)
LEMMA StampStep ==
  TypeOK /\ PayloadsKnown /\ StampInv /\ [Next]_vars => StampInv'
<1> SUFFICES ASSUME TypeOK, PayloadsKnown, StampInv, [Next]_vars PROVE StampInv'
  OBVIOUS
<1>1. CASE UNCHANGED vars
  <2>1. UNCHANGED <<tasks, processing, claims, clock, snapshot, pc, task>>
    BY <1>1 DEF vars, store, worker, reaper
  <2> QED BY <2>1 DEF StampInv, ListsApart, Apart, StampsGiven, Copies, Claimed, Tasked
<1> QED BY <1>1, ProducerStamps, WorkerStamps, ReaperStamps DEF Next

(***************************************************************************)
(* No two payloads in the lists are the same text, whatever crashes, fails *)
(* or expires: the LREM of an acknowledgement removes the copy it means.   *)
(***************************************************************************)
THEOREM NoSameText == Spec => []PayloadsDistinct
<1>1. Init => StampInv
  BY LeaseInit
<1>2. TypeOK /\ PayloadsKnown /\ StampInv /\ [Next]_vars => StampInv'
  BY StampStep
<1>3. TypeOK /\ StampInv => PayloadsDistinct
  BY ApartDistinct DEF StampInv
<1> QED BY <1>1, <1>2, <1>3, Inductive, PTL DEF Spec, IInv

----------------------------------------------------------------------------
(* One job, one copy and one worker *)

(* Copies that are alike are the same, and in one of the lists only. *)
LEMMA AlikeSame ==
  ASSUME NEW f, ListsApart(f), NEW p \in Copies, NEW q \in Copies, f[p] = f[q]
  PROVE  p = q /\ (p \in Range(tasks) => p \notin Range(processing))
<1>1. \A x \in Range(tasks), y \in Range(processing) : f[x] # f[y]
  BY DEF ListsApart, NoneLike
<1>2. ASSUME p \in Range(tasks), q \in Range(tasks) PROVE p = q
  BY <1>2 DEF ListsApart, Apart, Range
<1>3. ASSUME p \in Range(processing), q \in Range(processing) PROVE p = q
  BY <1>3 DEF ListsApart, Apart, Range
<1> QED BY <1>1, <1>2, <1>3 DEF Copies

(* What a responsible worker knows of the lists. *)
LEMMA OwnsCopy ==
  ASSUME TypeOK, LeaseInv, NEW w \in Workers, Responsible(w)
  PROVE  /\ task[w] \in Payload /\ task[w] \in Tasked /\ pc[w] # "idle"
         /\ \A p \in Range(tasks) : p.job # task[w].job
         /\ \A p \in Range(processing) :
              p.job = task[w].job => p = task[w] /\ remembered[w]
                                     /\ pc[w] # "count_completed"
<1>1. pc[w] # "idle"
  BY DEF Responsible, Executing
<1>2. task[w] \in Payload /\ task[w] \in Tasked
  BY <1>1, TaskType DEF Tasked, TypeOK
<1>3. \A p \in Copies : p.job = task[w].job =>
         /\ p \in Range(processing) /\ p = task[w]
         /\ remembered[w] /\ pc[w] # "count_completed"
  BY DEF LeaseInv, OwnCopies, OwnCopy
<1>4. \A p \in Range(tasks) : p \in Copies /\ p \notin Range(processing)
  BY AlikeSame DEF LeaseInv, Copies
<1> QED BY <1>1, <1>2, <1>3, <1>4 DEF Copies

(***************************************************************************)
(* Most steps only take copies, claims and workers away.  A payload that   *)
(* is pushed is of a job nobody is responsible for, and younger than its   *)
(* claims.                                                                  *)
(***************************************************************************)
Younger(q) ==
  /\ \A v \in Workers : Responsible(v)' => task[v].job # q.job
  /\ \A c \in Claimed : Stamp[q] = Stamp[c] => c.recoveries < q.recoveries

(* LeaseInv after such a step. *)
LEMMA LeaseFrame ==
  ASSUME TypeOK, LeaseInv, ListsApart(JobOf)',
         Range(processing') \subseteq Range(processing),
         \/ UNCHANGED tasks
         \/ \E q \in Payload : Range(tasks') = Range(tasks) \cup {q} /\ Younger(q),
         \A v \in Workers : Responsible(v)' => Responsible(v) /\ task'[v] = task[v],
         \A v \in Workers :
           Responsible(v)' =>
             \/ remembered'[v] = remembered[v] /\ pc'[v] # "count_completed"
             \/ remembered'[v] = remembered[v] /\ pc'[v] = pc[v]
             \/ \A p \in Range(processing') : p.job # task[v].job,
         Claimed' \subseteq Claimed,
         \A r \in Reapers : snapshot'[r] \subseteq snapshot[r]
  PROVE  LeaseInv'
<1>1. ASSUME NEW w \in Workers, Responsible(w)' PROVE OwnCopy(w)'
  <2>1. /\ task'[w] = task[w]
        /\ \A p \in Range(tasks) : p.job # task[w].job
        /\ \A p \in Range(processing) :
             p.job = task[w].job => p = task[w] /\ remembered[w]
                                    /\ pc[w] # "count_completed"
    BY <1>1, OwnsCopy
  <2>2. \A p \in Range(tasks') : p.job # task[w].job
    BY <1>1, <2>1 DEF Younger
  <2>3. \A p \in Range(processing') :
          p.job = task[w].job => p = task[w] /\ remembered'[w]
                                 /\ pc'[w] # "count_completed"
    BY <1>1, <2>1
  <2> QED BY <2>1, <2>2, <2>3 DEF OwnCopy, Copies
<1>2. OwnerAlone'
  BY DEF LeaseInv, OwnerAlone
<1>3. ClaimsOlder'
  BY DEF LeaseInv, ClaimsOlder, Younger
<1>4. ScannedIdle'
  BY DEF LeaseInv, ScannedIdle
<1> QED BY <1>1, <1>2, <1>3, <1>4 DEF LeaseInv, OwnCopies

(* enqueue() pushes the first payload of its job. *)
LEMMA ProducerLease ==
  ASSUME TypeOK, PayloadsKnown, LeaseInv, ProducerNext, UNCHANGED <<worker, reaper>>
  PROVE  LeaseInv'
<1>1. PICK j \in Jobs : Enqueue(j) \/ EnqueueFails(j)
  BY DEF ProducerNext
<1>2. UNCHANGED <<processing, claims, snapshot, pc, task, remembered>>
  BY <1>1 DEF worker, reaper, Enqueue, SaveQueuedStatus, PushNewTask, CountSubmitted,
              EnqueueFails, store
<1>3. /\ Claimed' = Claimed
      /\ \A v \in Workers : Responsible(v)' => Responsible(v)
  BY <1>2 DEF Claimed, Responsible, Executing
<1>4. CASE UNCHANGED tasks
  <2>1. ListsApart(JobOf)'
    BY <1>2, <1>4, ListsStayApart DEF LeaseInv
  <2> QED BY <1>2, <1>3, <1>4, <2>1, LeaseFrame
<1>5. CASE PushNewTask(j)
  <2> DEFINE q == NewPayload(j)
  <2>1. ~Submitted(j) /\ tasks' = Append(tasks, q)
    BY <1>5 DEF PushNewTask, EnqueueGoto, Submitted, PushTask
  <2>2. q \in Payload /\ q.job = j
    BY NewPayloadType
  <2> HIDE DEF q
  <2>3. \A p \in Copies \cup Claimed \cup Tasked : p \in Payload /\ p.job # j
    BY <2>1, KeptPayloads, NewLikeNone
  <2>4. Younger(q)
    <3>1. \A v \in Workers : Responsible(v)' => task[v].job # j
      BY <1>3, <2>3, OwnsCopy
    <3>2. \A c \in Claimed : Stamp[q] # Stamp[c]
      BY <2>2, <2>3 DEF Stamp
    <3> QED BY <2>2, <3>1, <3>2 DEF Younger
  <2>5. ListsApart(JobOf)'
    <3>1. NoneLike(Range(tasks) \cup Range(processing'), JobOf, q)
      BY <1>2, <2>2, <2>3 DEF NoneLike, JobOf, Copies
    <3> QED BY <1>2, <2>1, <2>2, <3>1, ListsStayApart DEF LeaseInv
  <2>6. Range(tasks') = Range(tasks) \cup {q}
    BY <2>1, <2>2, AppendRange DEF TypeOK, StoreTypeOK
  <2> QED BY <1>2, <1>3, <2>2, <2>4, <2>5, <2>6, LeaseFrame
<1>6. UNCHANGED tasks \/ PushNewTask(j)
  BY <1>1 DEF Enqueue, SaveQueuedStatus, CountSubmitted, EnqueueFails, store
<1> QED BY <1>4, <1>5, <1>6

(* BLMOVE takes a payload whose job nobody is responsible for. *)
LEMMA DequeueLease ==
  ASSUME TypeOK, LeaseInv, NEW w \in Workers, Dequeue(w), UNCHANGED reaper
  PROVE  LeaseInv'
<1> DEFINE h == Head(tasks)
<1>1. /\ h \in Payload /\ h \in Range(tasks)
      /\ Range(tasks) = Range(tasks') \cup {h}
      /\ Range(processing') = Range(processing) \cup {h}
      /\ Copies' = Copies
  BY DequeueCopies
<1>2. /\ pc'[w] = "record_claim" /\ task'[w] = h /\ remembered'[w] = TRUE
      /\ UNCHANGED <<claims, snapshot>>
      /\ \A v \in Workers \ {w} :
           pc'[v] = pc[v] /\ task'[v] = task[v] /\ remembered'[v] = remembered[v]
  BY DEF Dequeue, Goto, TypeOK, WorkerTypeOK, reaper
<1> HIDE DEF h
<1>3. Claimed' = Claimed
  BY <1>2 DEF Claimed
<1>4. ListsApart(JobOf)'
  BY DequeueApart DEF LeaseInv
<1>5. \A v \in Workers \ {w} : Responsible(v)' => Responsible(v)
  BY <1>2 DEF Responsible, Executing
<1>6. \A v \in Workers : Responsible(v) => task[v].job # h.job
  BY <1>1, OwnsCopy
<1>7. OwnCopy(w)'
  <2>1. \A p \in Copies : p.job = h.job => p = h
    <3> SUFFICES ASSUME NEW p \in Copies, p.job = h.job PROVE p = h
      OBVIOUS
    <3>1. p \in Payload /\ h \in Copies
      BY <1>1, KeptPayloads DEF Copies
    <3>2. JobOf[p] = JobOf[h]
      BY <1>1, <3>1 DEF JobOf
    <3> QED BY <3>1, <3>2, AlikeSame DEF LeaseInv
  <2> QED BY <1>1, <1>2, <2>1 DEF OwnCopy
<1>8. \A v \in Workers \ {w} : Responsible(v) => OwnCopy(v)'
  BY <1>1, <1>2 DEF LeaseInv, OwnCopies, OwnCopy
<1>9. OwnerAlone'
  BY <1>2, <1>5, <1>6 DEF LeaseInv, OwnerAlone
<1>10. \A c \in Claimed :
         /\ c.recoveries \in Nat /\ h.recoveries \in Nat
         /\ Stamp[h] = Stamp[c] => c.recoveries < h.recoveries
  BY <1>1, KeptPayloads DEF LeaseInv, ClaimsOlder, Payload
<1>11. ClaimsOlder'
  <2>1. \A c \in Claimed : Stamp[h] = Stamp[c] => c.recoveries <= h.recoveries
    BY <1>10
  <2> QED BY <1>1, <1>3, <2>1 DEF LeaseInv, ClaimsOlder
<1>12. h \notin Claimed
  BY <1>10
<1>13. ScannedIdle'
  <2> SUFFICES ASSUME NEW r \in Reapers, NEW c \in snapshot[r], NEW v \in Workers,
                      Responsible(v)', task'[v] = c.payload
               PROVE  c.payload \notin Range(processing')
    BY <1>2 DEF ScannedIdle
  <2>1. c.payload # h
    BY <1>12 DEF Claimed
  <2> QED BY <1>1, <1>2, <1>5, <2>1 DEF LeaseInv, ScannedIdle
<1> QED BY <1>4, <1>5, <1>7, <1>8, <1>9, <1>11, <1>13 DEF LeaseInv, OwnCopies

(* A responsible worker may write its claim, as old as its payload. *)
LEMMA KeepsLease ==
  ASSUME TypeOK, LeaseInv, NEW w \in Workers, Keeps(w), UNCHANGED reaper
  PROVE  LeaseInv'
<1>1. /\ UNCHANGED <<tasks, processing, snapshot>> /\ Copies' = Copies
      /\ \A v \in Workers : Responsible(v)' => Responsible(v) /\ pc'[v] # "idle"
      /\ \A v \in Workers : Responsible(v)' =>
           /\ task'[v] = task[v] /\ remembered'[v] = remembered[v]
           /\ pc'[v] # "count_completed" \/ pc'[v] = pc[v]
  BY DEF Keeps, reaper, Copies, OthersStay, Stays, Responsible, Executing
<1>2. ListsApart(JobOf)'
  BY <1>1, ListsStayApart DEF LeaseInv
<1>3. CASE UNCHANGED claims
  <2>1. Claimed' = Claimed
    BY <1>1, <1>3 DEF Claimed
  <2> QED BY <1>1, <1>2, <2>1, LeaseFrame
<1>4. CASE Executing(w) /\ \E c \in Claim : c.payload = task[w] /\ PutClaim(c)
  <2>1. Responsible(w)
    BY <1>4 DEF Responsible
  <2>2. /\ task[w] \in Payload
        /\ \A p \in Range(tasks) : p.job # task[w].job
        /\ \A p \in Range(processing) : p.job = task[w].job => p = task[w]
    BY <2>1, OwnsCopy
  <2>3. Claimed' \subseteq Claimed \cup {task[w]}
    <3>1. \A j \in Jobs : claims'[j] # NoClaim => \/ claims'[j] = claims[j]
                                                  \/ claims'[j].payload \in {task[w]}
      BY <1>4 DEF PutClaim, TypeOK, StoreTypeOK
    <3> QED BY <1>1, <3>1, ClaimedFrame
  <2>4. \A p \in Copies : p \in Payload /\ (Stamp[p] = Stamp[task[w]] => p.job = task[w].job)
    BY <2>2, KeptPayloads DEF Stamp
  <2>5. ClaimsOlder'
    <3>1. /\ \A p \in Range(tasks) : Stamp[p] # Stamp[task[w]]
          /\ \A p \in Range(processing) : Stamp[p] = Stamp[task[w]] => p = task[w]
      BY <2>2, <2>4 DEF Copies
    <3>2. task[w].recoveries <= task[w].recoveries
      BY <2>2 DEF Payload
    <3> QED BY <1>1, <2>3, <3>1, <3>2 DEF LeaseInv, ClaimsOlder
  <2>6. OwnCopies'
    BY <1>1 DEF LeaseInv, OwnCopies, OwnCopy
  <2>7. OwnerAlone' /\ ScannedIdle'
    BY <1>1 DEF LeaseInv, OwnerAlone, ScannedIdle
  <2> QED BY <1>2, <2>5, <2>6, <2>7 DEF LeaseInv
<1> QED BY <1>3, <1>4 DEF Keeps

(* After its acknowledgement no copy of the job is left in processing. *)
LEMMA AckedGone ==
  ASSUME TypeOK, LeaseInv, NEW w \in Workers, Responsible(w),
         Ack(task[w], remembered[w])
  PROVE  /\ \A p \in Range(processing') : p.job # task[w].job
         /\ Range(processing') \subseteq Range(processing)
         /\ UNCHANGED processing \/ RemoveProcessing(task[w])
         /\ \A j \in Jobs : claims'[j] = claims[j] \/ claims'[j] = NoClaim
<1>1. /\ task[w] \in Payload /\ StoreTypeOK /\ processing \in Seq(Payload)
      /\ \A p \in Range(processing) : p.job = task[w].job => p = task[w] /\ remembered[w]
  BY OwnsCopy DEF TypeOK, StoreTypeOK
<1>2. /\ Range(processing') \subseteq Range(processing)
      /\ claims' = [claims EXCEPT ![task[w].job] = NoClaim]
  BY <1>1, AckEffect
<1>3. UNCHANGED processing \/ RemoveProcessing(task[w])
  BY DEF Ack
<1>4. ASSUME NEW p \in Range(processing'), p.job = task[w].job PROVE FALSE
  <2>1. p = task[w] /\ remembered[w] /\ task[w] \in Range(processing)
    BY <1>1, <1>2, <1>4
  <2>2. processing' = RemoveFirst(processing, task[w])
    BY <2>1 DEF Ack, RemoveProcessing
  <2>3. NoneLike(Range(processing'), JobOf, task[w])
    BY <1>1, <2>1, <2>2, RemoveFirstApart DEF LeaseInv, ListsApart
  <2> QED BY <1>4, <2>1, <2>3 DEF NoneLike
<1>5. \A j \in Jobs : claims'[j] = claims[j] \/ claims'[j] = NoClaim
  BY <1>1, <1>2 DEF StoreTypeOK
<1> QED BY <1>2, <1>3, <1>4, <1>5

(* Every step of a worker: what it acknowledges is its own copy. *)
LEMMA WorkerLease ==
  ASSUME TypeOK, StampsGiven, LeaseInv, WorkerNext, UNCHANGED <<stage, reaper>>
  PROVE  LeaseInv'
<1>1. PICK w \in Workers : Dequeue(w) \/ Keeps(w) \/ Drops(w) \/ Requeue(w)
  BY WorkerMoves
<1>2. CASE Drops(w) \/ Requeue(w)
  <2>1. /\ Responsible(w) /\ Ack(task[w], remembered[w]) /\ task' = task
        /\ UNCHANGED snapshot
        /\ \A v \in Workers \ {w} : pc'[v] = pc[v] /\ remembered'[v] = remembered[v]
    BY <1>2 DEF Drops, Requeue, Forget, Goto, OthersStay, Responsible, Executing, reaper,
                TypeOK, WorkerTypeOK
  <2>2. /\ \A p \in Range(processing') : p.job # task[w].job
        /\ Range(processing') \subseteq Range(processing)
        /\ UNCHANGED processing \/ RemoveProcessing(task[w])
        /\ \A j \in Jobs : claims'[j] = claims[j] \/ claims'[j] = NoClaim
    BY <2>1, AckedGone
  <2>3. \A v \in Workers : Responsible(v)' => Responsible(v)
    BY <2>1 DEF Responsible, Executing
  <2>4. Claimed' \subseteq Claimed
    BY <2>1, <2>2 DEF Claimed
  <2>5. \A v \in Workers :
          Responsible(v)' =>
            \/ remembered'[v] = remembered[v] /\ pc'[v] = pc[v]
            \/ \A p \in Range(processing') : p.job # task[v].job
    BY <2>1, <2>2
  <2>6. CASE Drops(w)
    <3>1. UNCHANGED tasks
      BY <2>6 DEF Drops
    <3>2. ListsApart(JobOf)'
      BY <2>2, <3>1, ListsStayApart DEF LeaseInv
    <3> QED BY <2>1, <2>2, <2>3, <2>4, <2>5, <3>1, <3>2, LeaseFrame
  <2>7. CASE Requeue(w)
    <3>1. PICK q \in Payload :
            /\ tasks' = Append(tasks, q) /\ Range(tasks') = Range(tasks) \cup {q}
            /\ q.job = task[w].job
            /\ NoneLike(Copies \cup Claimed \cup Tasked, Stamp, q)
      BY <2>7, RequeueCopies
    <3>2. ~Responsible(w)'
      BY <2>7 DEF Requeue, Goto, Responsible, Executing, TypeOK, WorkerTypeOK
    <3>3. Younger(q)
      <4>1. \A v \in Workers : Responsible(v)' => task[v].job # q.job
        BY <2>1, <2>3, <3>1, <3>2 DEF LeaseInv, OwnerAlone
      <4>2. \A c \in Claimed : Stamp[q] # Stamp[c]
        BY <3>1 DEF NoneLike
      <4> QED BY <4>1, <4>2 DEF Younger
    <3>4. ListsApart(JobOf)'
      <4>1. \A p \in Range(tasks) \cup Range(processing') : p \in Payload /\ p.job # q.job
        BY <2>1, <2>2, <3>1, OwnsCopy, KeptPayloads DEF Copies
      <4>2. NoneLike(Range(tasks) \cup Range(processing'), JobOf, q)
        BY <4>1 DEF NoneLike, JobOf
      <4> QED BY <2>2, <3>1, <4>2, ListsStayApart DEF LeaseInv
    <3> QED BY <2>1, <2>2, <2>3, <2>4, <2>5, <3>1, <3>3, <3>4, LeaseFrame
  <2> QED BY <1>2, <2>6, <2>7
<1> QED BY <1>1, <1>2, DequeueLease, KeepsLease

(* A scan includes no claim of a payload someone works on. *)
LEMMA ScanLease ==
  ASSUME Preempt = FALSE, TypeOK, LeaseInv, NEW r \in Reapers, Scan(r),
         UNCHANGED <<stage, worker>>
  PROVE  LeaseInv'
<1>1. UNCHANGED <<tasks, processing, claims, pc, task, remembered>>
  BY DEF Scan, store, worker
<1>2. \A s \in Reapers : snapshot'[s] \subseteq snapshot[s] \cup StaleClaims
  BY DEF Scan, TypeOK, ReaperTypeOK
<1>3. Claimed' \subseteq Claimed
  <2>1. \A c \in StaleClaims : \E j \in Jobs : claims[j] # NoClaim /\ c = claims[j]
    BY DEF StaleClaims
  <2>2. \A s \in Reapers : \A c \in snapshot'[s] :
          c \in snapshot[s] \/ \E j \in Jobs : claims[j] # NoClaim /\ c = claims[j]
    BY <1>2, <2>1
  <2>3. \A j \in Jobs : claims'[j] # NoClaim => claims'[j] = claims[j]
    BY <1>1
  <2> QED BY <2>2, <2>3, ClaimedFrame
<1>4. ClaimsOlder'
  BY <1>1, <1>3 DEF LeaseInv, ClaimsOlder
<1>5. ScannedIdle'
  <2>1. ASSUME NEW c \in StaleClaims, NEW w \in Workers, Responsible(w),
               task[w] = c.payload
        PROVE  c.payload \notin Range(processing)
    <3>1. pc[w] = "count_completed"
      BY <2>1 DEF StaleClaims, MayBeStale, Responsible
    <3> QED BY <2>1, <3>1, OwnsCopy
  <2> QED BY <1>1, <1>2, <2>1 DEF LeaseInv, ScannedIdle, Responsible, Executing
<1>6. ListsApart(JobOf)' /\ OwnCopies' /\ OwnerAlone'
  BY <1>1 DEF LeaseInv, ListsApart, Apart, OwnCopies, OwnCopy, OwnerAlone, Copies,
              Responsible, Executing
<1> QED BY <1>4, <1>5, <1>6 DEF LeaseInv

(* Every step of a reaper: what it takes back has no worker. *)
LEMMA ReaperLease ==
  ASSUME Preempt = FALSE, TypeOK, LeaseInv, ReaperNext, UNCHANGED <<stage, worker>>
  PROVE  LeaseInv'
<1>1. /\ UNCHANGED <<pc, task, remembered>>
      /\ \A v \in Workers : Responsible(v)' => Responsible(v)
  BY DEF worker, Responsible, Executing
<1>2. CASE Forgets
  <2>1. UNCHANGED <<tasks, processing>> /\ Claimed' \subseteq Claimed
    BY <1>2 DEF Forgets, Claimed
  <2>2. ListsApart(JobOf)'
    BY <2>1, ListsStayApart DEF LeaseInv
  <2> QED BY <1>1, <1>2, <2>1, <2>2, LeaseFrame DEF Forgets
<1>3. ASSUME NEW r \in Reapers, NEW c \in snapshot[r], c \in Claim, TakesBack(c)
      PROVE  LeaseInv'
  <2> DEFINE q == Recovered(c.payload)
  <2>1. /\ Range(processing') \subseteq Range(processing)
        /\ NoneLike(Range(processing'), JobOf, c.payload)
        /\ NoneLike(Range(tasks), JobOf, c.payload)
        /\ c.payload \in Payload /\ q \in Payload
        /\ \/ UNCHANGED tasks
           \/ tasks' = Append(tasks, q) /\ Range(tasks') = Range(tasks) \cup {q}
    BY <1>3, TakesBackCopies DEF LeaseInv
  <2>2. /\ Stamp[q] = Stamp[c.payload] /\ JobOf[q] = JobOf[c.payload]
        /\ q.job = c.payload.job /\ q.recoveries = c.payload.recoveries + 1
    BY <2>1, RecoveredAlike, PayloadUpdates DEF Recovered, Payload
  <2> HIDE DEF q
  <2>3. RemoveProcessing(c.payload) /\ c.payload \in Range(processing)
    BY <1>3 DEF TakesBack
  <2>4. ListsApart(JobOf)'
    <3>1. NoneLike(Range(tasks) \cup Range(processing'), JobOf, q)
      BY <2>1, <2>2 DEF NoneLike
    <3> QED BY <2>1, <2>3, <3>1, ListsStayApart DEF LeaseInv
  <2>5. Claimed' \subseteq Claimed /\ \A s \in Reapers : snapshot'[s] \subseteq snapshot[s]
    BY <1>3 DEF TakesBack, Claimed
  <2>6. Younger(q)
    <3>1. ASSUME NEW v \in Workers, Responsible(v), task[v].job = q.job PROVE FALSE
      <4>1. c.payload = task[v]
        BY <2>2, <2>3, <3>1, OwnsCopy
      <4> QED BY <1>3, <2>3, <3>1, <4>1 DEF LeaseInv, ScannedIdle
    <3>2. ASSUME NEW x \in Claimed, Stamp[q] = Stamp[x]
          PROVE  x.recoveries < q.recoveries
      <4>1. x.recoveries <= c.payload.recoveries
        BY <2>2, <2>3, <3>2 DEF LeaseInv, ClaimsOlder
      <4>2. x.recoveries \in Nat /\ c.payload.recoveries \in Nat
        BY <2>1, KeptPayloads DEF Payload
      <4> QED BY <2>2, <4>1, <4>2
    <3> QED BY <1>1, <3>1, <3>2 DEF Younger
  <2>7. \A v \in Workers : remembered'[v] = remembered[v] /\ pc'[v] = pc[v]
                            /\ task'[v] = task[v]
    BY <1>1
  <2> QED BY <1>1, <2>1, <2>4, <2>5, <2>6, <2>7, LeaseFrame
<1> QED BY <1>2, <1>3, ReaperMoves, ScanLease

(* LeaseInv is inductive, given that no claim expires early. *)
LEMMA LeaseStep ==
  ASSUME Preempt = FALSE
  PROVE  TypeOK /\ PayloadsKnown /\ StampInv /\ LeaseInv /\ [Next]_vars => LeaseInv'
<1> SUFFICES ASSUME TypeOK, PayloadsKnown, StampInv, LeaseInv, [Next]_vars
             PROVE  LeaseInv'
  OBVIOUS
<1>1. CASE UNCHANGED vars
  <2>1. UNCHANGED <<tasks, processing, claims, snapshot, pc, task, remembered>>
    BY <1>1 DEF vars, store, worker, reaper
  <2>2. Claimed' = Claimed /\ \A v \in Workers : Responsible(v)' => Responsible(v)
    BY <2>1 DEF Claimed, Responsible, Executing
  <2>3. ListsApart(JobOf)'
    BY <2>1, ListsStayApart DEF LeaseInv
  <2> QED BY <2>1, <2>2, <2>3, LeaseFrame
<1> QED BY <1>1, ProducerLease, WorkerLease, ReaperLease DEF Next, StampInv

(* LeaseInv says of the lists and the workers what the runs check. *)
LEMMA LeaseMeans ==
  ASSUME TypeOK, LeaseInv
  PROVE  SingleCopy /\ OneExecutor
<1>1. ASSUME NEW j \in Jobs
      PROVE  Cardinality(PendingOf(j)) + Cardinality(InProcessing(j)) <= 1
  <2>1. /\ \A i \in DOMAIN tasks : tasks[i] \in Payload
        /\ \A i \in DOMAIN processing : processing[i] \in Payload
    BY DEF TypeOK, StoreTypeOK
  <2>2. /\ \A i, k \in PendingOf(j) : i = k
        /\ \A i, k \in InProcessing(j) : i = k
    BY <2>1 DEF LeaseInv, ListsApart, Apart, JobOf, PendingOf, InProcessing
  <2>3. PendingOf(j) = {} \/ InProcessing(j) = {}
    BY <2>1 DEF LeaseInv, ListsApart, NoneLike, JobOf, PendingOf, InProcessing, Range
  <2>4. \A S : (\A i, k \in S : i = k) => S = {} \/ \E i : S = {i}
    <3> SUFFICES ASSUME NEW S, \A i, k \in S : i = k, S # {} PROVE \E i : S = {i}
      OBVIOUS
    <3>1. PICK i \in S : TRUE
      OBVIOUS
    <3>2. S = {i}
      BY <3>1
    <3> QED BY <3>2
  <2>5. \A S : S = {} \/ (\E i : S = {i}) => Cardinality(S) = 0 \/ Cardinality(S) = 1
    BY FS_EmptySet, FS_Singleton
  <2>6. \/ Cardinality(PendingOf(j)) = 0 /\ Cardinality(InProcessing(j)) \in {0, 1}
        \/ Cardinality(InProcessing(j)) = 0 /\ Cardinality(PendingOf(j)) \in {0, 1}
    BY <2>2, <2>3, <2>4, <2>5, FS_EmptySet
  <2> QED BY <2>6
<1>2. OneExecutor
  BY DEF LeaseInv, OwnerAlone, OneExecutor, Responsible
<1> QED BY <1>1, <1>2 DEF SingleCopy

(* The invariants that the theorems below rest on. *)
LEMMA Leased ==
  ASSUME Preempt = FALSE
  PROVE  Spec => [](TypeOK /\ LeaseInv)
<1>1. Init => StampInv /\ LeaseInv
  BY LeaseInit
<1>2. TypeOK /\ PayloadsKnown /\ StampInv /\ [Next]_vars => StampInv'
  BY StampStep
<1>3. TypeOK /\ PayloadsKnown /\ StampInv /\ LeaseInv /\ [Next]_vars => LeaseInv'
  BY LeaseStep
<1> QED BY <1>1, <1>2, <1>3, Inductive, PTL DEF Spec, IInv

(***************************************************************************)
(* With a timeout that exceeds every execution, a job has one copy in the  *)
(* two lists at most, whatever crashes and whichever Redis call fails.     *)
(***************************************************************************)
THEOREM OneCopy ==
  ASSUME Preempt = FALSE
  PROVE  Spec => []SingleCopy
<1>1. TypeOK /\ LeaseInv => SingleCopy
  BY LeaseMeans
<1> QED BY <1>1, Leased, PTL

(***************************************************************************)
(* With such a timeout no job is executed by two workers at a time.        *)
(***************************************************************************)
THEOREM OneWorker ==
  ASSUME Preempt = FALSE
  PROVE  Spec => []OneExecutor
<1>1. TypeOK /\ LeaseInv => OneExecutor
  BY LeaseMeans
<1> QED BY <1>1, Leased, PTL

----------------------------------------------------------------------------
(* The status of a job that left the queue *)

(* Nobody takes the payload of a working worker away. *)
LEMMA WorkedStep ==
  ASSUME Preempt = FALSE
  PROVE  TypeOK /\ LeaseInv /\ WorkedHeld /\ [Next]_vars => WorkedHeld'
<1> SUFFICES ASSUME TypeOK, LeaseInv, WorkedHeld, [Next]_vars PROVE WorkedHeld'
  OBVIOUS
<1>1. \A w \in Workers : Working(w) => Responsible(w)
  BY DEF Working, Responsible, Executing
<1>2. ASSUME UNCHANGED <<processing, pc, task>> PROVE WorkedHeld'
  BY <1>2 DEF WorkedHeld, Working
<1>3. ASSUME ProducerNext, UNCHANGED <<worker, reaper>> PROVE WorkedHeld'
  <2>1. UNCHANGED processing
    BY <1>3 DEF ProducerNext, Enqueue, EnqueueFails, SaveQueuedStatus, PushNewTask,
                CountSubmitted, store
  <2> QED BY <1>2, <1>3, <2>1 DEF worker
<1>4. ASSUME WorkerNext PROVE WorkedHeld'
  <2>1. PICK w \in Workers : Dequeue(w) \/ Keeps(w) \/ Drops(w) \/ Requeue(w)
    BY <1>4, WorkerMoves
  <2>2. CASE Dequeue(w)
    <3>1. Range(processing') = Range(processing) \cup {Head(tasks)}
      BY <2>2, DequeueCopies
    <3>2. /\ task'[w] = Head(tasks)
          /\ \A v \in Workers \ {w} : pc'[v] = pc[v] /\ task'[v] = task[v]
      BY <2>2 DEF Dequeue, Goto, TypeOK, WorkerTypeOK
    <3> QED BY <3>1, <3>2 DEF WorkedHeld, Working
  <2>3. CASE Keeps(w)
    BY <2>3 DEF Keeps, OthersStay, Stays, WorkedHeld, Working
  <2>4. CASE Drops(w) \/ Requeue(w)
    <3>1. /\ Responsible(w) /\ Ack(task[w], remembered[w]) /\ task' = task
          /\ ~Working(w)'
          /\ \A v \in Workers \ {w} : pc'[v] = pc[v]
      BY <2>4 DEF Drops, Requeue, Forget, Goto, OthersStay, Responsible, Executing, Working,
                  TypeOK, WorkerTypeOK
    <3>2. task[w] \in Payload /\ StoreTypeOK
      BY <3>1, OwnsCopy DEF TypeOK
    <3>3. Range(processing) \ {task[w]} \subseteq Range(processing')
      BY <3>1, <3>2, AckEffect
    <3>4. \A v \in Workers \ {w} : Working(v) => task[v] # task[w]
      BY <1>1, <3>1 DEF LeaseInv, OwnerAlone
    <3>5. \A v \in Workers \ {w} : Working(v)' => Working(v)
      BY <3>1 DEF Working
    <3> QED BY <3>1, <3>3, <3>4, <3>5 DEF WorkedHeld
  <2> QED BY <2>1, <2>2, <2>3, <2>4
<1>5. ASSUME ReaperNext, UNCHANGED worker PROVE WorkedHeld'
  <2>1. CASE Forgets \/ \E r \in Reapers : Scan(r)
    BY <1>2, <1>5, <2>1 DEF Forgets, Scan, store, worker
  <2>2. ASSUME NEW r \in Reapers, NEW c \in snapshot[r], TakesBack(c) PROVE WorkedHeld'
    <3>1. Range(processing) \ {c.payload} \subseteq Range(processing')
      BY <2>2, RemoveProcessingEffect DEF TakesBack, TypeOK
    <3>2. \A w \in Workers : Working(w) => task[w] # c.payload
      BY <1>1, <2>2 DEF LeaseInv, ScannedIdle, TakesBack
    <3> QED BY <1>5, <3>1, <3>2 DEF WorkedHeld, Working, worker
  <2> QED BY <1>5, <2>1, <2>2, ReaperMoves
<1>6. CASE UNCHANGED vars
  BY <1>2, <1>6 DEF vars, store, worker
<1> QED BY <1>3, <1>4, <1>5, <1>6 DEF Next

(* Only a worker that holds the job calls it processing. *)
LEMMA SettledStep ==
  IInv /\ WorkedHeld /\ SettledStatus /\ [Next]_vars => SettledStatus'
<1> SUFFICES ASSUME IInv, WorkedHeld, SettledStatus, [Next]_vars PROVE SettledStatus'
  OBVIOUS
<1>1. TypeOK
  BY DEF IInv
<1>2. ASSUME NEW j \in Jobs, StatusStep(j), Submitted(j)' <=> Submitted(j)
      PROVE  Submitted(j)' /\ ~Held(j)' => status'[j] \in {"completed", "failed"}
  <2>1. (\E w \in Workers : pc[w] = "save_processing" /\ task[w].job = j) => Held(j)
    BY HeldByCopies DEF WorkedHeld, Working, Copies
  <2> HIDE DEF Held, Submitted
  <2> QED BY <1>2, <2>1 DEF StatusStep, SameFate, SettledStatus
<1>3. ASSUME WorkerNext \/ ReaperNext, UNCHANGED stage,
             \A j \in Jobs : StatusStep(j)
      PROVE  SettledStatus'
  <2>1. \A j \in Jobs : Submitted(j)' <=> Submitted(j)
    BY <1>3 DEF Submitted
  <2> QED BY <1>2, <1>3, <2>1 DEF SettledStatus
<1>4. ASSUME ProducerNext PROVE SettledStatus'
  <2> SUFFICES ASSUME NEW j \in Jobs
               PROVE  Submitted(j)' /\ ~Held(j)' => status'[j] \in {"completed", "failed"}
    BY DEF SettledStatus
  <2>1. /\ Held(j) => Held(j)'
        /\ \/ status'[j] = status[j]
           \/ status'[j] = "queued" /\ stage[j] = "new" /\ stage'[j] = "push"
        /\ Submitted(j)' => Submitted(j) \/ Held(j)'
    BY <1>1, <1>4, ProducerStatus
  <2>2. stage'[j] = "push" => ~Submitted(j)'
    BY DEF Submitted
  <2> HIDE DEF Held, Submitted
  <2> QED BY <2>1, <2>2 DEF SettledStatus
<1>5. CASE UNCHANGED vars
  BY <1>5 DEF vars, store, SettledStatus, Submitted, Held, PendingOf, InProcessing
<1> QED BY <1>1, <1>3, <1>4, <1>5, WorkerStatus, ReaperStatus DEF Next

(***************************************************************************)
(* With such a timeout the status of a submitted job is final once the     *)
(* queue has no copy of it: no client polls a job for ever that nobody     *)
(* will touch again.                                                       *)
(***************************************************************************)
THEOREM SettledIsFinal ==
  ASSUME Preempt = FALSE
  PROVE  Spec => []SettledStatus
<1>1. Init => WorkedHeld /\ SettledStatus
  BY DEF Init, ProducerInit, WorkerInit, WorkedHeld, Working, SettledStatus, Submitted
<1>2. TypeOK /\ LeaseInv /\ WorkedHeld /\ [Next]_vars => WorkedHeld'
  BY WorkedStep
<1>3. IInv /\ WorkedHeld /\ SettledStatus /\ [Next]_vars => SettledStatus'
  BY SettledStep
<1> QED BY <1>1, <1>2, <1>3, Leased, Inductive, PTL DEF Spec

----------------------------------------------------------------------------
(* What the reaper can find *)

(* A step keeps the claims of what it leaves in processing, and the workers *)
(* that are about to write theirs.                                          *)
LEMMA ClaimedStays ==
  ASSUME ProcessingClaimed,
         \A p \in Range(processing') :
           p \in Range(processing) /\ (HasClaim(p) => claims'[p.job] = claims[p.job]),
         \A p \in Range(processing') : \A w \in Workers :
           Claiming(w) /\ task[w] = p => Claiming(w)' /\ task'[w] = p
  PROVE  ProcessingClaimed'
<1> SUFFICES ASSUME NEW p \in Range(processing')
             PROVE  HasClaim(p)' \/ \E w \in Workers : Claiming(w)' /\ task'[w] = p
  BY DEF ProcessingClaimed
<1>1. CASE HasClaim(p)
  BY <1>1 DEF HasClaim
<1>2. CASE \E w \in Workers : Claiming(w) /\ task[w] = p
  BY <1>2
<1> QED BY <1>1, <1>2 DEF ProcessingClaimed

(* A worker leaves no payload without a claim unless it dies before its HSET. *)
LEMMA WorkerClaims ==
  ASSUME "record_claim" \notin CrashPcs, TypeOK, LeaseInv, ProcessingClaimed, WorkerNext
  PROVE  ProcessingClaimed'
<1>1. PICK w \in Workers : WorkerStep(w) \/ Crash(w)
  BY DEF WorkerNext
<1>2. /\ \A p \in Range(processing) : p \in Payload /\ p.job \in Jobs
      /\ WorkerTypeOK /\ claims \in [Jobs -> Claim \cup {NoClaim}]
  BY KeptPayloads DEF Copies, TypeOK, StoreTypeOK
<1>3. CASE Dequeue(w)
  <2>1. Range(processing') = Range(processing) \cup {Head(tasks)}
    BY <1>3, DequeueCopies
  <2>2. /\ UNCHANGED claims /\ Claiming(w)' /\ ~Claiming(w) /\ task'[w] = Head(tasks)
        /\ \A v \in Workers \ {w} : pc'[v] = pc[v] /\ task'[v] = task[v]
    BY <1>2, <1>3 DEF Dequeue, Goto, WorkerTypeOK, Claiming
  <2> QED BY <2>1, <2>2 DEF ProcessingClaimed, Claiming, HasClaim
<1>4. CASE RecordClaim(w) \/ MarkStarted(w)
  <2>1. Responsible(w)
    BY <1>4 DEF RecordClaim, MarkStarted, Goto, Responsible, Executing
  <2>2. /\ task[w].job \in Jobs
        /\ \A p \in Range(processing) : p.job = task[w].job => p = task[w]
    BY <2>1, OwnsCopy DEF Payload
  <2>3. PICK c \in Claim : c.payload = task[w] /\ claims' = [claims EXCEPT ![task[w].job] = c]
    <3>1. PICK b \in BOOLEAN : PutClaim(ClaimOf(w, task[w], b, reading[w] + 1))
      BY <1>4 DEF RecordClaim, MarkStarted, WriteClaim
    <3>2. ClaimOf(w, task[w], b, reading[w] + 1) \in Claim
      BY <1>2, <2>1, OwnsCopy DEF Claim, ClaimOf, WorkerTypeOK
    <3> QED BY <3>1, <3>2 DEF PutClaim, ClaimOf
  <2>4. /\ UNCHANGED <<processing, task>>
        /\ \A v \in Workers \ {w} : pc'[v] = pc[v]
    BY <1>2, <1>4 DEF RecordClaim, MarkStarted, WriteClaim, Goto, WorkerTypeOK
  <2>5. ASSUME NEW p \in Range(processing)
        PROVE  HasClaim(p)' \/ \E v \in Workers : Claiming(v)' /\ task'[v] = p
    <3>1. CASE p = task[w]
      <4>1. claims'[p.job] = c
        BY <1>2, <2>2, <2>3, <3>1
      <4> QED BY <2>3, <3>1, <4>1, NoClaimIsNone DEF HasClaim
    <3>2. CASE p # task[w]
      <4>1. p.job # task[w].job /\ claims'[p.job] = claims[p.job]
        BY <1>2, <2>2, <2>3, <3>2
      <4>2. HasClaim(p) \/ \E v \in Workers : Claiming(v) /\ task[v] = p
        BY DEF ProcessingClaimed
      <4> QED BY <2>4, <3>2, <4>1, <4>2 DEF HasClaim, Claiming
    <3> QED BY <3>1, <3>2
  <2> QED BY <2>4, <2>5 DEF ProcessingClaimed
<1>5. CASE Requeue(w) \/ SaveResult(w) \/ SaveResultReplyLost(w) \/ SetError(w)
  <2>1. /\ Responsible(w) /\ Ack(task[w], remembered[w]) /\ task' = task /\ ~Claiming(w)
        /\ \A v \in Workers \ {w} : pc'[v] = pc[v]
    BY <1>2, <1>5 DEF Requeue, SaveResult, SaveResultReplyLost, StoreResult, SetError, Goto,
                      Responsible, Executing, Claiming, WorkerTypeOK
  <2>2. /\ Range(processing') \subseteq Range(processing)
        /\ \A p \in Range(processing') : p.job # task[w].job
    BY <2>1, AckedGone
  <2>3. \A p \in Range(processing') : claims'[p.job] = claims[p.job]
    BY <1>2, <2>1, <2>2 DEF Ack, DropClaim
  <2>4. \A v \in Workers : Claiming(v) => Claiming(v)' /\ task'[v] = task[v]
    BY <2>1 DEF Claiming
  <2> QED BY <2>2, <2>3, <2>4, ClaimedStays
<1>6. CASE \/ SaveProcessing(w) \/ InferenceFails(w) \/ CountCompletedFails(w)
           \/ HandlerFails(w) \/ CountAttempt(w) \/ ObserveWait(w) \/ CountCompleted(w)
           \/ CountRetry(w) \/ CountFailed(w) \/ CountDead(w) \/ RecordDuration(w)
           \/ Crash(w)
  <2>1. /\ UNCHANGED <<processing, claims>> /\ ~Claiming(w)
        /\ \A v \in Workers \ {w} : pc'[v] = pc[v] /\ task'[v] = task[v]
    BY <1>2, <1>6 DEF SaveProcessing, InferenceFails, CountCompletedFails, HandlerFails,
                      CountAttempt, ObserveWait, CountCompleted, CountRetry, CountFailed,
                      CountDead, CountStep, RecordDuration, Crash, Reset, Goto, store,
                      Claiming, WorkerTypeOK
  <2>2. \A v \in Workers : Claiming(v) => Claiming(v)' /\ task'[v] = task[v]
    BY <2>1 DEF Claiming
  <2> QED BY <2>1, <2>2, ClaimedStays
<1> QED BY <1>1, <1>3, <1>4, <1>5, <1>6 DEF WorkerStep

(* A reaper deletes no claim but that of the payload it takes back, or one  *)
(* whose payload has left the list.                                         *)
LEMMA ReaperClaims ==
  ASSUME TypeOK, LeaseInv, ProcessingClaimed, ReaperNext, UNCHANGED worker
  PROVE  ProcessingClaimed'
<1>1. PICK r \in Reapers : Scan(r) \/ ReaperStep(r) \/ ScanFails(r)
  BY DEF ReaperNext
<1>2. /\ \A p \in Range(processing) : p \in Payload /\ p.job \in Jobs
      /\ claims \in [Jobs -> Claim \cup {NoClaim}]
      /\ snapshot \in [Reapers -> SUBSET Claim]
  BY KeptPayloads DEF Copies, TypeOK, StoreTypeOK, ReaperTypeOK
<1>3. \A w \in Workers : Claiming(w) => Claiming(w)' /\ task'[w] = task[w]
  BY DEF worker, Claiming
<1>4. CASE UNCHANGED <<processing, claims>>
  BY <1>3, <1>4, ClaimedStays
<1>5. ASSUME NEW c \in snapshot[r], DropOrphanClaim(r, c) PROVE ProcessingClaimed'
  <2>1. /\ UNCHANGED processing /\ c.payload \notin Range(processing)
        /\ claims[c.payload.job] = c
        /\ claims' = [claims EXCEPT ![c.payload.job] = NoClaim]
    BY <1>5 DEF DropOrphanClaim, DropClaim, ClaimUnchanged
  <2>2. \A p \in Range(processing) : HasClaim(p) => claims'[p.job] = claims[p.job]
    BY <1>2, <2>1 DEF HasClaim
  <2> QED BY <1>3, <2>1, <2>2, ClaimedStays
<1>6. ASSUME NEW c \in snapshot[r], Recover(r, c) \/ Bury(r, c) PROVE ProcessingClaimed'
  <2>1. /\ c \in Claim /\ TakesBack(c)
        /\ claims' = [claims EXCEPT ![c.payload.job] = NoClaim]
    BY <1>2, <1>6 DEF Recover, Bury, TakeBack, DropClaim, Handle, TakesBack
  <2>2. /\ Range(processing') \subseteq Range(processing)
        /\ NoneLike(Range(processing'), JobOf, c.payload) /\ c.payload \in Payload
    BY <2>1, TakesBackCopies DEF LeaseInv
  <2>3. \A p \in Range(processing') : p.job # c.payload.job
    BY <1>2, <2>2 DEF NoneLike, JobOf
  <2>4. \A p \in Range(processing') : claims'[p.job] = claims[p.job]
    BY <1>2, <2>1, <2>2, <2>3
  <2> QED BY <1>3, <2>2, <2>4, ClaimedStays
<1>7. ASSUME \/ Scan(r) \/ ScanFails(r)
             \/ \E c \in snapshot[r] : SkipChangedClaim(r, c)
             \/ CountRecovered(r) \/ CountBuried(r) \/ CountBuriedDead(r)
      PROVE  UNCHANGED <<processing, claims>>
  BY <1>7 DEF Scan, ScanFails, SkipChangedClaim, CountRecovered, CountBuried,
              CountBuriedDead, ReaperCount, store
<1> QED BY <1>1, <1>4, <1>5, <1>6, <1>7 DEF ReaperStep, HandleClaim

(***************************************************************************)
(* If, besides, no worker dies between the BLMOVE and the HSET of its      *)
(* claim, nothing in the processing list is out of the reaper's sight.     *)
(***************************************************************************)
THEOREM AlwaysInSight ==
  ASSUME Preempt = FALSE, "record_claim" \notin CrashPcs
  PROVE  Spec => []ClaimedOrExecuted
<1>1. Init => ProcessingClaimed
  BY DEF Init, StoreInit, ProcessingClaimed, Range
<1>2. TypeOK /\ LeaseInv /\ ProcessingClaimed /\ [Next]_vars => ProcessingClaimed'
  <2> SUFFICES ASSUME TypeOK, LeaseInv, ProcessingClaimed, [Next]_vars
               PROVE  ProcessingClaimed'
    OBVIOUS
  <2>1. ASSUME UNCHANGED <<processing, claims, pc, task>> PROVE ProcessingClaimed'
    BY <2>1 DEF ProcessingClaimed, HasClaim, Claiming
  <2>2. ASSUME ProducerNext, UNCHANGED <<worker, reaper>> PROVE ProcessingClaimed'
    <3>1. UNCHANGED <<processing, claims>>
      BY <2>2 DEF ProducerNext, Enqueue, EnqueueFails, SaveQueuedStatus, PushNewTask,
                  CountSubmitted, store
    <3> QED BY <2>1, <2>2, <3>1 DEF worker
  <2>3. CASE UNCHANGED vars
    BY <2>1, <2>3 DEF vars, store, worker
  <2> QED BY <2>2, <2>3, WorkerClaims, ReaperClaims DEF Next
<1>3. TypeOK /\ ProcessingClaimed => ClaimedOrExecuted
  BY DEF ProcessingClaimed, ClaimedOrExecuted, HasClaim, Claiming, Executing, Range
<1> QED BY <1>1, <1>2, <1>3, Leased, PTL DEF Spec

----------------------------------------------------------------------------
(***************************************************************************)
(* The queue implements JobLease, when no claim expires early and no Redis *)
(* call fails.  First what the refinement mapping depends on.              *)
(***************************************************************************)
Waits(j) == \E p \in Range(tasks) : p.job = j

Runs(j) == \E p \in Range(processing) : p.job = j

Owns(w, j) == Executing(w) /\ task[w].job = j

OwnerOf(j) == IF OwnersOf(j) = {} THEN NoTask ELSE CHOOSE w \in OwnersOf(j) : TRUE

(* Whoever executes a payload holds it in processing. *)
ExecutingHeld == \A w \in Workers : Executing(w) => task[w] \in Range(processing)

(* A job that became a dead letter has left the lists. *)
BuriedGone == \A p \in Copies : \A d \in Letters : d.payload.job # p.job

(* The inductive invariant of the refinement. *)
LeaseHeld ==
  /\ TypeOK
  /\ PayloadsKnown
  /\ DeadLettersKnown
  /\ StampInv
  /\ LeaseInv
  /\ ExecutingHeld
  /\ BuriedGone

(* The phase and the owner of a job, in these terms. *)
Place(j) ==
  /\ Waits(j) \/ Runs(j) => Submitted(j)
  /\ ~(Waits(j) /\ Runs(j))
  /\ ~Submitted(j) => Phase(j) = "new"
  /\ Waits(j) => Phase(j) = "waiting"
  /\ Runs(j) => Phase(j) = "leased"
  /\ Submitted(j) /\ ~Waits(j) /\ ~Runs(j) /\ Buried(j) => Phase(j) = "buried"
  /\ Submitted(j) /\ ~Waits(j) /\ ~Runs(j) /\ ~Buried(j) => Phase(j) = "stored"
  /\ \A w \in Workers : Owns(w, j) => Runs(j) /\ OwnerOf(j) = w
  /\ (\A w \in Workers : ~Owns(w, j)) => OwnerOf(j) = NoTask
  /\ Buried(j) => ~Waits(j) /\ ~Runs(j)

Places == \A j \in Jobs : Place(j)

(* The invariant gives every job its place, *)
LEMMA PlacesFound == LeaseHeld => Places
<1> SUFFICES ASSUME LeaseHeld, NEW j \in Jobs PROVE Place(j)
  BY DEF Places
<1>1. /\ TypeOK /\ LeaseInv
      /\ \A p \in Copies : p \in Payload /\ Submitted(p.job)
  BY KeptPayloads DEF LeaseHeld, PayloadsKnown, Known, Copies
<1>2. /\ Waits(j) <=> PendingOf(j) # {}
      /\ Runs(j) <=> InProcessing(j) # {}
  BY DEF Waits, Runs, PendingOf, InProcessing, Range
<1>3. Waits(j) \/ Runs(j) => Submitted(j)
  BY <1>1 DEF Waits, Runs, Copies
<1>4. ~(Waits(j) /\ Runs(j))
  <2> SUFFICES ASSUME NEW p \in Range(tasks), NEW q \in Range(processing), p.job = q.job
               PROVE  FALSE
    BY DEF Waits, Runs
  <2>1. p \in Payload /\ q \in Payload /\ JobOf[p] # JobOf[q]
    BY <1>1 DEF LeaseInv, ListsApart, NoneLike, Copies
  <2> QED BY <2>1 DEF JobOf
<1>5. /\ ~Submitted(j) => Phase(j) = "new"
      /\ Waits(j) => Phase(j) = "waiting"
      /\ Runs(j) => Phase(j) = "leased"
      /\ Submitted(j) /\ ~Waits(j) /\ ~Runs(j) /\ Buried(j) => Phase(j) = "buried"
      /\ Submitted(j) /\ ~Waits(j) /\ ~Runs(j) /\ ~Buried(j) => Phase(j) = "stored"
  <2> HIDE DEF Waits, Runs, Submitted, Buried, PendingOf, InProcessing
  <2> QED BY <1>2, <1>3, <1>4 DEF Phase, Held
<1>6. \A w \in Workers : Owns(w, j) => Runs(j)
  BY DEF LeaseHeld, ExecutingHeld, Owns, Runs
<1>7. ASSUME NEW w \in Workers, Owns(w, j) PROVE OwnerOf(j) = w
  <2>1. OwnersOf(j) = {w}
    BY <1>1, <1>7 DEF OwnersOf, Owns, LeaseInv, OwnerAlone, Responsible
  <2>2. (CHOOSE v \in {w} : TRUE) = w
    OBVIOUS
  <2> HIDE DEF OwnersOf
  <2> QED BY <2>1, <2>2 DEF OwnerOf
<1>8. (\A w \in Workers : ~Owns(w, j)) => OwnerOf(j) = NoTask
  BY DEF OwnerOf, OwnersOf, Owns
<1>9. Buried(j) => ~Waits(j) /\ ~Runs(j)
  BY BuriedByLetters DEF LeaseHeld, BuriedGone, Copies, Waits, Runs
<1> QED BY <1>3, <1>4, <1>5, <1>6, <1>7, <1>8, <1>9 DEF Place

(* in the next state too. *)
LEMMA PlacesFoundNext == LeaseHeld' => Places'
  BY PlacesFound, PTL

(* Nothing of what the phase and the owner of a job depend on changes. *)
SamePlace(j) ==
  /\ Waits(j)' <=> Waits(j)
  /\ Runs(j)' <=> Runs(j)
  /\ Submitted(j)' <=> Submitted(j)
  /\ Buried(j)' <=> Buried(j)
  /\ \A w \in Workers : Owns(w, j)' <=> Owns(w, j)

(* Then the job keeps its phase and its owner. *)
LEMMA SameLease ==
  ASSUME Places, Places', NEW j \in Jobs, SamePlace(j)
  PROVE  Phase(j)' = Phase(j) /\ OwnerOf(j)' = OwnerOf(j)
<1>1. Place(j) /\ Place(j)'
  BY DEF Places
<1> HIDE DEF Waits, Runs, Submitted, Buried, Owns, Phase, OwnerOf
<1>2. Phase(j)' = Phase(j)
  BY <1>1 DEF Place, SamePlace
<1>3. OwnerOf(j)' = OwnerOf(j)
  <2>1. CASE \E w \in Workers : Owns(w, j)
    <3>1. PICK w \in Workers : Owns(w, j)
      BY <2>1
    <3>2. Owns(w, j)'
      BY <3>1 DEF SamePlace
    <3> QED BY <1>1, <3>1, <3>2 DEF Place
  <2>2. CASE \A w \in Workers : ~Owns(w, j)
    BY <1>1, <2>2 DEF Place, SamePlace
  <2> QED BY <2>1, <2>2
<1> QED BY <1>2, <1>3

(* A step that changes the place of no job is none of JobLease, *)
LEMMA LeaseStutters ==
  ASSUME Places, Places', \A j \in Jobs : SamePlace(j)
  PROVE  UNCHANGED Lease!vars
<1>1. \A j \in Jobs : Phase(j)' = Phase(j) /\ OwnerOf(j)' = OwnerOf(j)
  BY SameLease
<1> QED BY <1>1 DEF Lease!vars, OwnerOf

(* and one that changes that of a single job is a move of its lease. *)
LEMMA LeaseMoves ==
  ASSUME Places, Places', NEW j \in Jobs, NEW from, NEW to, NEW w,
         \A i \in Jobs \ {j} : SamePlace(i),
         Phase(j) = from, Phase(j)' = to, OwnerOf(j)' = w
  PROVE  Lease!Move(j, from, to, w)
<1>1. \A i \in Jobs \ {j} : Phase(i)' = Phase(i) /\ OwnerOf(i)' = OwnerOf(i)
  BY SameLease
<1> HIDE DEF Phase
<1>2. /\ [i \in Jobs |-> Phase(i)][j] = from
      /\ [i \in Jobs |-> Phase(i)]' = [[i \in Jobs |-> Phase(i)] EXCEPT ![j] = to]
  BY <1>1
<1>3. [i \in Jobs |-> OwnerOf(i)]' = [[i \in Jobs |-> OwnerOf(i)] EXCEPT ![j] = w]
  <2> HIDE DEF OwnerOf
  <2> QED BY <1>1
<1> QED BY <1>2, <1>3 DEF Lease!Move, OwnerOf

(***************************************************************************)
(* The steps, by what they do to the lease of one job.                     *)
(***************************************************************************)
(* Payload p leaves the processing list for good: its result is stored, its  *)
(* job is pushed again, or becomes a dead letter, and the status says which. *)
Leaves(p) ==
  /\ p \in Payload /\ p \in Range(processing)
  /\ Range(processing) \ {p} \subseteq Range(processing')
  /\ Range(processing') \subseteq Range(processing)
  /\ \A x \in Range(processing') : x.job # p.job
  /\ \/ /\ UNCHANGED <<tasks, deadLetter>>
        /\ results' = results \cup {p.job} /\ SetStatus(p.job, "completed")
     \/ /\ UNCHANGED <<deadLetter, results>> /\ SetStatus(p.job, "queued")
        /\ \E q : q.job = p.job /\ Range(tasks') = Range(tasks) \cup {q}
     \/ /\ UNCHANGED <<tasks, results>> /\ SetStatus(p.job, "failed")
        /\ \E d : d.payload.job = p.job /\ Letters' = Letters \cup {d}

(* Nothing happens to the lists, and w executes on or stops. *)
GoesOn(w) ==
  /\ UNCHANGED <<tasks, processing, deadLetter, results>>
  /\ UNCHANGED status \/ (Executing(w) /\ SetStatus(task[w].job, "processing"))
  /\ OthersStay(w)
  /\ Executing(w)' => Executing(w) /\ task'[w] = task[w]

(* The worker that executes p is done with it. *)
Returns(w) ==
  /\ OthersStay(w)
  /\ Executing(w) /\ ~Executing(w)'
  /\ Leaves(task[w])

(* Without failing calls every step of a worker is one of three kinds. *)
LEMMA WorkerReturns ==
  ASSUME RedisErrors = FALSE, LeaseHeld, WorkerNext
  PROVE  \E w \in Workers : Dequeue(w) \/ GoesOn(w) \/ Returns(w)
<1>1. /\ TypeOK /\ WorkerTypeOK /\ LeaseInv /\ StampsGiven
      /\ tasks \in Seq(Payload) /\ deadLetter \in Seq(DeadLetter)
  BY DEF LeaseHeld, TypeOK, StoreTypeOK, StampInv
<1>2. PICK w \in Workers : WorkerStep(w) \/ Crash(w)
  BY DEF WorkerNext
<1>3. CASE RecordClaim(w) \/ MarkStarted(w) \/ SaveProcessing(w) \/ InferenceFails(w)
  <2>1. /\ UNCHANGED <<tasks, processing, deadLetter, results>>
        /\ UNCHANGED status \/ SetStatus(task[w].job, "processing")
    BY <1>3 DEF RecordClaim, MarkStarted, WriteClaim, SaveProcessing, InferenceFails, store
  <2>2. OthersStay(w) /\ Executing(w) /\ task'[w] = task[w]
    BY <1>1, <1>3 DEF RecordClaim, MarkStarted, WriteClaim, SaveProcessing, InferenceFails, Goto,
                      WorkerTypeOK, OthersStay, Executing
  <2> QED BY <2>1, <2>2 DEF GoesOn
<1>4. CASE \/ CountAttempt(w) \/ ObserveWait(w) \/ CountCompleted(w)
           \/ CountRetry(w) \/ CountFailed(w) \/ CountDead(w)
  <2>1. UNCHANGED <<tasks, processing, deadLetter, results, status>>
    BY <1>4 DEF CountAttempt, ObserveWait, CountCompleted, CountRetry, CountFailed,
                CountDead, CountStep
  <2>2. OthersStay(w) /\ (Executing(w)' => Executing(w) /\ task'[w] = task[w])
    BY <1>1, <1>4 DEF CountAttempt, ObserveWait, CountCompleted, CountRetry, CountFailed,
                      CountDead, CountStep, Goto, WorkerTypeOK, OthersStay, Executing
  <2> QED BY <2>1, <2>2 DEF GoesOn
<1>5. CASE RecordDuration(w) \/ Crash(w)
  <2>1. UNCHANGED <<tasks, processing, deadLetter, results, status>>
    BY <1>5 DEF RecordDuration, Crash, store
  <2>2. OthersStay(w) /\ ~Executing(w)'
    BY <1>1, <1>5 DEF RecordDuration, Crash, Reset, Forget, WorkerTypeOK, OthersStay,
                      Executing
  <2> QED BY <2>1, <2>2 DEF GoesOn
<1>6. ASSUME SaveResult(w) \/ Requeue(w) \/ SetError(w) PROVE Returns(w)
  <2>1. /\ OthersStay(w) /\ Executing(w) /\ ~Executing(w)' /\ Ack(task[w], remembered[w])
        /\ task' = task
    BY <1>1, <1>6 DEF SaveResult, StoreResult, Requeue, SetError, Forget, Goto,
                      WorkerTypeOK, OthersStay, Executing
  <2>2. Responsible(w) /\ task[w] \in Payload /\ task[w].job \in Jobs /\ StoreTypeOK
    BY <1>1, <2>1, OwnsCopy DEF Responsible, TypeOK, Payload
  <2>3. /\ \A x \in Range(processing') : x.job # task[w].job
        /\ Range(processing') \subseteq Range(processing)
        /\ Range(processing) \ {task[w]} \subseteq Range(processing')
    BY <1>1, <2>1, <2>2, AckedGone, AckEffect
  <2>4. task[w] \in Range(processing)
    BY <2>1 DEF LeaseHeld, ExecutingHeld
  <2>5. CASE SaveResult(w)
    BY <2>1, <2>2, <2>3, <2>4, <2>5 DEF SaveResult, StoreResult, Returns, Leaves
  <2>6. CASE Requeue(w)
    <3>1. PICK q \in Payload :
            Range(tasks') = Range(tasks) \cup {q} /\ q.job = task[w].job
      BY <1>1, <2>6, RequeueCopies
    <3> QED BY <2>1, <2>2, <2>3, <2>4, <2>6, <3>1 DEF Requeue, Returns, Leaves
  <2>7. CASE SetError(w)
    <3> DEFINE d == [payload |-> task[w], reason |-> "retry_limit"]
    <3>1. d \in DeadLetter /\ d.payload.job = task[w].job
      BY <2>2 DEF DeadLetter
    <3>2. Letters' = Letters \cup {d}
      BY <1>1, <2>7, <3>1, AppendRange DEF SetError, PushDeadLetter, Letters
    <3> QED BY <2>1, <2>2, <2>3, <2>4, <2>7, <3>1, <3>2 DEF SetError, Returns, Leaves
  <2> QED BY <1>6, <2>5, <2>6, <2>7
<1>7. ~SaveResultReplyLost(w) /\ ~CountCompletedFails(w) /\ ~HandlerFails(w)
  BY DEF SaveResultReplyLost, CountCompletedFails, HandlerFails
<1> QED BY <1>2, <1>3, <1>4, <1>5, <1>6, <1>7 DEF WorkerStep

(* What a reaper takes back is executed by nobody, and it is not dropped. *)
LEMMA ReaperExpires ==
  ASSUME LeaseHeld, ReaperNext, UNCHANGED <<stage, worker>>
  PROVE  \/ UNCHANGED <<tasks, processing, deadLetter, status, results>>
         \/ \E p : /\ Leaves(p) /\ ~UNCHANGED <<tasks, deadLetter>>
                   /\ \A w \in Workers : ~Owns(w, p.job)
<1>1. /\ TypeOK /\ StoreTypeOK /\ ReaperTypeOK /\ LeaseInv /\ PayloadsKnown
      /\ tasks \in Seq(Payload) /\ deadLetter \in Seq(DeadLetter)
      /\ \A p \in Copies : p \in Payload
  BY KeptPayloads DEF LeaseHeld, TypeOK, StoreTypeOK
<1>2. PICK r \in Reapers : Scan(r) \/ ReaperStep(r) \/ ScanFails(r)
  BY DEF ReaperNext
<1>3. CASE \/ Scan(r) \/ ScanFails(r)
           \/ \E c \in snapshot[r] : SkipChangedClaim(r, c) \/ DropOrphanClaim(r, c)
           \/ CountRecovered(r) \/ CountBuried(r) \/ CountBuriedDead(r)
  BY <1>3 DEF Scan, ScanFails, SkipChangedClaim, DropOrphanClaim, CountRecovered,
              CountBuried, CountBuriedDead, ReaperCount, store
<1>4. ASSUME NEW c \in snapshot[r], Recover(r, c) \/ Bury(r, c)
      PROVE  /\ Leaves(c.payload) /\ ~UNCHANGED <<tasks, deadLetter>>
             /\ \A w \in Workers : ~Owns(w, c.payload.job)
  <2> DEFINE p == c.payload
  <2>0. c \in Claim
    BY <1>1 DEF ReaperTypeOK
  <2>1. TakesBack(c) /\ c.payload \in Payload /\ c.payload.job \in Jobs
    <3>1. /\ claims \in [Jobs -> Claim \cup {NoClaim}]
          /\ snapshot \in [Reapers -> SUBSET Claim]
      BY <1>1 DEF StoreTypeOK, ReaperTypeOK
    <3>2. TakesBack(c)
      BY <1>4, <3>1 DEF Recover, Bury, TakeBack, DropClaim, Handle, TakesBack
    <3> QED BY <2>0, <3>2 DEF Claim, Payload
  <2>2. /\ p \in Range(processing)
        /\ Range(processing) \ {p} \subseteq Range(processing')
        /\ Range(processing') \subseteq Range(processing)
        /\ NoneLike(Range(processing'), JobOf, p)
    BY <1>1, <2>0, <2>1, TakesBackCopies, RemoveProcessingEffect DEF TakesBack, LeaseInv
  <2>3. \A x \in Range(processing') : x.job # p.job
    BY <1>1, <2>1, <2>2 DEF NoneLike, JobOf, Copies
  <2>4. Recovered(p) \in Payload /\ Recovered(p).job = p.job
    BY <2>1, PayloadUpdates
  <2>5. ASSUME NEW w \in Workers, Owns(w, p.job) PROVE FALSE
    <3>1. Responsible(w) /\ task[w] = p
      BY <1>1, <2>2, <2>5, OwnsCopy DEF Owns, Responsible
    <3> QED BY <1>1, <2>2, <3>1 DEF LeaseInv, ScannedIdle
  <2>6. CASE Recover(r, c)
    <3>1. Range(tasks') = Range(tasks) \cup {Recovered(p)} /\ tasks' # tasks
      BY <1>1, <2>4, <2>6, AppendRange DEF Recover, PushTask
    <3> HIDE DEF p
    <3> QED BY <2>1, <2>2, <2>3, <2>4, <2>5, <2>6, <3>1 DEF Recover, Leaves, p
  <2>7. CASE Bury(r, c)
    <3> DEFINE d == [payload |-> Recovered(p), reason |-> "recovery_limit"]
    <3>1. d \in DeadLetter /\ d.payload.job = p.job
      BY <2>4 DEF DeadLetter
    <3>2. Letters' = Letters \cup {d} /\ deadLetter' # deadLetter
      BY <1>1, <2>7, <3>1, AppendRange DEF Bury, PushDeadLetter, Letters
    <3> QED BY <2>1, <2>2, <2>3, <2>5, <2>7, <3>1, <3>2 DEF Bury, Leaves
  <2> QED BY <1>4, <2>6, <2>7
<1> QED BY <1>2, <1>3, <1>4 DEF ReaperStep, HandleClaim

(* A step about the lease of one job leaves the others where they are, *)
LEMMA LeavesFate ==
  ASSUME NEW p, Leaves(p), UNCHANGED stage, NEW j \in Jobs, j # p.job
  PROVE  /\ Waits(j)' <=> Waits(j)
         /\ Runs(j)' <=> Runs(j)
         /\ Submitted(j)' <=> Submitted(j)
         /\ Buried(j)' <=> Buried(j)
<1>1. Buried(j)' <=> Buried(j)
  <2>1. CASE UNCHANGED deadLetter
    BY <2>1 DEF Buried
  <2>2. CASE \E d : d.payload.job = p.job /\ Letters' = Letters \cup {d}
    <3>1. /\ Buried(j) <=> \E d \in Letters : d.payload.job = j
          /\ Buried(j)' <=> \E d \in Letters' : d.payload.job = j
      BY BuriedByLetters, HeldBuriedNext
    <3> QED BY <2>2, <3>1
  <2> QED BY <2>1, <2>2 DEF Leaves
<1>2. (Waits(j)' <=> Waits(j)) /\ (Runs(j)' <=> Runs(j))
  BY DEF Leaves, Waits, Runs
<1>3. Submitted(j)' <=> Submitted(j)
  BY DEF Submitted
<1> QED BY <1>1, <1>2, <1>3

(* and their owners with them. *)
LEMMA LeavesOthers ==
  ASSUME NEW p, Leaves(p), UNCHANGED stage, NEW j \in Jobs, j # p.job,
         \A w \in Workers : Owns(w, j)' <=> Owns(w, j)
  PROVE  SamePlace(j)
  BY LeavesFate DEF SamePlace

(* What becomes of the job itself. *)
LEMMA LeavesPlace ==
  ASSUME Places, Places', NEW p, Leaves(p), UNCHANGED stage,
         \A w \in Workers : ~Owns(w, p.job)'
  PROVE  /\ p.job \in Jobs
         /\ Phase(p.job) = "leased"
         /\ Phase(p.job)' \in {"waiting", "buried", "stored"}
         /\ UNCHANGED <<tasks, deadLetter>> \/ Phase(p.job)' \in {"waiting", "buried"}
         /\ OwnerOf(p.job)' = NoTask
<1> DEFINE j == p.job
<1>1. j \in Jobs /\ Runs(j) /\ ~Runs(j)'
  BY DEF Leaves, Runs, Payload
<1>2. Place(j) /\ Place(j)'
  BY <1>1 DEF Places
<1>3. Submitted(j)' <=> Submitted(j)
  BY DEF Submitted
<1>4. \/ UNCHANGED <<tasks, deadLetter>>
      \/ Waits(j)'
      \/ Buried(j)'
  BY HeldBuriedNext DEF Leaves, Waits
<1> HIDE DEF Waits, Runs, Submitted, Buried, Owns, Phase, OwnerOf, j
<1>5. /\ Phase(j) = "leased"
      /\ Phase(j)' \in {"waiting", "buried", "stored"}
      /\ UNCHANGED <<tasks, deadLetter>> \/ Phase(j)' \in {"waiting", "buried"}
  BY <1>1, <1>2, <1>3, <1>4 DEF Place
<1>6. OwnerOf(j)' = NoTask
  BY <1>2 DEF Place, j
<1> QED BY <1>1, <1>5, <1>6 DEF j

(* The worker returns its lease, *)
LEMMA ReturnRefines ==
  ASSUME LeaseHeld, LeaseHeld', NEW w \in Workers, Returns(w), UNCHANGED stage
  PROVE  Lease!Next
<1>0. PICK p, j : p = task[w] /\ j = p.job
  OBVIOUS
<1>1. Places /\ Places'
  BY PlacesFound, PlacesFoundNext
<1>2. \A v \in Workers : \A i : Owns(v, i)' <=> Owns(v, i) /\ v # w
  BY DEF Returns, OthersStay, Owns, Executing
<1>3. Owns(w, j) /\ \A v \in Workers \ {w} : ~Owns(v, j)
  BY <1>0 DEF LeaseHeld, LeaseInv, OwnerAlone, Owns, Responsible, Returns
<1>4. (\A v \in Workers : ~Owns(v, j)') /\ Leaves(p)
  BY <1>0, <1>2, <1>3 DEF Returns
<1>5. /\ j \in Jobs /\ Phase(j) = "leased" /\ OwnerOf(j)' = NoTask
      /\ Phase(j)' \in {"waiting", "buried", "stored"}
  BY <1>0, <1>1, <1>4, LeavesPlace
<1>6. \A i \in Jobs \ {j} : SamePlace(i)
  <2>1. \A i \in Jobs \ {j} : \A v \in Workers : Owns(v, i)' <=> Owns(v, i)
    <3>1. \A i : i # j => ~Owns(w, i)
      BY <1>0 DEF Owns
    <3> HIDE DEF Owns
    <3> QED BY <1>2, <3>1
  <2> QED BY <1>0, <1>4, <2>1, LeavesOthers
<1>7. OwnerOf(j) = w
  BY <1>1, <1>3, <1>5 DEF Places, Place
<1> DEFINE to == Phase(j)'
<1>8. Lease!Move(j, "leased", to, NoTask)
  <2> HIDE DEF to
  <2> QED BY <1>1, <1>5, <1>6, LeaseMoves DEF to
<1>9. [i \in Jobs |-> OwnerOf(i)][j] = w
  BY <1>5, <1>7
<1>10. Lease!Return(j, w)
  BY <1>5, <1>8, <1>9 DEF Lease!Return, OwnerOf
<1> QED BY <1>5, <1>10 DEF Lease!Next

(* and an abandoned lease expires. *)
LEMMA ExpireRefines ==
  ASSUME LeaseHeld, LeaseHeld', NEW p, Leaves(p), UNCHANGED <<stage, worker>>,
         ~UNCHANGED <<tasks, deadLetter>>,
         \A w \in Workers : ~Owns(w, p.job)
  PROVE  Lease!Next
<1> DEFINE j == p.job
<1>1. Places /\ Places'
  BY PlacesFound, PlacesFoundNext
<1>2. \A v \in Workers : \A i : Owns(v, i)' <=> Owns(v, i)
  BY DEF worker, Owns, Executing
<1>3. /\ j \in Jobs /\ Phase(j) = "leased" /\ OwnerOf(j)' = NoTask
      /\ Phase(j)' \in {"waiting", "buried"}
  BY <1>1, <1>2, LeavesPlace
<1>4. \A i \in Jobs \ {j} : SamePlace(i)
  BY <1>2, LeavesOthers
<1>5. OwnerOf(j) = NoTask
  BY <1>1, <1>3 DEF Places, Place
<1> DEFINE to == Phase(j)'
<1>6. Lease!Move(j, "leased", to, NoTask)
  <2> HIDE DEF j, to
  <2> QED BY <1>1, <1>3, <1>4, LeaseMoves DEF to
<1>7. [i \in Jobs |-> OwnerOf(i)][j] = NoTask
  BY <1>3, <1>5
<1>8. Lease!Expire(j)
  <2> HIDE DEF j
  <2> QED BY <1>3, <1>6, <1>7 DEF Lease!Expire, OwnerOf
<1> QED BY <1>3, <1>8 DEF Lease!Next

(* BLMOVE grants the lease. *)
LEMMA DequeueRefines ==
  ASSUME LeaseHeld, LeaseHeld', NEW w \in Workers, Dequeue(w), UNCHANGED stage
  PROVE  Lease!Next
<1>0. PICK h, j : h = Head(tasks) /\ j = h.job
  OBVIOUS
<1>1. Places /\ Places' /\ TypeOK
  BY PlacesFound, PlacesFoundNext DEF LeaseHeld
<1>2. /\ h \in Payload /\ h \in Range(tasks)
      /\ Range(tasks) = Range(tasks') \cup {h}
      /\ Range(processing') = Range(processing) \cup {h}
  BY <1>0, <1>1, DequeueCopies
<1>3. j \in Jobs /\ Waits(j) /\ Runs(j)'
  BY <1>0, <1>2 DEF Waits, Runs, Payload
<1>4. /\ pc[w] = "idle" /\ pc'[w] = "record_claim" /\ task'[w] = h
      /\ \A v \in Workers \ {w} : pc'[v] = pc[v] /\ task'[v] = task[v]
      /\ UNCHANGED deadLetter
  BY <1>0, <1>1 DEF Dequeue, Goto, TypeOK, WorkerTypeOK
<1>5. Owns(w, j)'
  BY <1>0, <1>4 DEF Owns, Executing
<1>6. Phase(j) = "waiting" /\ Phase(j)' = "leased" /\ OwnerOf(j)' = w
  <2> HIDE DEF Waits, Runs, Owns, Phase, OwnerOf
  <2> QED BY <1>1, <1>3, <1>5 DEF Places, Place
<1>7. ASSUME NEW i \in Jobs \ {j} PROVE SamePlace(i)
  <2>1. (Waits(i)' <=> Waits(i)) /\ (Runs(i)' <=> Runs(i))
    BY <1>0, <1>2 DEF Waits, Runs
  <2>2. (Submitted(i)' <=> Submitted(i)) /\ (Buried(i)' <=> Buried(i))
    BY <1>4 DEF Submitted, Buried
  <2>3. \A v \in Workers : Owns(v, i)' <=> Owns(v, i)
    BY <1>0, <1>4 DEF Owns, Executing
  <2> QED BY <2>1, <2>2, <2>3 DEF SamePlace
<1>8. Lease!Grant(j, w)
  BY <1>1, <1>3, <1>6, <1>7, LeaseMoves DEF Lease!Grant
<1> QED BY <1>3, <1>8 DEF Lease!Next

(* A worker that stops abandons its lease. *)
LEMMA GoesOnRefines ==
  ASSUME LeaseHeld, LeaseHeld', NEW w \in Workers, GoesOn(w), UNCHANGED stage
  PROVE  Lease!Next \/ UNCHANGED Lease!vars
<1>0. PICK j : j = task[w].job
  OBVIOUS
<1>1. Places /\ Places' /\ TypeOK /\ LeaseInv
  BY PlacesFound, PlacesFoundNext DEF LeaseHeld
<1>2. ASSUME NEW i, \A v \in Workers : Owns(v, i)' <=> Owns(v, i)
      PROVE  SamePlace(i)
  <2>1. (Waits(i)' <=> Waits(i)) /\ (Runs(i)' <=> Runs(i))
    BY DEF GoesOn, Waits, Runs
  <2>2. (Submitted(i)' <=> Submitted(i)) /\ (Buried(i)' <=> Buried(i))
    BY DEF GoesOn, Submitted, Buried
  <2> QED BY <1>2, <2>1, <2>2 DEF SamePlace
<1>3. \A i : \A v \in Workers \ {w} : Owns(v, i)' <=> Owns(v, i)
  BY DEF GoesOn, OthersStay, Owns, Executing
<1>4. CASE Executing(w)' \/ ~Executing(w)
  <2>1. \A i : Owns(w, i)' <=> Owns(w, i)
    BY <1>4 DEF GoesOn, Owns
  <2>2. \A i \in Jobs : SamePlace(i)
    BY <1>2, <1>3, <2>1
  <2> QED BY <1>1, <2>2, LeaseStutters
<1>5. CASE Executing(w) /\ ~Executing(w)'
  <2>1. Owns(w, j) /\ \A i : ~Owns(w, i)' /\ (i # j => ~Owns(w, i))
    BY <1>0, <1>5 DEF Owns
  <2>2. j \in Jobs /\ \A v \in Workers \ {w} : ~Owns(v, j)
    <3>1. Responsible(w)
      BY <1>5 DEF Responsible
    <3> QED BY <1>0, <1>1, <3>1, OwnsCopy DEF LeaseInv, OwnerAlone, Owns, Responsible, Payload
  <2>3. \A i \in Jobs \ {j} : SamePlace(i)
    BY <1>2, <1>3, <2>1
  <2>4. Runs(j) /\ Runs(j)'
    <3>1. Runs(j)
      BY <1>1, <2>1, <2>2 DEF Places, Place
    <3> QED BY <3>1 DEF GoesOn, Runs
  <2>5. \A v \in Workers : ~Owns(v, j)'
    BY <1>3, <2>1, <2>2
  <2> HIDE DEF Waits, Runs, Owns, Phase, OwnerOf, Submitted, Buried
  <2>6. /\ Phase(j) = "leased" /\ Phase(j)' = "leased"
        /\ OwnerOf(j) = w /\ OwnerOf(j)' = NoTask
    BY <1>1, <2>1, <2>2, <2>4, <2>5 DEF Places, Place
  <2>7. Lease!Move(j, "leased", "leased", NoTask)
    BY <1>1, <2>2, <2>3, <2>6, LeaseMoves
  <2>8. [i \in Jobs |-> OwnerOf(i)][j] = w
    BY <2>2, <2>6
  <2>9. Lease!Abandon(j, w)
    BY <2>7, <2>8 DEF Lease!Abandon, OwnerOf
  <2> QED BY <2>2, <2>9 DEF Lease!Next
<1> QED BY <1>4, <1>5

(* enqueue() submits the job with its RPUSH. *)
LEMMA ProducerRefinesLease ==
  ASSUME LeaseHeld, LeaseHeld', ProducerNext, UNCHANGED <<worker, reaper>>
  PROVE  Lease!Next \/ UNCHANGED Lease!vars
<1>1. Places /\ Places' /\ TypeOK
  BY PlacesFound, PlacesFoundNext DEF LeaseHeld
<1>2. PICK j \in Jobs : Enqueue(j) \/ EnqueueFails(j)
  BY DEF ProducerNext
<1>3. /\ UNCHANGED <<processing, deadLetter>>
      /\ stage \in [Jobs -> Stages]
      /\ \A i \in Jobs \ {j} : stage'[i] = stage[i]
      /\ \A v \in Workers : \A i : Owns(v, i)' <=> Owns(v, i)
  BY <1>1, <1>2 DEF Enqueue, SaveQueuedStatus, PushNewTask, CountSubmitted, EnqueueFails,
       EnqueueGoto, store, worker, Owns, Executing, TypeOK, ProducerTypeOK
<1>4. ASSUME NEW i \in Jobs, Waits(i)' <=> Waits(i), Submitted(i)' <=> Submitted(i)
      PROVE  SamePlace(i)
  <2>1. (Runs(i)' <=> Runs(i)) /\ (Buried(i)' <=> Buried(i))
    BY <1>3 DEF Runs, Buried
  <2> QED BY <1>3, <1>4, <2>1 DEF SamePlace
<1>5. CASE PushNewTask(j)
  <2>1. ~Submitted(j) /\ Submitted(j)'
    BY <1>3, <1>5 DEF PushNewTask, EnqueueGoto, Submitted
  <2>2. Range(tasks') = Range(tasks) \cup {NewPayload(j)} /\ NewPayload(j).job = j
    BY <1>1, <1>5, AppendRange, NewPayloadType DEF PushNewTask, PushTask, TypeOK, StoreTypeOK
  <2>3. ASSUME NEW i \in Jobs \ {j} PROVE SamePlace(i)
    <3>1. Waits(i)' <=> Waits(i)
      BY <2>2 DEF Waits
    <3>2. Submitted(i)' <=> Submitted(i)
      BY <1>3 DEF Submitted
    <3> QED BY <1>4, <3>1, <3>2
  <2>4. Waits(j)'
    BY <2>2 DEF Waits
  <2> HIDE DEF Waits, Runs, Owns, Phase, OwnerOf, Submitted, Buried
  <2>5. Place(j) /\ Place(j)'
    BY <1>1 DEF Places
  <2>6. \A v \in Workers : ~Owns(v, j)'
    BY <1>3, <2>1, <2>5 DEF Place
  <2>7. Phase(j) = "new" /\ Phase(j)' = "waiting" /\ OwnerOf(j)' = NoTask
    BY <2>1, <2>4, <2>5, <2>6 DEF Place
  <2>8. Lease!Submit(j)
    BY <1>1, <2>3, <2>7, LeaseMoves DEF Lease!Submit
  <2> QED BY <2>8 DEF Lease!Next
<1>6. CASE SaveQueuedStatus(j) \/ CountSubmitted(j) \/ EnqueueFails(j)
  <2>1. UNCHANGED tasks /\ (Submitted(j)' <=> Submitted(j))
    BY <1>3, <1>6 DEF SaveQueuedStatus, CountSubmitted, EnqueueFails, EnqueueGoto, store,
                      Submitted
  <2>2. \A i \in Jobs : (Waits(i)' <=> Waits(i)) /\ (Submitted(i)' <=> Submitted(i))
    BY <1>3, <2>1 DEF Waits, Submitted
  <2> QED BY <1>1, <1>4, <2>2, LeaseStutters
<1> QED BY <1>2, <1>5, <1>6 DEF Enqueue

(* A step that touches neither lists, stages nor workers touches no lease. *)
LEMMA LeaseUntouched ==
  ASSUME LeaseHeld, LeaseHeld', UNCHANGED <<tasks, processing, deadLetter, stage, worker>>
  PROVE  UNCHANGED Lease!vars
<1>1. Places /\ Places'
  BY PlacesFound, PlacesFoundNext
<1>2. \A i \in Jobs : SamePlace(i)
  BY DEF SamePlace, Waits, Runs, Submitted, Buried, Owns, Executing, worker
<1> QED BY <1>1, <1>2, LeaseStutters

(* So every step of the queue is one of JobLease, or none. *)
LEMMA LeaseRefined ==
  ASSUME RedisErrors = FALSE
  PROVE  LeaseHeld /\ LeaseHeld' /\ [Next]_vars => [Lease!Next]_(Lease!vars)
<1> SUFFICES ASSUME LeaseHeld, LeaseHeld', [Next]_vars
             PROVE  Lease!Next \/ UNCHANGED Lease!vars
  OBVIOUS
<1>1. CASE WorkerNext /\ UNCHANGED <<stage, reaper>>
  <2>1. PICK w \in Workers : Dequeue(w) \/ GoesOn(w) \/ Returns(w)
    BY <1>1, WorkerReturns
  <2> QED BY <1>1, <2>1, DequeueRefines, GoesOnRefines, ReturnRefines
<1>2. CASE ReaperNext /\ UNCHANGED <<stage, worker>>
  <2>1. CASE UNCHANGED <<tasks, processing, deadLetter>>
    BY <1>2, <2>1, LeaseUntouched
  <2>2. ASSUME NEW p, Leaves(p), ~UNCHANGED <<tasks, deadLetter>>,
               \A w \in Workers : ~Owns(w, p.job)
        PROVE  Lease!Next
    BY <1>2, <2>2, ExpireRefines
  <2> QED BY <1>2, <2>1, <2>2, ReaperExpires
<1>3. CASE UNCHANGED vars
  BY <1>3, LeaseUntouched DEF vars, store
<1> QED BY <1>1, <1>2, <1>3, ProducerRefinesLease DEF Next

(* What leaves the lists leaves no copy of its job beside a dead letter, *)
LEMMA LeavesBuried ==
  ASSUME LeaseHeld, NEW p, Leaves(p)
  PROVE  BuriedGone'
<1>1. /\ TypeOK /\ LeaseInv /\ BuriedGone
      /\ p \in Copies /\ \A x \in Copies : x \in Payload
  BY KeptPayloads DEF LeaseHeld, Leaves, Copies
<1>2. \A x \in Range(tasks) : x.job # p.job
  BY <1>1 DEF LeaseInv, ListsApart, NoneLike, JobOf, Leaves, Copies
<1>3. CASE UNCHANGED <<tasks, deadLetter>>
  BY <1>1, <1>3 DEF Leaves, BuriedGone, Copies, Letters
<1>4. ASSUME NEW q, q.job = p.job, Range(tasks') = Range(tasks) \cup {q},
             UNCHANGED deadLetter
      PROVE  BuriedGone'
  BY <1>1, <1>4 DEF Leaves, BuriedGone, Copies, Letters
<1>5. ASSUME NEW d, d.payload.job = p.job, Letters' = Letters \cup {d}, UNCHANGED tasks
      PROVE  BuriedGone'
  BY <1>1, <1>2, <1>5 DEF Leaves, BuriedGone, Copies
<1> QED BY <1>3, <1>4, <1>5 DEF Leaves

(* nor does it take what somebody else executes. *)
LEMMA HeldStep ==
  ASSUME RedisErrors = FALSE, LeaseHeld, [Next]_vars
  PROVE  ExecutingHeld' /\ BuriedGone'
<1>1. TypeOK /\ LeaseInv /\ ExecutingHeld /\ BuriedGone
  BY DEF LeaseHeld
<1>2. ASSUME UNCHANGED <<tasks, processing, deadLetter>>,
             \A w \in Workers : Executing(w)' => Executing(w) /\ task'[w] = task[w]
      PROVE  ExecutingHeld' /\ BuriedGone'
  BY <1>1, <1>2 DEF ExecutingHeld, BuriedGone, Copies, Letters
<1>3. ASSUME NEW p, Leaves(p),
             \A w \in Workers : Executing(w)' => Executing(w) /\ task'[w] = task[w]
                                                /\ task[w].job # p.job
      PROVE  ExecutingHeld' /\ BuriedGone'
  BY <1>1, <1>3, LeavesBuried DEF Leaves, ExecutingHeld
<1>4. ASSUME WorkerNext, UNCHANGED <<stage, reaper>> PROVE ExecutingHeld' /\ BuriedGone'
  <2>1. PICK w \in Workers : Dequeue(w) \/ GoesOn(w) \/ Returns(w)
    BY <1>4, WorkerReturns
  <2>2. CASE Dequeue(w)
    <3>1. /\ Range(processing') = Range(processing) \cup {Head(tasks)}
          /\ Copies' = Copies
      BY <1>1, <2>2, DequeueCopies
    <3>2. /\ task'[w] = Head(tasks) /\ UNCHANGED deadLetter
          /\ \A v \in Workers \ {w} : pc'[v] = pc[v] /\ task'[v] = task[v]
      BY <1>1, <2>2 DEF Dequeue, Goto, TypeOK, WorkerTypeOK
    <3> QED BY <1>1, <3>1, <3>2 DEF ExecutingHeld, Executing, BuriedGone, Letters
  <2>3. CASE GoesOn(w)
    BY <1>2, <2>3 DEF GoesOn, OthersStay, Executing
  <2>4. CASE Returns(w)
    <3>1. PICK p : p = task[w]
      OBVIOUS
    <3>2. \A v \in Workers : Executing(v)' => Executing(v) /\ v # w /\ task'[v] = task[v]
      BY <2>4 DEF Returns, OthersStay, Executing
    <3>3. \A v \in Workers \ {w} : Executing(v) => task[v].job # p.job
      BY <1>1, <2>4, <3>1 DEF LeaseInv, OwnerAlone, Responsible, Returns
    <3> QED BY <1>3, <2>4, <3>1, <3>2, <3>3 DEF Returns
  <2> QED BY <2>1, <2>2, <2>3, <2>4
<1>5. ASSUME ReaperNext, UNCHANGED <<stage, worker>> PROVE ExecutingHeld' /\ BuriedGone'
  <2>1. \A w \in Workers : (Executing(w)' <=> Executing(w)) /\ task'[w] = task[w]
    BY <1>5 DEF worker, Executing
  <2>2. CASE UNCHANGED <<tasks, processing, deadLetter>>
    BY <1>2, <2>1, <2>2
  <2>3. ASSUME NEW p, Leaves(p), \A w \in Workers : ~Owns(w, p.job)
        PROVE  ExecutingHeld' /\ BuriedGone'
    BY <1>3, <2>1, <2>3 DEF Owns
  <2> QED BY <1>5, <2>2, <2>3, ReaperExpires
<1>6. ASSUME ProducerNext, UNCHANGED <<worker, reaper>> PROVE ExecutingHeld' /\ BuriedGone'
  <2>1. PICK j \in Jobs : Enqueue(j) \/ EnqueueFails(j)
    BY <1>6 DEF ProducerNext
  <2>2. /\ UNCHANGED <<processing, deadLetter>>
        /\ \A w \in Workers : (Executing(w)' <=> Executing(w)) /\ task'[w] = task[w]
    BY <1>6, <2>1 DEF Enqueue, SaveQueuedStatus, PushNewTask, CountSubmitted, EnqueueFails,
                      store, worker, Executing
  <2>3. CASE UNCHANGED tasks
    BY <1>2, <2>2, <2>3
  <2>4. CASE PushNewTask(j)
    <3>1. Range(tasks') = Range(tasks) \cup {NewPayload(j)} /\ NewPayload(j).job = j
      BY <1>1, <2>4, AppendRange, NewPayloadType
         DEF PushNewTask, PushTask, TypeOK, StoreTypeOK
    <3>2. \A d \in Letters : d.payload.job # j
      BY <2>4 DEF LeaseHeld, DeadLettersKnown, Letters, PushNewTask, EnqueueGoto, Submitted
    <3>3. Copies' = Copies \cup {NewPayload(j)} /\ Letters' = Letters
      BY <2>2, <3>1 DEF Copies, Letters
    <3> QED BY <1>1, <2>2, <3>1, <3>2, <3>3 DEF ExecutingHeld, BuriedGone
  <2> QED BY <2>1, <2>3, <2>4 DEF Enqueue, SaveQueuedStatus, CountSubmitted, EnqueueFails,
                                  store
<1>7. CASE UNCHANGED vars
  BY <1>2, <1>7 DEF vars, store, worker, Executing
<1> QED BY <1>4, <1>5, <1>6, <1>7 DEF Next

(* LeaseHeld is inductive. *)
LEMMA LeaseHeldStep ==
  ASSUME Preempt = FALSE, RedisErrors = FALSE
  PROVE  LeaseHeld /\ [Next]_vars => LeaseHeld'
<1> SUFFICES ASSUME LeaseHeld, [Next]_vars PROVE LeaseHeld'
  OBVIOUS
<1>1. TypeOK /\ PayloadsKnown /\ DeadLettersKnown /\ StampInv /\ LeaseInv
  BY DEF LeaseHeld
<1>2. TypeOK'
  BY <1>1, ProducerTypes, WorkerTypes, ReaperTypes, StutterTypes DEF Next
<1>3. PayloadsKnown' /\ DeadLettersKnown'
  <2>1. CASE UNCHANGED vars
    BY <1>1, <2>1 DEF vars, store, worker, reaper, PayloadsKnown, DeadLettersKnown, Known,
                      Within, Exhausted, Submitted
  <2>2. CASE ProducerNext /\ UNCHANGED <<worker, reaper>>
    BY <1>1, <2>2, ProducerKnown
  <2>3. CASE WorkerNext /\ UNCHANGED <<stage, reaper>>
    BY <1>1, <2>3, WorkerKnown, WorkerEffect, EffectKeepsLetters
  <2>4. CASE ReaperNext /\ UNCHANGED <<stage, worker>>
    BY <1>1, <2>4, ReaperKnown, ReaperEffect, EffectKeepsLetters
  <2> QED BY <2>1, <2>2, <2>3, <2>4 DEF Next
<1>4. StampInv'
  BY <1>1, StampStep
<1>5. LeaseInv'
  <2>1. TypeOK /\ PayloadsKnown /\ StampInv /\ LeaseInv /\ [Next]_vars => LeaseInv'
    BY LeaseStep, Zenon
  <2> QED BY <1>1, <2>1
<1>6. ExecutingHeld' /\ BuriedGone'
  BY HeldStep, Zenon
<1> QED BY <1>2, <1>3, <1>4, <1>5, <1>6 DEF LeaseHeld

(* It depends on neither statuses nor results nor counters. *)
LEMMA LeaseHeldFrame ==
  ASSUME LeaseHeld, TypeOK',
         UNCHANGED <<tasks, processing, claims, deadLetter, clock, stage, worker, reaper>>
  PROVE  LeaseHeld'
<1>1. UNCHANGED <<pc, task, remembered, snapshot, rpc>>
  BY DEF worker, reaper
<1>2. PayloadsKnown' /\ DeadLettersKnown'
  BY <1>1 DEF LeaseHeld, PayloadsKnown, DeadLettersKnown, Known, Within, Exhausted, Submitted
<1>3. StampInv'
  BY <1>1 DEF LeaseHeld, StampInv, ListsApart, Apart, StampsGiven, Copies, Claimed, Tasked
<1>4. ListsApart(JobOf)' /\ OwnCopies' /\ OwnerAlone'
  BY <1>1 DEF LeaseHeld, LeaseInv, ListsApart, Apart, OwnCopies, OwnCopy, OwnerAlone, Copies,
              Responsible, Executing
<1>5. ClaimsOlder' /\ ScannedIdle'
  BY <1>1 DEF LeaseHeld, LeaseInv, ClaimsOlder, ScannedIdle, Claimed, Responsible, Executing
<1>6. ExecutingHeld' /\ BuriedGone'
  BY <1>1 DEF LeaseHeld, ExecutingHeld, BuriedGone, Copies, Letters, Executing
<1> QED BY <1>2, <1>3, <1>4, <1>5, <1>6 DEF LeaseHeld, LeaseInv

(* It holds in the beginning, when every lease is new. *)
LEMMA LeaseHeldInit == Init => LeaseHeld /\ Lease!Init
<1> SUFFICES ASSUME Init PROVE LeaseHeld /\ Lease!Init
  OBVIOUS
<1>1. IInv /\ StampInv /\ LeaseInv
  BY IInvInit, LeaseInit
<1>2. /\ \A w \in Workers : ~Executing(w)
      /\ tasks = <<>> /\ processing = <<>>
      /\ \A j \in Jobs : ~Submitted(j)
  BY DEF Init, StoreInit, WorkerInit, ProducerInit, Executing, Submitted
<1>3. LeaseHeld
  BY <1>1, <1>2 DEF IInv, LeaseHeld, ExecutingHeld, BuriedGone, Copies, Range
<1>4. \A j \in Jobs : Phase(j) = "new" /\ OwnerOf(j) = NoTask
  BY <1>2, <1>3, PlacesFound DEF Places, Place, Owns
<1>5. [j \in Jobs |-> Phase(j)] = [j \in Jobs |-> "new"]
  BY <1>4
<1>6. [j \in Jobs |-> OwnerOf(j)] = [j \in Jobs |-> NoTask]
  BY <1>4
<1> QED BY <1>3, <1>5, <1>6 DEF Lease!Init, OwnerOf

(***************************************************************************)
(* With a timeout that exceeds every execution, and as long as no Redis    *)
(* call fails, every behaviour of the queue is one of JobLease: a job is   *)
(* worked on by its owner alone, is settled or retried by its owner only,  *)
(* is taken back only after its owner died, and stays settled.             *)
(***************************************************************************)
THEOREM LeaseKept ==
  ASSUME Preempt = FALSE, RedisErrors = FALSE
  PROVE  Spec => ImplementsJobLease
<1>1. Init => LeaseHeld /\ Lease!Init
  BY LeaseHeldInit
<1>2. LeaseHeld /\ [Next]_vars => LeaseHeld'
  BY LeaseHeldStep, Zenon
<1>3. LeaseHeld /\ LeaseHeld' /\ [Next]_vars => [Lease!Next]_(Lease!vars)
  BY LeaseRefined, Zenon
<1> QED BY <1>1, <1>2, <1>3, PTL DEF Spec, ImplementsJobLease, Lease!Spec

----------------------------------------------------------------------------
(***************************************************************************)
(* The work a job costs.  A turn of a job is over when its attempt or its  *)
(* recovery is counted in its payload; the k-th turn has been worked on    *)
(* since an attempt of it was counted in the statistics.                   *)
(***************************************************************************)
Turns(p) == p.attempts + p.recoveries

(* The worker has not counted the attempt of its turn yet. *)
Uncounted(w) ==
  pc[w] \in {"record_claim", "mark_started", "save_processing", "count_attempt"}

(* Whatever is left of the job has k turns behind it, or is in the k-th. *)
Reached(j, k) ==
  /\ Submitted(j)
  /\ \A p \in Range(tasks) : p.job = j => Turns(p) >= k
  /\ \A p \in Range(processing) : p.job = j => Turns(p) + 1 >= k
  /\ \A w \in Workers :
       Responsible(w) /\ task[w].job = j =>
         /\ Turns(task[w]) + 1 >= k
         /\ Uncounted(w) => Turns(task[w]) >= k

(* The turns reached by all jobs *)
Started ==
  {t \in Jobs \X (1..(1 + MaxRetries + MaxRecoveries)) : Reached(t[1], t[2])}

(* A turn stays reached if what is new of its job has it behind. *)
LEMMA StaysReached ==
  ASSUME TypeOK', NEW j \in Jobs, NEW k \in Nat, Reached(j, k),
         Submitted(j)',
         \A p \in Range(tasks') : p \in Range(tasks) \/ (p.job = j => Turns(p) >= k),
         \A p \in Range(processing') :
           p \in Range(processing) \/ (p.job = j => Turns(p) >= k),
         \A w \in Workers : Responsible(w)' =>
           \/ /\ Responsible(w) /\ task'[w] = task[w]
              /\ Uncounted(w)' => Uncounted(w)
           \/ task'[w].job = j => Turns(task'[w]) >= k
  PROVE  Reached(j, k)'
<1>1. \A p \in Payload : Turns(p) \in Nat
  BY DEF Payload, Turns
<1>2. /\ \A p \in Range(processing') : p \in Payload
      /\ \A w \in Workers : Responsible(w)' => task'[w] \in Payload
  BY DEF TypeOK, StoreTypeOK, WorkerTypeOK, Responsible, Executing, Range
<1> HIDE DEF Turns, Submitted, Responsible, Uncounted
<1>3. \A p \in Range(processing') : p.job = j => Turns(p) + 1 >= k
  BY <1>1, <1>2 DEF Reached
<1>4. \A w \in Workers : Responsible(w)' /\ task'[w].job = j =>
        /\ Turns(task'[w]) + 1 >= k
        /\ Uncounted(w)' => Turns(task'[w]) >= k
  BY <1>1, <1>2 DEF Reached
<1> QED BY <1>3, <1>4 DEF Reached, Turns

(* The steps of the API process keep the turns that were reached, *)
LEMMA ProducerReaches ==
  ASSUME TypeOK, TypeOK', ProducerNext, UNCHANGED <<worker, reaper>>,
         NEW j \in Jobs, NEW k \in Nat, Reached(j, k)
  PROVE  Reached(j, k)'
<1>1. PICK i \in Jobs : Enqueue(i) \/ EnqueueFails(i)
  BY DEF ProducerNext
<1>2. /\ stage \in [Jobs -> Stages] /\ tasks \in Seq(Payload)
      /\ Submitted(j)
  BY DEF TypeOK, ProducerTypeOK, StoreTypeOK, Reached
<1>3. UNCHANGED processing /\ Submitted(j)'
  BY <1>1, <1>2 DEF Enqueue, SaveQueuedStatus, PushNewTask, CountSubmitted, EnqueueFails,
                    EnqueueGoto, store, Submitted
<1>4. \A p \in Range(tasks') : p \in Range(tasks) \/ p.job # j
  <2>1. CASE PushNewTask(i)
    <3>1. i # j
      BY <1>2, <2>1 DEF PushNewTask, EnqueueGoto, Submitted
    <3>2. Range(tasks') = Range(tasks) \cup {NewPayload(i)} /\ NewPayload(i).job = i
      BY <1>2, <2>1, AppendRange, NewPayloadType DEF PushNewTask, PushTask
    <3> QED BY <3>1, <3>2
  <2>2. CASE ~PushNewTask(i)
    BY <1>1, <2>2 DEF Enqueue, SaveQueuedStatus, CountSubmitted, EnqueueFails, store
  <2> QED BY <2>1, <2>2
<1>5. \A w \in Workers :
        /\ Responsible(w)' <=> Responsible(w)
        /\ Uncounted(w)' <=> Uncounted(w)
        /\ task'[w] = task[w]
  BY DEF worker, Responsible, Executing, Uncounted
<1> HIDE DEF Submitted, Responsible, Uncounted
<1> QED BY <1>3, <1>4, <1>5, StaysReached

(* so do those of a worker, *)
LEMMA WorkerReaches ==
  ASSUME TypeOK, TypeOK', WorkerNext, UNCHANGED <<stage, reaper>>,
         NEW j \in Jobs, NEW k \in Nat, Reached(j, k)
  PROVE  Reached(j, k)'
<1>1. PICK w \in Workers : WorkerStep(w) \/ Crash(w)
  BY DEF WorkerNext
<1>2. /\ WorkerTypeOK /\ StoreTypeOK /\ tasks \in Seq(Payload)
      /\ \A v \in Workers : pc[v] # "idle" => task[v] \in Payload
  BY DEF TypeOK, StoreTypeOK, WorkerTypeOK
<1>3. Submitted(j)'
  BY DEF Reached, Submitted
<1>4. \A v \in Workers \ {w} :
        /\ Responsible(v)' <=> Responsible(v)
        /\ Uncounted(v)' <=> Uncounted(v)
        /\ task'[v] = task[v]
  <2>1. \A v \in Workers \ {w} : pc'[v] = pc[v] /\ task'[v] = task[v]
    <3>1. CASE \/ Dequeue(w) \/ RecordClaim(w) \/ MarkStarted(w) \/ SaveProcessing(w)
               \/ InferenceFails(w) \/ SaveResult(w) \/ SaveResultReplyLost(w)
               \/ CountCompletedFails(w) \/ Requeue(w) \/ SetError(w) \/ HandlerFails(w)
      BY <1>2, <3>1 DEF WorkerTypeOK, Dequeue, RecordClaim, MarkStarted, WriteClaim, SaveProcessing,
           InferenceFails, SaveResult, SaveResultReplyLost, StoreResult, CountCompletedFails,
           Requeue, SetError, HandlerFails, Goto
    <3>2. CASE \/ CountAttempt(w) \/ ObserveWait(w) \/ CountCompleted(w) \/ CountRetry(w)
               \/ CountFailed(w) \/ CountDead(w) \/ RecordDuration(w) \/ Crash(w)
      BY <1>2, <3>2 DEF WorkerTypeOK, CountAttempt, ObserveWait, CountCompleted, CountRetry,
           CountFailed, CountDead, CountStep, RecordDuration, Crash, Reset, Goto
    <3> QED BY <1>1, <3>1, <3>2 DEF WorkerStep
  <2> QED BY <2>1 DEF Responsible, Executing, Uncounted
<1>5. CASE Dequeue(w)
  <2>1. /\ Head(tasks) \in Payload /\ Head(tasks) \in Range(tasks)
        /\ Range(tasks) = Range(tasks') \cup {Head(tasks)}
        /\ Range(processing') = Range(processing) \cup {Head(tasks)}
    BY <1>5, DequeueCopies
  <2>2. task'[w] = Head(tasks)
    BY <1>2, <1>5 DEF Dequeue, WorkerTypeOK
  <2>3. \A p \in Range(tasks) : p.job = j => Turns(p) >= k
    BY DEF Reached
  <2>4. /\ \A p \in Range(tasks') : p \in Range(tasks)
        /\ \A p \in Range(processing') :
             p \in Range(processing) \/ (p.job = j => Turns(p) >= k)
        /\ task'[w].job = j => Turns(task'[w]) >= k
    BY <2>1, <2>2, <2>3
  <2> HIDE DEF Submitted, Responsible, Uncounted, Turns
  <2> QED BY <1>3, <1>4, <2>4, StaysReached
<1>6. CASE Requeue(w)
  <2>1. PICK q : q = Retried(task[w], clock[task[w].job] + 1)
    OBVIOUS
  <2>2. /\ task[w] \in Payload /\ Responsible(w) /\ ~Responsible(w)'
        /\ clock[task[w].job] + 1 \in Nat
    BY <1>2, <1>6 DEF Requeue, Goto, Responsible, Executing, WorkerTypeOK, StoreTypeOK, Payload
  <2>3. q \in Payload /\ q.job = task[w].job /\ Turns(q) = Turns(task[w]) + 1
    BY <2>1, <2>2 DEF Retried, Payload, Turns
  <2>4. Range(tasks') = Range(tasks) \cup {q}
    BY <1>2, <1>6, <2>1, <2>3, AppendRange DEF Requeue, PushTask
  <2>5. Range(processing') \subseteq Range(processing)
    BY <1>2, <1>6, <2>2, AckEffect DEF Requeue
  <2>6. task[w].job = j => Turns(task[w]) + 1 >= k
    BY <2>2 DEF Reached
  <2> HIDE DEF Submitted, Responsible, Uncounted, Turns
  <2> QED BY <1>3, <1>4, <2>2, <2>3, <2>4, <2>5, <2>6, StaysReached
<1>7. ASSUME UNCHANGED tasks, Range(processing') \subseteq Range(processing),
             Responsible(w)' => Responsible(w) /\ task'[w] = task[w]
                                 /\ (Uncounted(w)' => Uncounted(w))
      PROVE  Reached(j, k)'
  <2> HIDE DEF Submitted, Responsible, Uncounted, Turns
  <2> QED BY <1>3, <1>4, <1>7, StaysReached
<1>8. CASE SaveResult(w) \/ SaveResultReplyLost(w) \/ SetError(w)
  <2>1. /\ UNCHANGED <<tasks, task>> /\ Responsible(w) /\ ~Uncounted(w)'
        /\ Ack(task[w], remembered[w]) /\ task[w] \in Payload
    BY <1>2, <1>8 DEF SaveResult, SaveResultReplyLost, StoreResult, SetError, Goto, Responsible,
                      Executing, Uncounted, WorkerTypeOK
  <2>2. Range(processing') \subseteq Range(processing)
    BY <1>2, <2>1, AckEffect
  <2> QED BY <1>7, <2>1, <2>2
<1>9. CASE \/ RecordClaim(w) \/ MarkStarted(w) \/ SaveProcessing(w) \/ InferenceFails(w)
           \/ CountCompletedFails(w) \/ HandlerFails(w)
  <2>1. /\ UNCHANGED <<tasks, processing, task>>
        /\ Responsible(w)' => Responsible(w) /\ (Uncounted(w)' => Uncounted(w))
    BY <1>2, <1>9 DEF RecordClaim, MarkStarted, WriteClaim, SaveProcessing, InferenceFails,
         CountCompletedFails, HandlerFails, store, Goto, Responsible, Executing, Uncounted,
         WorkerTypeOK
  <2> QED BY <1>7, <2>1
<1>10. CASE \/ CountAttempt(w) \/ ObserveWait(w) \/ CountCompleted(w) \/ CountRetry(w)
            \/ CountFailed(w) \/ CountDead(w)
  <2>1. /\ UNCHANGED <<tasks, processing, task>>
        /\ Responsible(w)' => Responsible(w) /\ (Uncounted(w)' => Uncounted(w))
    BY <1>2, <1>10 DEF CountAttempt, ObserveWait, CountCompleted, CountRetry, CountFailed,
         CountDead, CountStep, Goto, Responsible, Executing, Uncounted, WorkerTypeOK
  <2> QED BY <1>7, <2>1
<1>11. CASE RecordDuration(w) \/ Crash(w)
  <2>1. UNCHANGED <<tasks, processing>> /\ ~Responsible(w)'
    BY <1>2, <1>11 DEF RecordDuration, Crash, Reset, store, Responsible, Executing, WorkerTypeOK
  <2> QED BY <1>7, <2>1
<1> QED BY <1>1, <1>5, <1>6, <1>8, <1>9, <1>10, <1>11 DEF WorkerStep

(* and those of a reaper. *)
LEMMA ReaperReaches ==
  ASSUME TypeOK, TypeOK', ReaperNext, UNCHANGED <<stage, worker>>,
         NEW j \in Jobs, NEW k \in Nat, Reached(j, k)
  PROVE  Reached(j, k)'
<1>1. PICK r \in Reapers : Scan(r) \/ ReaperStep(r) \/ ScanFails(r)
  BY DEF ReaperNext
<1>2. /\ StoreTypeOK /\ tasks \in Seq(Payload) /\ snapshot \in [Reapers -> SUBSET Claim]
      /\ Submitted(j)'
  BY DEF TypeOK, StoreTypeOK, ReaperTypeOK, Reached, Submitted
<1>3. \A w \in Workers :
        /\ Responsible(w)' <=> Responsible(w)
        /\ Uncounted(w)' <=> Uncounted(w)
        /\ task'[w] = task[w]
  BY DEF worker, Responsible, Executing, Uncounted
<1>4. ASSUME Range(processing') \subseteq Range(processing),
             \A p \in Range(tasks') : p \in Range(tasks) \/ (p.job = j => Turns(p) >= k)
      PROVE  Reached(j, k)'
  <2> HIDE DEF Submitted, Responsible, Uncounted, Turns
  <2> QED BY <1>2, <1>3, <1>4, StaysReached
<1>5. CASE \/ Scan(r) \/ ScanFails(r)
           \/ \E c \in snapshot[r] : SkipChangedClaim(r, c) \/ DropOrphanClaim(r, c)
           \/ CountRecovered(r) \/ CountBuried(r) \/ CountBuriedDead(r)
  <2>1. UNCHANGED <<tasks, processing>>
    BY <1>5 DEF Scan, ScanFails, SkipChangedClaim, DropOrphanClaim, CountRecovered,
                CountBuried, CountBuriedDead, ReaperCount, store
  <2> QED BY <1>4, <2>1
<1>6. ASSUME NEW c \in snapshot[r], Recover(r, c) \/ Bury(r, c)
      PROVE  Reached(j, k)'
  <2>1. /\ c.payload \in Payload /\ c.payload \in Range(processing)
        /\ RemoveProcessing(c.payload)
    BY <1>2, <1>6 DEF Recover, Bury, TakeBack, Claim
  <2>2. Range(processing') \subseteq Range(processing)
    BY <1>2, <2>1, RemoveProcessingEffect
  <2>3. CASE Bury(r, c)
    BY <1>4, <2>2, <2>3 DEF Bury
  <2>4. CASE Recover(r, c)
    <3>1. PICK q : q = Recovered(c.payload)
      OBVIOUS
    <3>2. q \in Payload /\ q.job = c.payload.job /\ Turns(q) = Turns(c.payload) + 1
      BY <2>1, <3>1 DEF Recovered, Payload, Turns
    <3>3. Range(tasks') = Range(tasks) \cup {q}
      BY <1>2, <2>4, <3>1, <3>2, AppendRange DEF Recover, PushTask
    <3>4. c.payload.job = j => Turns(c.payload) + 1 >= k
      BY <2>1 DEF Reached
    <3>5. q.job = j => Turns(q) >= k
      BY <3>2, <3>4
    <3> QED BY <1>4, <2>2, <3>3, <3>5
  <2> QED BY <1>6, <2>3, <2>4
<1> QED BY <1>1, <1>5, <1>6 DEF ReaperStep, HandleClaim

(* Only the first step of an execution counts an attempt. *)
LEMMA AttemptsCount ==
  ASSUME StoreTypeOK, Next
  PROVE  \/ stats'["attempts"] = stats["attempts"]
         \/ /\ stats'["attempts"] = stats["attempts"] + 1
            /\ \E w \in Workers : CountAttempt(w)
            /\ UNCHANGED <<stage, reaper>>
<1>1. \A c \in Counters \ {"attempts"} : Increment(c) => stats'["attempts"] = stats["attempts"]
  BY DEF Increment, StoreTypeOK, Counters
<1>2. Increment("attempts") => stats'["attempts"] = stats["attempts"] + 1
  BY DEF Increment, StoreTypeOK, Counters
<1>3. CASE ProducerNext
  BY <1>1, <1>3 DEF ProducerNext, Enqueue, SaveQueuedStatus, PushNewTask, CountSubmitted,
                    EnqueueFails, store, Counters
<1>4. CASE ReaperNext
  <2>1. PICK r \in Reapers : Scan(r) \/ ReaperStep(r) \/ ScanFails(r)
    BY <1>4 DEF ReaperNext
  <2>2. CASE Scan(r) \/ ScanFails(r) \/ \E c \in snapshot[r] : HandleClaim(r, c)
    BY <2>2 DEF Scan, ScanFails, HandleClaim, SkipChangedClaim, DropOrphanClaim, Recover, Bury,
                store
  <2>3. CASE CountRecovered(r) \/ CountBuried(r) \/ CountBuriedDead(r)
    BY <1>1, <2>3 DEF CountRecovered, CountBuried, CountBuriedDead, ReaperCount, Counters
  <2> QED BY <2>1, <2>2, <2>3 DEF ReaperStep
<1>5. CASE WorkerNext /\ UNCHANGED <<stage, reaper>>
  <2>1. PICK w \in Workers : WorkerStep(w) \/ Crash(w)
    BY <1>5 DEF WorkerNext
  <2>2. CASE \/ Dequeue(w) \/ RecordClaim(w) \/ MarkStarted(w) \/ SaveProcessing(w)
             \/ InferenceFails(w) \/ SaveResult(w) \/ SaveResultReplyLost(w)
             \/ CountCompletedFails(w) \/ Requeue(w) \/ SetError(w) \/ HandlerFails(w)
             \/ Crash(w)
    BY <2>2 DEF Dequeue, RecordClaim, MarkStarted, WriteClaim, SaveProcessing, InferenceFails, SaveResult,
         SaveResultReplyLost, StoreResult, CountCompletedFails, Requeue, SetError,
         HandlerFails, Crash, store
  <2>3. CASE \/ ObserveWait(w) \/ CountCompleted(w) \/ CountRetry(w)
             \/ CountFailed(w) \/ CountDead(w) \/ RecordDuration(w)
    BY <1>1, <2>3 DEF ObserveWait, CountCompleted, CountRetry, CountFailed, CountDead,
                      CountStep, RecordDuration, Counters
  <2>4. CASE CountAttempt(w)
    BY <1>2, <1>5, <2>4 DEF CountAttempt, CountStep
  <2> QED BY <2>1, <2>2, <2>3, <2>4 DEF WorkerStep
<1> QED BY <1>3, <1>4, <1>5 DEF Next

(* It starts a turn that was not started before. *)
LEMMA AttemptStarts ==
  ASSUME TypeOK, PayloadsKnown, LeaseInv, NEW w \in Workers, CountAttempt(w),
         UNCHANGED <<stage, reaper>>
  PROVE  \E t \in Started' : t \notin Started
<1>1. PICK j, k : j = task[w].job /\ k = Turns(task[w]) + 1
  OBVIOUS
<1>2. /\ pc[w] = "count_attempt" /\ pc' = [pc EXCEPT ![w] = "observe_wait"]
      /\ UNCHANGED <<tasks, processing, task>>
      /\ task[w] \in Payload /\ Known(task[w]) /\ pc \in [Workers -> WorkerPcs]
  BY DEF CountAttempt, CountStep, Goto, TypeOK, WorkerTypeOK, PayloadsKnown
<1>3. /\ Turns(task[w]) \in Nat /\ j \in Jobs
      /\ k \in 1..(1 + MaxRetries + MaxRecoveries)
  BY <1>1, <1>2, BudgetsAreNaturals DEF Turns, Payload, Known, Within
<1>4. Responsible(w) /\ Uncounted(w) /\ ~Uncounted(w)'
  BY <1>2 DEF Responsible, Executing, Uncounted
<1>5. ~Reached(j, k)
  BY <1>1, <1>3, <1>4 DEF Reached
<1>6. Reached(j, k)'
  <2>1. Submitted(j)'
    BY <1>1, <1>2 DEF Known, Submitted
  <2>2. \A p \in Copies : p.job = j => p \in Range(processing) /\ p = task[w] /\ pc[w] # "idle"
    BY <1>1, <1>2, <1>4 DEF LeaseInv, OwnCopies, OwnCopy
  <2>3. \A p \in Range(tasks') : p.job # j
    <3>1. \A p \in Range(tasks) : \A q \in Range(processing) : p.job = j => q.job # j
      <4> SUFFICES ASSUME NEW p \in Range(tasks), NEW q \in Range(processing), p.job = j,
                          q.job = j
                   PROVE  FALSE
        OBVIOUS
      <4>1. p \in Payload /\ q \in Payload /\ JobOf[p] # JobOf[q]
        BY KeptPayloads DEF LeaseInv, ListsApart, NoneLike, Copies
      <4> QED BY <4>1 DEF JobOf
    <3> QED BY <1>2, <2>2, <3>1 DEF Copies
  <2>4. \A p \in Range(processing') : p.job = j => Turns(p) + 1 >= k
    BY <1>1, <1>2, <1>3, <2>2 DEF Copies
  <2>5. \A v \in Workers : Responsible(v)' /\ task'[v].job = j => v = w
    <3> SUFFICES ASSUME NEW v \in Workers, v # w, Responsible(v)', task'[v].job = j
                 PROVE  FALSE
      OBVIOUS
    <3>1. Responsible(v) /\ task[v].job = task[w].job
      BY <1>1, <1>2 DEF Responsible, Executing
    <3> QED BY <1>4, <3>1 DEF LeaseInv, OwnerAlone
  <2>6. \A v \in Workers : Responsible(v)' /\ task'[v].job = j =>
          /\ Turns(task'[v]) + 1 >= k
          /\ Uncounted(v)' => Turns(task'[v]) >= k
    BY <1>1, <1>2, <1>3, <1>4, <2>5
  <2> HIDE DEF Submitted, Responsible, Uncounted
  <2> QED BY <2>1, <2>3, <2>4, <2>6 DEF Reached, Turns
<1>7. <<j, k>> \in Started' /\ <<j, k>> \notin Started
  BY <1>3, <1>5, <1>6 DEF Started
<1> QED BY <1>7

StartedFew ==
  /\ IsFiniteSet(Started)
  /\ Cardinality(Started) \in Nat
  /\ Cardinality(Started) <= Cardinality(Jobs) * (1 + MaxRetries + MaxRecoveries)

(* The turns are no more than the budgets allow, *)
LEMMA StartedBounded == StartedFew
<1>1. PICK n : n = 1 + MaxRetries + MaxRecoveries
  OBVIOUS
<1>2. n \in Nat /\ IsFiniteSet(1..n) /\ Cardinality(1..n) = n
  BY <1>1, BudgetsAreNaturals, FS_Interval
<1>3. IsFiniteSet(Jobs \X (1..n)) /\ Cardinality(Jobs \X (1..n)) = Cardinality(Jobs) * n
  BY <1>2, JobsAndWorkersAreFinite, FS_Product
<1>4. Started \in SUBSET (Jobs \X (1..n))
  BY <1>1 DEF Started
<1>5. /\ IsFiniteSet(Started)
      /\ Cardinality(Started) <= Cardinality(Jobs \X (1..n))
  BY <1>3, <1>4, FS_Subset
<1>6. Cardinality(Started) \in Nat
  BY <1>5, FS_CardinalityType
<1> QED BY <1>1, <1>3, <1>5, <1>6 DEF StartedFew

(* in the next state too. *)
LEMMA StartedBoundedNext == StartedFew'
  BY StartedBounded, PTL

(* So every attempt that is counted has its turn. *)
LEMMA AttemptsStep ==
  ASSUME TypeOK, TypeOK', PayloadsKnown, LeaseInv, [Next]_vars,
         stats["attempts"] <= Cardinality(Started)
  PROVE  stats'["attempts"] <= Cardinality(Started')
<1>1. Started \subseteq Started'
  <2> SUFFICES ASSUME NEW j \in Jobs, NEW k \in 1..(1 + MaxRetries + MaxRecoveries),
                      Reached(j, k)
               PROVE  Reached(j, k)'
    BY DEF Started
  <2>1. k \in Nat
    BY BudgetsAreNaturals
  <2>2. CASE Next
    BY <2>1, <2>2, ProducerReaches, WorkerReaches, ReaperReaches DEF Next
  <2>3. CASE UNCHANGED vars
    BY <2>3 DEF vars, store, worker, Reached, Submitted, Responsible, Executing, Uncounted
  <2> QED BY <2>2, <2>3
<1>2. /\ IsFiniteSet(Started') /\ Cardinality(Started') \in Nat
      /\ IsFiniteSet(Started) /\ Cardinality(Started) \in Nat
      /\ StoreTypeOK /\ stats["attempts"] \in Nat
  BY StartedBounded, StartedBoundedNext DEF StartedFew, TypeOK, StoreTypeOK, Counters
<1>3. PICK S, T : S = Started /\ T = Started'
  OBVIOUS
<1>4. Cardinality(S) <= Cardinality(T)
  BY <1>1, <1>2, <1>3, FS_Subset
<1>5. CASE stats'["attempts"] = stats["attempts"]
  BY <1>2, <1>3, <1>4, <1>5
<1>6. CASE /\ stats'["attempts"] = stats["attempts"] + 1
           /\ \E w \in Workers : CountAttempt(w)
           /\ UNCHANGED <<stage, reaper>>
  <2>1. PICK t \in T : t \notin S
    BY <1>3, <1>6, AttemptStarts
  <2>2. Cardinality(S) # Cardinality(T)
    BY <1>1, <1>2, <1>3, <2>1, FS_Subset
  <2> QED BY <1>2, <1>3, <1>4, <1>6, <2>2
<1>7. CASE UNCHANGED vars
  BY <1>5, <1>7 DEF vars, store
<1> QED BY <1>2, <1>5, <1>6, <1>7, AttemptsCount

(***************************************************************************)
(* With a timeout that exceeds every execution a job costs no more than    *)
(* one execution, one per retry and one per recovery, for any number of    *)
(* jobs, workers and reapers and any budgets, whatever crashes and         *)
(* whichever call fails.                                                   *)
(***************************************************************************)
THEOREM WorkAlwaysBounded ==
  ASSUME Preempt = FALSE
  PROVE  Spec => []WorkBounded
<1> DEFINE Counted == stats["attempts"] <= Cardinality(Started)
<1>1. Init => Counted
  <2> SUFFICES ASSUME Init PROVE Counted
    OBVIOUS
  <2>1. stats["attempts"] = 0
    BY DEF Init, StoreInit, Counters
  <2> QED BY <2>1, StartedBounded DEF StartedFew
<1>2. TypeOK /\ TypeOK' /\ PayloadsKnown /\ LeaseInv /\ Counted /\ [Next]_vars => Counted'
  BY AttemptsStep
<1>3. Counted /\ TypeOK => WorkBounded
  <2> SUFFICES ASSUME Counted, TypeOK PROVE WorkBounded
    OBVIOUS
  <2>1. PICK m, n : m = Cardinality(Started)
                    /\ n = Cardinality(Jobs) * (1 + MaxRetries + MaxRecoveries)
    OBVIOUS
  <2>2. stats["attempts"] \in Nat /\ m \in Nat /\ m <= n /\ stats["attempts"] <= m
    BY <2>1, StartedBounded DEF StartedFew, TypeOK, StoreTypeOK, Counters
  <2>3. n \in Int
    BY <2>1, BudgetsAreNaturals, JobsAndWorkersAreFinite, FS_CardinalityType
  <2> QED BY <2>1, <2>2, <2>3 DEF WorkBounded
<1>4. Spec => [](TypeOK /\ LeaseInv)
  BY Leased, Zenon
<1> HIDE DEF Counted
<1> QED BY <1>1, <1>2, <1>3, <1>4, Inductive, PTL DEF Spec, IInv

============================================================================
