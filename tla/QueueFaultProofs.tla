-------------------------- MODULE QueueFaultProofs --------------------------
(***************************************************************************)
(* The queue under two faults of what it stands on, for any number of      *)
(* each, and whatever crashes, fails or comes late around them.  Restarts  *)
(* of Redis lose no job that was in its append-only file and leave no such *)
(* job with a status that nothing backs (DurableQueue).  A client that     *)
(* sends a command again loses no job and exceeds no budget, and leaves no *)
(* more copies of a job than commands were executed twice                  *)
(* (ResendingClient).                                                      *)
(***************************************************************************)
EXTENDS DurableQueue, ResendingClient, ReliableQueueProofs

(* What may become of a job, read off a record of keys. *)
HeldIn(k, j) == \E p \in Range(k.tasks) \cup Range(k.processing) : p.job = j
BuriedIn(k, j) == \E d \in Range(k.deadLetter) : d.payload.job = j
KeptIn(k, j) == HeldIn(k, j) \/ j \in k.results \/ BuriedIn(k, j)

KeysType(k) ==
  /\ k.tasks \in Seq(Payload)
  /\ k.processing \in Seq(Payload)
  /\ k.claims \in [Jobs -> Claim \cup {NoClaim}]
  /\ k.deadLetter \in Seq(DeadLetter)
  /\ k.status \in [Jobs -> Statuses]
  /\ k.results \in SUBSET Jobs
  /\ k.stats \in [Counters -> Nat]

(* Every payload, claim, result and dead letter is of a submitted job. *)
KeysKnown(k) ==
  /\ \A p \in Range(k.tasks) \cup Range(k.processing) : Known(p)
  /\ \A j \in Jobs : k.claims[j] # NoClaim => Known(k.claims[j].payload)
  /\ \A d \in Range(k.deadLetter) : Submitted(d.payload.job) /\ Exhausted(d)
  /\ \A j \in k.results : Submitted(j)

(* A status is backed; queued may stand alone if nothing is left of the job. *)
KeysBacked(k) ==
  \A j \in Jobs :
    /\ k.status[j] = "completed" => j \in k.results
    /\ k.status[j] = "failed" => BuriedIn(k, j)
    /\ k.status[j] = "queued" /\ KeptIn(k, j) => HeldIn(k, j)

KeysKeep(k) == \A j \in safe : KeptIn(k, j)

KeysOK(k) == KeysType(k) /\ KeysKnown(k) /\ KeysBacked(k) /\ KeysKeep(k)

(* The same is true of the keys in memory and of those in the file. *)
DurableInv ==
  /\ TypeOK /\ PayloadsKnown
  /\ safe \subseteq Jobs
  /\ KeysOK(Keys) /\ KeysOK(durable)

(* The keys in memory, as the modules of the queue write them *)
LEMMA KeysInMemory ==
  /\ Keys.tasks = tasks /\ Keys.processing = processing /\ Keys.claims = claims
  /\ Keys.deadLetter = deadLetter /\ Keys.status = status
  /\ Keys.results = results /\ Keys.stats = stats
  /\ \A j : /\ HeldIn(Keys, j) <=> Held(j)
            /\ BuriedIn(Keys, j) <=> Buried(j)
            /\ KeptIn(Keys, j) <=> Kept(j)
<1>1. /\ Keys.tasks = tasks /\ Keys.processing = processing /\ Keys.claims = claims
      /\ Keys.deadLetter = deadLetter /\ Keys.status = status
      /\ Keys.results = results /\ Keys.stats = stats
  BY DEF Keys
<1>2. ASSUME NEW j
      PROVE  /\ HeldIn(Keys, j) <=> Held(j)
             /\ BuriedIn(Keys, j) <=> Buried(j)
             /\ KeptIn(Keys, j) <=> Kept(j)
  BY <1>1, HeldByCopies, BuriedByLetters
  DEF HeldIn, BuriedIn, KeptIn, Kept, Copies, Letters
<1> QED BY <1>1, <1>2

(* Keys that do not change stay good while calls of enqueue() go on. *)
LEMMA FileStaysOK ==
  ASSUME KeysOK(durable), UNCHANGED <<durable, safe>>,
         \A j \in Jobs : Submitted(j) => Submitted(j)'
  PROVE  KeysOK(durable)'
<1>1. \A p \in Payload : Known(p) => Known(p)'
  BY DEF Known, Within, Payload
<1>2. \A d \in DeadLetter : /\ d.payload.job \in Jobs
                            /\ Exhausted(d)' <=> Exhausted(d)
  BY DEF DeadLetter, Payload, Exhausted
<1>3. KeysType(durable)'
  BY DEF KeysOK, KeysType
<1>4. /\ \A p \in Range(durable.tasks) \cup Range(durable.processing) : p \in Payload
      /\ \A d \in Range(durable.deadLetter) : d \in DeadLetter
      /\ \A j \in Jobs : durable.claims[j] # NoClaim => durable.claims[j].payload \in Payload
      /\ durable.results \subseteq Jobs
  BY DEF KeysOK, KeysType, Range, Claim
<1>5. KeysKnown(durable)'
  <2>1. \A p \in Range(durable.tasks) \cup Range(durable.processing) : Known(p)'
    BY <1>1, <1>4 DEF KeysOK, KeysKnown
  <2>2. \A j \in Jobs : durable.claims[j] # NoClaim => Known(durable.claims[j].payload)'
    BY <1>1, <1>4 DEF KeysOK, KeysKnown
  <2>3. \A d \in Range(durable.deadLetter) : Submitted(d.payload.job)' /\ Exhausted(d)'
    BY <1>2, <1>4 DEF KeysOK, KeysKnown
  <2>4. \A j \in durable.results : Submitted(j)'
    BY <1>4 DEF KeysOK, KeysKnown
  <2> HIDE DEF Known, Submitted, Exhausted
  <2> QED BY <2>1, <2>2, <2>3, <2>4 DEF KeysKnown
<1>6. KeysBacked(durable)' /\ KeysKeep(durable)'
  BY DEF KeysOK, KeysBacked, KeysKeep, HeldIn, BuriedIn, KeptIn
<1> QED BY <1>3, <1>5, <1>6 DEF KeysOK

(* Every step of the queue keeps the keys in memory good. *)
LEMMA MemoryStaysOK ==
  ASSUME TypeOK, PayloadsKnown, safe \subseteq Jobs, KeysOK(Keys), Next, UNCHANGED safe
  PROVE  /\ TypeOK' /\ PayloadsKnown' /\ KeysOK(Keys)'
         /\ \A j \in Jobs : Submitted(j) => Submitted(j)'
<1> DEFINE Good == /\ DeadLettersKnown
                   /\ \A j \in results : Submitted(j)
                   /\ \A j \in Jobs : /\ status[j] = "completed" => j \in results
                                      /\ status[j] = "failed" => Buried(j)
                                      /\ status[j] = "queued" /\ Kept(j) => Held(j)
                   /\ \A j \in safe : Kept(j)
<1>1. Good
  BY KeysInMemory DEF KeysOK, KeysKnown, KeysBacked, KeysKeep, DeadLettersKnown
<1>2. ASSUME TypeOK', PayloadsKnown', Good' PROVE KeysOK(Keys)'
  <2>1. /\ Keys'.tasks = tasks' /\ Keys'.processing = processing' /\ Keys'.claims = claims'
        /\ Keys'.deadLetter = deadLetter' /\ Keys'.status = status'
        /\ Keys'.results = results' /\ Keys'.stats = stats'
    BY DEF Keys
  <2>2. \A j : /\ HeldIn(Keys, j)' <=> Held(j)'
               /\ BuriedIn(Keys, j)' <=> Buried(j)'
               /\ KeptIn(Keys, j)' <=> Kept(j)'
    BY <2>1, HeldBuriedNext DEF HeldIn, BuriedIn, KeptIn, Kept, Copies, Letters
  <2>3. KeysType(Keys)'
    BY <1>2, <2>1 DEF TypeOK, StoreTypeOK, KeysType
  <2>4. KeysKnown(Keys)'
    BY <1>2, <2>1 DEF PayloadsKnown, DeadLettersKnown, KeysKnown
  <2>5. KeysBacked(Keys)' /\ KeysKeep(Keys)'
    BY <1>2, <2>1, <2>2 DEF KeysBacked, KeysKeep
  <2> QED BY <2>3, <2>4, <2>5 DEF KeysOK
<1>3. CASE ProducerNext /\ UNCHANGED <<worker, reaper>>
  <2>1. TypeOK' /\ PayloadsKnown' /\ DeadLettersKnown'
    BY <1>1, <1>3, ProducerTypes, ProducerKnown
  <2>2. \A j \in Jobs :
          /\ Held(j) => Held(j)'
          /\ UNCHANGED <<processing, results, deadLetter>>
          /\ \/ status'[j] = status[j]
             \/ status'[j] = "queued" /\ stage[j] = "new" /\ stage'[j] = "push"
          /\ Submitted(j) => Submitted(j)'
          /\ Submitted(j)' => Submitted(j) \/ Held(j)'
    BY <1>3, ProducerStatus
  <2>3. UNCHANGED <<results, deadLetter>>
    BY <1>3 DEF ProducerNext, Enqueue, EnqueueFails, SaveQueuedStatus, PushNewTask,
                CountSubmitted, store
  <2>4. results \subseteq Jobs
    BY DEF TypeOK, StoreTypeOK
  <2>5. \A j : Buried(j)' <=> Buried(j)
    BY <2>3 DEF Buried
  <2>6. \A j \in results' : Submitted(j)'
    BY <1>1, <2>2, <2>3, <2>4
  <2>7. \A j \in Jobs : Kept(j)' => Submitted(j)'
    <3> SUFFICES ASSUME NEW j \in Jobs, Kept(j)' PROVE Submitted(j)'
      OBVIOUS
    <3>1. CASE Held(j)'
      <4>1. PICK p \in Copies' : p.job = j
        BY <3>1, HeldBuriedNext
      <4> QED BY <2>1, <4>1 DEF PayloadsKnown, Copies, Known
    <3>2. CASE Buried(j)'
      <4>1. PICK d \in Letters' : d.payload.job = j
        BY <3>2, HeldBuriedNext
      <4> QED BY <2>1, <4>1 DEF DeadLettersKnown, Letters
    <3> QED BY <2>6, <3>1, <3>2 DEF Kept
  <2>8. ASSUME NEW j \in Jobs
        PROVE  /\ status'[j] = "completed" => j \in results'
               /\ status'[j] = "failed" => Buried(j)'
               /\ status'[j] = "queued" /\ Kept(j)' => Held(j)'
    <3>1. stage'[j] = "push" => ~Submitted(j)'
      BY DEF Submitted
    <3>2. Kept(j)' => Kept(j) \/ Held(j)'
      BY <2>3, <2>5 DEF Kept
    <3> HIDE DEF Held, Buried, Submitted, Kept
    <3> QED BY <1>1, <2>2, <2>3, <2>5, <2>7, <3>1, <3>2
  <2>9. \A j \in safe' : Kept(j)'
    <3> SUFFICES ASSUME NEW j \in safe PROVE Kept(j)'
      OBVIOUS
    <3>1. j \in Jobs /\ Kept(j)
      BY <1>1
    <3> QED BY <2>2, <2>3, <2>5, <3>1 DEF Kept
  <2> QED BY <1>2, <2>1, <2>2, <2>6, <2>8, <2>9
<1>4. CASE \/ WorkerNext /\ UNCHANGED <<stage, reaper>>
           \/ ReaperNext /\ UNCHANGED <<stage, worker>>
  <2>1. /\ TypeOK' /\ PayloadsKnown' /\ Effect /\ UNCHANGED stage
        /\ \A j \in Jobs : StatusStep(j)
    BY <1>4, WorkerTypes, WorkerKnown, WorkerEffect, WorkerStatus,
             ReaperTypes, ReaperKnown, ReaperEffect, ReaperStatus
  <2>2. DeadLettersKnown'
    BY <1>1, <2>1, EffectKeepsLetters
  <2>3. \A j : Submitted(j)' <=> Submitted(j)
    BY <2>1 DEF Submitted
  <2>4. \A j \in results' : Submitted(j)'
    BY <1>1, <2>1, <2>3 DEF Effect, Quiet, Replaces, Stores, Buries, Known
  <2>5. \A j : /\ Held(j) => Held(j)' \/ j \in results' \/ Buried(j)'
               /\ j \in results => j \in results'
               /\ Buried(j) => Buried(j)'
    BY <2>1, EffectOnJobs
  <2>6. ASSUME NEW j \in Jobs
        PROVE  /\ status'[j] = "completed" => j \in results'
               /\ status'[j] = "failed" => Buried(j)'
               /\ status'[j] = "queued" /\ Kept(j)' => Held(j)'
    <3>1. SameFate(j) => (Kept(j)' => Kept(j))
      BY DEF SameFate, Kept
    <3> HIDE DEF Held, Buried, Kept
    <3> QED BY <1>1, <2>1, <3>1 DEF StatusStep, SameFate
  <2>7. \A j \in safe' : Kept(j)'
    BY <1>1, <2>5 DEF Kept
  <2> QED BY <1>2, <2>1, <2>2, <2>3, <2>4, <2>6, <2>7
<1> QED BY <1>3, <1>4 DEF Next

(* What an fsync adds to the file is what memory holds. *)
LEMMA FsyncKeepsInv ==
  ASSUME DurableInv, Fsync
  PROVE  DurableInv'
<1>1. /\ durable' = Keys /\ UNCHANGED vars
      /\ safe' = safe \cup {j \in Jobs : Kept(j)}
  BY DEF Fsync
<1>2. Keys' = Keys
  BY <1>1 DEF vars, store, Keys
<1>3. TypeOK' /\ PayloadsKnown'
  BY <1>1 DEF DurableInv, vars, store, worker, reaper, TypeOK, StoreTypeOK,
     ProducerTypeOK, WorkerTypeOK, ReaperTypeOK, PayloadsKnown, Known, Submitted, Within
<1>4. safe' \subseteq Jobs
  BY <1>1 DEF DurableInv
<1>5. KeysOK(Keys)'
  <2>1. KeysType(Keys)' /\ KeysBacked(Keys)'
    BY <1>2 DEF DurableInv, KeysOK, KeysType, KeysBacked, HeldIn, BuriedIn, KeptIn
  <2>2. KeysKnown(Keys)'
    BY <1>1, <1>2 DEF DurableInv, KeysOK, KeysKnown, Known, Submitted, Within,
                      Exhausted, vars
  <2>3. \A j \in safe' : KeptIn(Keys, j)
    BY <1>1, KeysInMemory DEF DurableInv, KeysOK, KeysKeep
  <2>4. KeysKeep(Keys)'
    BY <1>2, <2>3 DEF KeysKeep, HeldIn, BuriedIn, KeptIn
  <2> QED BY <2>1, <2>2, <2>4 DEF KeysOK
<1>6. KeysOK(durable)'
  <2>1. durable' = Keys'
    BY <1>1, <1>2
  <2> QED BY <1>5, <2>1 DEF KeysOK, KeysType, KeysKnown, KeysBacked, KeysKeep,
                            HeldIn, BuriedIn, KeptIn
<1> QED BY <1>3, <1>4, <1>5, <1>6 DEF DurableInv

(* A restart gives back the keys of the file. *)
LEMMA RestartKeepsInv ==
  ASSUME DurableInv, Restart
  PROVE  DurableInv'
<1>1. /\ tasks' = durable.tasks /\ processing' = durable.processing
      /\ claims' = durable.claims /\ deadLetter' = durable.deadLetter
      /\ status' = durable.status /\ results' = durable.results
      /\ stats' = durable.stats
      /\ UNCHANGED <<clock, stage, worker, reaper, durable, safe>>
  BY DEF Restart
<1>2. /\ Keys'.tasks = durable.tasks /\ Keys'.processing = durable.processing
      /\ Keys'.claims = durable.claims /\ Keys'.deadLetter = durable.deadLetter
      /\ Keys'.status = durable.status /\ Keys'.results = durable.results
      /\ Keys'.stats = durable.stats
  BY <1>1 DEF Keys
<1>3. TypeOK'
  BY <1>1 DEF DurableInv, KeysOK, KeysType, worker, reaper, TypeOK, StoreTypeOK,
              ProducerTypeOK, WorkerTypeOK, ReaperTypeOK
<1>4. \A p : Known(p)' <=> Known(p)
  BY <1>1 DEF Known, Submitted, Within
<1>5. PayloadsKnown'
  <2>1. \A p \in Range(tasks') \cup Range(processing') : Known(p)
    BY <1>1 DEF DurableInv, KeysOK, KeysKnown
  <2>2. \A j \in Jobs : claims'[j] # NoClaim => Known(claims'[j].payload)
    BY <1>1 DEF DurableInv, KeysOK, KeysKnown
  <2>3. \A w \in Workers : pc'[w] # "idle" => Known(task'[w])
    BY <1>1 DEF DurableInv, PayloadsKnown, worker
  <2>4. \A r \in Reapers : \A c \in snapshot'[r] : Known(c.payload)
    BY <1>1 DEF DurableInv, PayloadsKnown, reaper
  <2> HIDE DEF Known
  <2> QED BY <1>4, <2>1, <2>2, <2>3, <2>4 DEF PayloadsKnown
<1>6. KeysOK(durable)'
  BY <1>1, FileStaysOK DEF DurableInv, Submitted
<1>7. KeysOK(Keys)'
  BY <1>1, <1>2, <1>6 DEF KeysOK, KeysType, KeysKnown, KeysBacked, KeysKeep,
                          HeldIn, BuriedIn, KeptIn
<1>8. safe' \subseteq Jobs
  BY <1>1 DEF DurableInv
<1> QED BY <1>3, <1>5, <1>6, <1>7, <1>8 DEF DurableInv

(* The inductive step *)
LEMMA DurableInvStep == DurableInv /\ [DurableNext]_durableVars => DurableInv'
<1>1. ASSUME DurableInv, Next, UNCHANGED disk PROVE DurableInv'
  <2>1. UNCHANGED <<durable, safe>>
    BY <1>1 DEF disk
  <2>2. /\ TypeOK' /\ PayloadsKnown' /\ KeysOK(Keys)'
        /\ \A j \in Jobs : Submitted(j) => Submitted(j)'
    BY <1>1, <2>1, MemoryStaysOK DEF DurableInv
  <2>3. KeysOK(durable)'
    BY <1>1, <2>1, <2>2, FileStaysOK DEF DurableInv
  <2> QED BY <1>1, <2>1, <2>2, <2>3 DEF DurableInv
<1>2. ASSUME DurableInv, UNCHANGED durableVars PROVE DurableInv'
  <2>1. /\ UNCHANGED <<store, stage, worker, reaper, durable, safe>>
        /\ Keys' = Keys
    BY <1>2 DEF durableVars, disk, store, Keys
  <2>2. TypeOK' /\ PayloadsKnown' /\ safe' \subseteq Jobs
    BY <1>2, <2>1 DEF DurableInv, store, worker, reaper, TypeOK, StoreTypeOK,
       ProducerTypeOK, WorkerTypeOK, ReaperTypeOK, PayloadsKnown, Known, Submitted, Within
  <2>3. KeysOK(durable)' /\ KeysOK(Keys)'
    BY <1>2, <2>1 DEF DurableInv, KeysOK, KeysType, KeysKnown, KeysBacked, KeysKeep,
                      HeldIn, BuriedIn, KeptIn, Known, Submitted, Within, Exhausted
  <2> QED BY <2>2, <2>3 DEF DurableInv
<1> QED BY <1>1, <1>2, FsyncKeepsInv, RestartKeepsInv DEF DurableNext

(* The file is empty at first, as the store is. *)
LEMMA DurableInvInit == DurableInit => DurableInv
<1> SUFFICES ASSUME DurableInit PROVE DurableInv
  OBVIOUS
<1>1. IInv /\ StatusBacked
  BY IInvInit, StatusBackedInit DEF DurableInit
<1>2. results = {} /\ status = [j \in Jobs |-> "none"]
  BY DEF DurableInit, Init, StoreInit
<1>3. safe = {} /\ durable = Keys
  BY DEF DurableInit
<1>4. KeysType(Keys)
  BY <1>1, KeysInMemory DEF IInv, TypeOK, StoreTypeOK, KeysType
<1>5. KeysKnown(Keys)
  BY <1>1, <1>2, KeysInMemory DEF IInv, PayloadsKnown, DeadLettersKnown, KeysKnown
<1>6. KeysBacked(Keys) /\ KeysKeep(Keys)
  BY <1>2, <1>3, KeysInMemory DEF KeysBacked, KeysKeep
<1> QED BY <1>1, <1>3, <1>4, <1>5, <1>6 DEF DurableInv, KeysOK, IInv

(* What the invariant says of the jobs that were in the file *)
LEMMA DurableInvImplies == DurableInv => SyncedJobsKept /\ SyncedStatusBacked
<1> SUFFICES ASSUME DurableInv, NEW j \in safe
             PROVE  /\ Kept(j)
                    /\ status[j] = "completed" => j \in results
                    /\ status[j] = "failed" => Buried(j)
                    /\ status[j] = "queued" => Held(j)
  BY DEF SyncedJobsKept, SyncedStatusBacked
<1>1. j \in Jobs /\ Kept(j)
  BY KeysInMemory DEF DurableInv, KeysOK, KeysKeep
<1> QED BY <1>1, KeysInMemory DEF DurableInv, KeysOK, KeysBacked

(***************************************************************************)
(* A job that was in the append-only file at some time is never lost,      *)
(* after any number of restarts of Redis, with crashes, failing calls and  *)
(* early timeouts around them, and wherever the file ends, even between a  *)
(* BLMOVE and its claim.                                                   *)
(***************************************************************************)
THEOREM SyncedJobsSafe == DurableSpec => []SyncedJobsKept
  BY DurableInvImplies, DurableInvInit, DurableInvStep, PTL DEF DurableSpec

(***************************************************************************)
(* Such a job never has a status that nothing backs: what a restart brings *)
(* back was written by whole MULTIs and scripts.                           *)
(***************************************************************************)
THEOREM SyncedStatusTrue == DurableSpec => []SyncedStatusBacked
  BY DurableInvImplies, DurableInvInit, DurableInvStep, PTL DEF DurableSpec

----------------------------------------------------------------------------
(* A client that sends a command again                                      *)

(* What a worker was when it sent its last command: its payload was known,  *)
(* and if the command was the MULTI of requeue() a retry was left.          *)
WorkerWas(w, s) ==
  /\ s.pc \in WorkerPcs
  /\ s.task \in Payload \cup {NoTask}
  /\ s.remembered \in BOOLEAN
  /\ s.clock \in [Jobs -> Nat]
  /\ s.reading \in Nat
  /\ s.pc # "idle" => s.task \in Payload /\ Known(s.task)
  /\ pc[w] = "count_retry" => s.pc = "handle_error" /\ RetriesLeft(s.task)
  /\ pc[w] \in {"mark_started", "save_processing"} => s.pc # "idle"

ReaperWas(s) ==
  /\ s.snapshot \in SUBSET Claim
  /\ s.rpc \in ReaperPcs
  /\ \A c \in s.snapshot : Known(c.payload)

SentOK ==
  /\ sent = [p \in Workers \cup Reapers |-> sent[p]]
  /\ \A w \in Workers : sent[w] # NoCommand => WorkerWas(w, sent[w])
  /\ \A r \in Reapers : sent[r] # NoCommand => ReaperWas(sent[r])

ResendInv == IInv /\ SentOK

(* Jobs only become submitted, so what was known when a command was sent    *)
(* is known when it is sent again.                                          *)
LEMMA SentStays ==
  ASSUME SentOK, UNCHANGED <<sent, pc>>,
         \A j \in Jobs : Submitted(j) => Submitted(j)'
  PROVE  SentOK'
<1>1. \A p \in Payload : Known(p) => Known(p)'
  BY DEF Known, Within, Payload
<1>2. ASSUME NEW w \in Workers, sent'[w] # NoCommand PROVE WorkerWas(w, sent[w])'
  <2>1. WorkerWas(w, sent[w])
    BY <1>2 DEF SentOK
  <2> HIDE DEF Known
  <2> QED BY <1>1, <2>1 DEF WorkerWas, RetriesLeft
<1>3. ASSUME NEW r \in Reapers, sent'[r] # NoCommand PROVE ReaperWas(sent[r])'
  <2>1. ReaperWas(sent[r])
    BY <1>3 DEF SentOK
  <2>2. \A c \in sent[r].snapshot : c.payload \in Payload
    BY <2>1 DEF ReaperWas, Claim
  <2> HIDE DEF Known
  <2> QED BY <1>1, <2>1, <2>2 DEF ReaperWas
<1> QED BY <1>2, <1>3 DEF SentOK

(* A command that is sent again forgets that it could be. *)
LEMMA SentForgets ==
  ASSUME SentOK, NEW p \in Workers \cup Reapers,
         sent' = [sent EXCEPT ![p] = NoCommand], UNCHANGED stage,
         \A w \in Workers \ {p} : pc'[w] = pc[w]
  PROVE  SentOK'
<1>1. \A q : Known(q)' <=> Known(q)
  BY DEF Known, Submitted, Within
<1>2. ASSUME NEW w \in Workers, sent'[w] # NoCommand PROVE WorkerWas(w, sent[w])'
  <2>1. w # p /\ sent'[w] = sent[w] /\ WorkerWas(w, sent[w])
    BY <1>2 DEF SentOK
  <2>2. pc'[w] = pc[w]
    BY <2>1
  <2> HIDE DEF Known
  <2> QED BY <1>1, <2>1, <2>2 DEF WorkerWas, RetriesLeft
<1>3. ASSUME NEW r \in Reapers, sent'[r] # NoCommand PROVE ReaperWas(sent[r])'
  <2>1. r # p /\ sent'[r] = sent[r] /\ ReaperWas(sent[r])
    BY <1>3 DEF SentOK
  <2> HIDE DEF Known
  <2> QED BY <1>1, <2>1 DEF ReaperWas
<1>4. sent' = [q \in Workers \cup Reapers |-> sent'[q]]
  BY DEF SentOK
<1> QED BY <1>2, <1>3, <1>4 DEF SentOK

(* What a worker was at its command is right: only requeue() leads to its   *)
(* counter, and it tests the retries that are left.                         *)
LEMMA WorkerSends ==
  ASSUME IInv, SentOK, NEW w \in Workers, WorkerStep(w) \/ Crash(w),
         UNCHANGED <<stage, reaper>>,
         Sending(w, [pc |-> pc[w], task |-> task[w], remembered |-> remembered[w],
                     clock |-> clock, reading |-> reading[w]])
  PROVE  SentOK'
<1>1. /\ pc \in [Workers -> WorkerPcs] /\ task \in [Workers -> Payload \cup {NoTask}]
      /\ remembered \in [Workers -> BOOLEAN] /\ clock \in [Jobs -> Nat]
      /\ reading \in [Workers -> Nat]
      /\ pc[w] # "idle" => task[w] \in Payload /\ Known(task[w])
  BY DEF IInv, TypeOK, StoreTypeOK, WorkerTypeOK, PayloadsKnown
<1>2. PICK s : s = [pc |-> pc[w], task |-> task[w], remembered |-> remembered[w],
                    clock |-> clock, reading |-> reading[w]]
  OBVIOUS
<1>3. /\ pc'[w] = "count_retry" => pc[w] = "handle_error" /\ RetriesLeft(task[w])
      /\ pc'[w] \in {"mark_started", "save_processing"} => pc[w] # "idle"
      /\ \A v \in Workers \ {w} : pc'[v] = pc[v]
  BY <1>1 DEF WorkerStep, Dequeue, RecordClaim, MarkStarted, WriteClaim, SaveProcessing,
     CountAttempt, ObserveWait, InferenceFails, SaveResult, SaveResultReplyLost,
     CountCompleted, CountCompletedFails, Requeue, CountRetry, SetError,
     CountFailed, CountDead, HandlerFails, RecordDuration, Crash, Reset,
     CountStep, Goto
<1>4. \A q : Known(q)' <=> Known(q)
  BY DEF Known, Submitted, Within
<1>5. sent' = [sent EXCEPT ![w] = IF store' = store THEN NoCommand ELSE s]
  BY <1>2 DEF Sending
<1>6. WorkerWas(w, s)'
  <2> HIDE DEF Known
  <2> QED BY <1>1, <1>2, <1>3, <1>4 DEF WorkerWas, RetriesLeft
<1>7. ASSUME NEW v \in Workers, sent'[v] # NoCommand PROVE WorkerWas(v, sent[v])'
  <2>1. CASE v = w
    <3>1. sent'[v] = s
      BY <1>5, <1>7, <2>1 DEF SentOK
    <3> QED BY <1>6, <2>1, <3>1 DEF WorkerWas
  <2>2. CASE v # w
    <3>1. sent'[v] = sent[v] /\ WorkerWas(v, sent[v]) /\ pc'[v] = pc[v]
      BY <1>3, <1>5, <1>7, <2>2 DEF SentOK
    <3> HIDE DEF Known
    <3> QED BY <1>4, <3>1 DEF WorkerWas, RetriesLeft
  <2> QED BY <2>1, <2>2
<1>8. ASSUME NEW r \in Reapers, sent'[r] # NoCommand PROVE ReaperWas(sent[r])'
  <2>1. r # w
    BY WorkersAreNotReapers
  <2>2. sent'[r] = sent[r] /\ ReaperWas(sent[r])
    BY <1>5, <1>8, <2>1 DEF SentOK
  <2> HIDE DEF Known
  <2> QED BY <1>4, <2>2 DEF ReaperWas
<1>9. sent' = [q \in Workers \cup Reapers |-> sent'[q]]
  BY <1>5 DEF SentOK
<1> QED BY <1>7, <1>8, <1>9 DEF SentOK

(* The same for a reaper, whose scan holds claims of known payloads. *)
LEMMA ReaperSends ==
  ASSUME IInv, SentOK, NEW r \in Reapers, UNCHANGED <<stage, worker>>,
         Sending(r, [snapshot |-> snapshot[r], rpc |-> rpc[r]])
  PROVE  SentOK'
<1>1. /\ snapshot[r] \in SUBSET Claim /\ rpc[r] \in ReaperPcs
      /\ \A c \in snapshot[r] : Known(c.payload)
  BY DEF IInv, TypeOK, ReaperTypeOK, PayloadsKnown
<1>2. PICK s : s = [snapshot |-> snapshot[r], rpc |-> rpc[r]]
  OBVIOUS
<1>3. \A q : Known(q)' <=> Known(q)
  BY DEF Known, Submitted, Within
<1>4. sent' = [sent EXCEPT ![r] = IF store' = store THEN NoCommand ELSE s]
  BY <1>2 DEF Sending
<1>5. ReaperWas(s)'
  <2> HIDE DEF Known
  <2> QED BY <1>1, <1>2, <1>3 DEF ReaperWas
<1>6. ASSUME NEW x \in Reapers, sent'[x] # NoCommand PROVE ReaperWas(sent[x])'
  <2>1. CASE x = r
    <3>1. sent'[x] = s
      BY <1>4, <1>6, <2>1 DEF SentOK
    <3> QED BY <1>5, <3>1 DEF ReaperWas
  <2>2. CASE x # r
    <3>1. sent'[x] = sent[x] /\ ReaperWas(sent[x])
      BY <1>4, <1>6, <2>2 DEF SentOK
    <3> HIDE DEF Known
    <3> QED BY <1>3, <3>1 DEF ReaperWas
  <2> QED BY <2>1, <2>2
<1>7. ASSUME NEW w \in Workers, sent'[w] # NoCommand PROVE WorkerWas(w, sent[w])'
  <2>1. r # w
    BY WorkersAreNotReapers
  <2>2. sent'[w] = sent[w] /\ WorkerWas(w, sent[w]) /\ pc' = pc
    BY <1>4, <1>7, <2>1 DEF SentOK, worker
  <2> HIDE DEF Known
  <2> QED BY <1>3, <2>2 DEF WorkerWas, RetriesLeft
<1>8. sent' = [q \in Workers \cup Reapers |-> sent'[q]]
  BY <1>4 DEF SentOK
<1> QED BY <1>6, <1>7, <1>8 DEF SentOK

(* A step that takes no copy of a job away, unless it puts one in its place *)
(* and names the job queued.                                                *)
BackedStep(j) ==
  \/ status'[j] = status[j] /\ (Held(j) => Held(j)')
  \/ status'[j] = "queued" /\ Held(j)'

(* Such a step, of one of the four effects, keeps every status backed.      *)
LEMMA BackedStepFrame ==
  ASSUME StatusBacked, Effect, UNCHANGED stage, \A j \in Jobs : BackedStep(j)
  PROVE  StatusBacked'
<1> SUFFICES ASSUME NEW j \in Jobs
             PROVE  /\ status'[j] = "completed" => j \in results'
                    /\ status'[j] = "failed" => Buried(j)'
                    /\ status'[j] = "queued" /\ Submitted(j)' => Held(j)'
  BY DEF StatusBacked
<1>1. /\ j \in results => j \in results'
      /\ Buried(j) => Buried(j)'
  BY EffectOnJobs
<1>2. Submitted(j)' <=> Submitted(j)
  BY DEF Submitted
<1>3. BackedStep(j)
  OBVIOUS
<1> HIDE DEF Held, Buried, Submitted
<1> QED BY <1>1, <1>2, <1>3 DEF StatusBacked, BackedStep

(* A step whose effect is one of the four and that keeps types and payloads *)
(* keeps the invariant of the queue.                                        *)
LEMMA EffectKeepsIInv ==
  ASSUME IInv, TypeOK', PayloadsKnown', Effect, UNCHANGED stage
  PROVE  IInv'
  BY EffectKeepsLetters, EffectLosesNone DEF IInv

(* The second RPUSH of enqueue() adds a copy of a job that is submitted.    *)
LEMMA PushAgain ==
  ASSUME ResendInv, NEW j \in Jobs, ResendPush(j)
  PROVE  /\ ResendInv' /\ Effect /\ UNCHANGED stage
         /\ \A i \in Jobs : BackedStep(i)
<1> DEFINE q == NewPayload(j)
<1>1. /\ TypeOK /\ PayloadsKnown /\ StoreTypeOK /\ SentOK
      /\ tasks \in Seq(Payload)
  BY DEF ResendInv, IInv, TypeOK, StoreTypeOK
<1>2. /\ UNCHANGED <<processing, claims, deadLetter, status, results, stats,
                     clock, stage, worker, reaper, sent>>
      /\ tasks' = Append(tasks, q) /\ stage[j] = "count"
  BY DEF ResendPush, PushTask
<1>3. q \in Payload /\ q.job = j /\ Known(q)
  BY <1>2, NewPayloadType, BudgetsAreNaturals DEF Known, Submitted, Within
<1> HIDE DEF q
<1>4. Range(tasks') = Range(tasks) \cup {q} /\ tasks' \in Seq(Payload)
  BY <1>1, <1>2, <1>3, AppendRange
<1>5. TypeOK'
  BY <1>1, <1>2, <1>4 DEF TypeOK, StoreTypeOK, ProducerTypeOK, WorkerTypeOK,
                          ReaperTypeOK, worker, reaper
<1>6. PayloadsKnown'
  BY <1>1, <1>2, <1>3, <1>4, KnownFrame DEF worker, reaper
<1>7. Replaces(q, q)
  BY <1>2, <1>3, <1>4 DEF Replaces, Copies, Letters
<1>8. Effect
  BY <1>3, <1>7 DEF Effect
<1>9. SentOK'
  BY <1>1, <1>2, SentStays DEF worker, Submitted
<1>10. ASSUME NEW i \in Jobs PROVE BackedStep(i)
  <2>1. Held(i) => Held(i)'
    BY <1>2, <1>4, HeldByCopies, HeldBuriedNext DEF Copies
  <2> QED BY <1>2, <2>1 DEF BackedStep
<1> QED BY <1>2, <1>5, <1>6, <1>8, <1>9, <1>10, EffectKeepsIInv DEF ResendInv

(* The second MULTI of requeue() pushes the same text again: its payload    *)
(* was known and had a retry left.                                          *)
LEMMA RequeueAgain ==
  ASSUME ResendInv, NEW w \in Workers, ResendRequeue(w)
  PROVE  /\ ResendInv' /\ Effect /\ UNCHANGED stage
         /\ \A i \in Jobs : BackedStep(i)
<1>1. /\ TypeOK /\ PayloadsKnown /\ StoreTypeOK /\ SentOK
      /\ tasks \in Seq(Payload) /\ processing \in Seq(Payload)
      /\ claims \in [Jobs -> Claim \cup {NoClaim}]
      /\ status \in [Jobs -> Statuses]
  BY DEF ResendInv, IInv, TypeOK, StoreTypeOK
<1>2. PICK s : s = sent[w]
  OBVIOUS
<1>3. PICK p : p = s.task
  OBVIOUS
<1>4. PICK q : q = Retried(p, s.clock[p.job] + 1)
  OBVIOUS
<1>5. /\ UNCHANGED <<deadLetter, results, stats, clock, stage, worker, reaper>>
      /\ tasks' = Append(tasks, q) /\ Ack(p, s.remembered)
      /\ status' = [status EXCEPT ![p.job] = "queued"]
      /\ pc[w] = "count_retry" /\ s # NoCommand
      /\ sent' = [sent EXCEPT ![w] = NoCommand]
  BY <1>2, <1>3, <1>4 DEF ResendRequeue, PushTask, SetStatus
<1>6. /\ p \in Payload /\ p.job \in Jobs /\ Known(p) /\ RetriesLeft(p)
      /\ s.clock[p.job] + 1 \in Nat
  <2>1. WorkerWas(w, s)
    BY <1>1, <1>2, <1>5 DEF SentOK
  <2>2. s.pc # "idle" /\ p \in Payload /\ Known(p) /\ RetriesLeft(p)
    BY <1>3, <1>5, <2>1 DEF WorkerWas
  <2>3. p.job \in Jobs
    BY <2>2 DEF Payload
  <2>4. s.clock[p.job] \in Nat
    BY <2>1, <2>3 DEF WorkerWas
  <2> QED BY <2>2, <2>3, <2>4
<1>7. q \in Payload /\ q.job = p.job /\ Known(q)
  BY <1>4, <1>6, PayloadUpdates, UpdatesKnown
<1>8. /\ processing' \in Seq(Payload)
      /\ Range(processing') \subseteq Range(processing)
      /\ Range(processing) \ {p} \subseteq Range(processing')
      /\ claims' = [claims EXCEPT ![p.job] = NoClaim]
      /\ claims' \in [Jobs -> Claim \cup {NoClaim}]
  BY <1>1, <1>5, <1>6, AckEffect
<1>9. Range(tasks') = Range(tasks) \cup {q} /\ tasks' \in Seq(Payload)
  BY <1>1, <1>5, <1>7, AppendRange
<1>10. TypeOK'
  <2>1. status' \in [Jobs -> Statuses]
    BY <1>1, <1>5 DEF Statuses
  <2>2. StoreTypeOK'
    BY <1>1, <1>5, <1>8, <1>9, <2>1 DEF StoreTypeOK
  <2> QED BY <1>1, <1>5, <2>2 DEF TypeOK, ProducerTypeOK, WorkerTypeOK,
                                  ReaperTypeOK, worker, reaper
<1>11. PayloadsKnown'
  <2>1. \A i \in Jobs : claims'[i] = claims[i] \/ claims'[i] = NoClaim
    BY <1>1, <1>8
  <2> QED BY <1>1, <1>5, <1>7, <1>8, <1>9, <2>1, KnownFrame DEF worker, reaper
<1>12. Replaces(p, q)
  BY <1>5, <1>6, <1>7, <1>8, <1>9 DEF Replaces, Copies, Letters
<1>13. Effect
  BY <1>6, <1>7, <1>12 DEF Effect
<1>14. SentOK'
  <2>1. \A v \in Workers \ {w} : pc'[v] = pc[v]
    BY <1>5 DEF worker
  <2> QED BY <1>1, <1>5, <2>1, SentForgets
<1>15. ASSUME NEW i \in Jobs PROVE BackedStep(i)
  <2>1. /\ Held(i) <=> \E c \in Copies : c.job = i
        /\ Held(i)' <=> \E c \in Copies' : c.job = i
    BY HeldByCopies, HeldBuriedNext
  <2>2. CASE p.job = i
    <3>1. Held(i)'
      BY <1>7, <1>12, <2>1, <2>2 DEF Replaces
    <3> QED BY <1>1, <1>5, <2>2, <3>1 DEF BackedStep
  <2>3. CASE p.job # i
    <3>1. Held(i) => Held(i)'
      BY <1>12, <2>1, <2>3 DEF Replaces
    <3> QED BY <1>1, <1>5, <2>3, <3>1 DEF BackedStep
  <2> QED BY <2>2, <2>3
<1> QED BY <1>5, <1>10, <1>11, <1>13, <1>14, <1>15, EffectKeepsIInv DEF ResendInv

(* The second HSET of a claim writes a claim on a payload that was known    *)
(* when it was written first.                                               *)
LEMMA ClaimAgain ==
  ASSUME ResendInv, NEW w \in Workers, ResendClaim(w)
  PROVE  /\ ResendInv' /\ Effect /\ UNCHANGED stage
         /\ \A i \in Jobs : BackedStep(i)
<1>1. /\ TypeOK /\ PayloadsKnown /\ StoreTypeOK /\ SentOK
      /\ claims \in [Jobs -> Claim \cup {NoClaim}]
  BY DEF ResendInv, IInv, TypeOK, StoreTypeOK
<1>2. PICK c : c = ClaimOf(w, sent[w].task, pc[w] = "save_processing", sent[w].reading + 1)
  OBVIOUS
<1>3. /\ UNCHANGED <<tasks, processing, deadLetter, status, results, stats, clock,
                     stage, worker, reaper>>
      /\ pc[w] \in {"mark_started", "save_processing"} /\ sent[w] # NoCommand
      /\ claims' = [claims EXCEPT ![c.payload.job] = c]
      /\ sent' = [sent EXCEPT ![w] = NoCommand]
  BY <1>2 DEF ResendClaim, PutClaim
<1>4. c \in Claim /\ Known(c.payload) /\ c.payload.job \in Jobs
  <2>1. WorkerWas(w, sent[w])
    BY <1>1, <1>3 DEF SentOK
  <2>2. sent[w].task \in Payload /\ Known(sent[w].task) /\ sent[w].reading + 1 \in Nat
    BY <1>3, <2>1 DEF WorkerWas
  <2>3. c.payload = sent[w].task
    BY <1>2 DEF ClaimOf
  <2>4. c \in Claim
    BY <1>2, <2>2 DEF ClaimOf, Claim
  <2> QED BY <2>2, <2>3, <2>4 DEF Payload
<1>5. TypeOK'
  <2>1. claims' \in [Jobs -> Claim \cup {NoClaim}]
    BY <1>1, <1>3, <1>4
  <2> QED BY <1>1, <1>3, <2>1 DEF TypeOK, StoreTypeOK, ProducerTypeOK,
                                  WorkerTypeOK, ReaperTypeOK, worker, reaper
<1>6. PayloadsKnown'
  <2>1. \A j \in Jobs :
          claims'[j] # NoClaim =>
            (claims[j] # NoClaim /\ claims'[j] = claims[j]) \/ Known(claims'[j].payload)
    BY <1>1, <1>3, <1>4
  <2> QED BY <1>1, <1>3, <2>1, KnownFrame DEF worker, reaper
<1>7. Effect
  BY <1>3 DEF Effect, Quiet, Copies, Letters
<1>8. SentOK'
  BY <1>1, <1>3, SentForgets DEF worker
<1>9. \A i \in Jobs : BackedStep(i)
  BY <1>3 DEF BackedStep, Held, PendingOf, InProcessing
<1> QED BY <1>3, <1>5, <1>6, <1>7, <1>8, <1>9, EffectKeepsIInv DEF ResendInv

(* A worker that is back at its command holds the payload it held then.     *)
LEMMA WorkerAgain ==
  ASSUME ResendInv, NEW w \in Workers, ResendByWorker(w)
  PROVE  /\ ResendInv' /\ Effect /\ UNCHANGED stage
         /\ \A i \in Jobs : BackedStep(i)
<1>1. TypeOK /\ PayloadsKnown /\ WorkerTypeOK /\ SentOK
  BY DEF ResendInv, IInv, TypeOK
<1>2. PICK s : s = sent[w]
  OBVIOUS
<1>3. /\ UNCHANGED <<store, stage, reading, reaper>> /\ s # NoCommand
      /\ pc' = [pc EXCEPT ![w] = s.pc]
      /\ task' = [task EXCEPT ![w] = s.task]
      /\ remembered' = [remembered EXCEPT ![w] = s.remembered]
      /\ sent' = [sent EXCEPT ![w] = NoCommand]
  BY <1>2 DEF ResendByWorker
<1>4. WorkerWas(w, s)
  BY <1>1, <1>2, <1>3 DEF SentOK
<1>5. WorkerTypeOK'
  BY <1>1, <1>3, <1>4 DEF WorkerTypeOK, WorkerWas
<1>6. TypeOK'
  BY <1>1, <1>3, <1>5 DEF TypeOK, StoreTypeOK, ProducerTypeOK, ReaperTypeOK, store, reaper
<1>7. PayloadsKnown'
  <2>1. \A v \in Workers :
          pc'[v] # "idle" => \/ (pc[v] # "idle" /\ task'[v] = task[v])
                             \/ Known(task'[v])
    BY <1>1, <1>3, <1>4 DEF WorkerTypeOK, WorkerWas
  <2>2. UNCHANGED <<tasks, processing, claims, snapshot, stage>>
    BY <1>3 DEF store, reaper
  <2> QED BY <1>1, <2>1, <2>2, KnownFrame
<1>8. Effect
  BY <1>3 DEF Effect, Quiet, Copies, Letters, store
<1>9. SentOK'
  <2>1. \A v \in Workers \ {w} : pc'[v] = pc[v]
    BY <1>1, <1>3 DEF WorkerTypeOK
  <2> QED BY <1>1, <1>3, <2>1, SentForgets
<1>10. \A i \in Jobs : BackedStep(i)
  BY <1>3 DEF BackedStep, Held, PendingOf, InProcessing, store
<1> QED BY <1>3, <1>6, <1>7, <1>8, <1>9, <1>10, EffectKeepsIInv DEF ResendInv

(* So does a reaper that is back at its script. *)
LEMMA ReaperAgain ==
  ASSUME ResendInv, NEW r \in Reapers, ResendByReaper(r)
  PROVE  /\ ResendInv' /\ Effect /\ UNCHANGED stage
         /\ \A i \in Jobs : BackedStep(i)
<1>1. TypeOK /\ PayloadsKnown /\ ReaperTypeOK /\ SentOK
  BY DEF ResendInv, IInv, TypeOK
<1>2. PICK s : s = sent[r]
  OBVIOUS
<1>3. /\ UNCHANGED <<store, stage, worker>> /\ s # NoCommand
      /\ snapshot' = [snapshot EXCEPT ![r] = s.snapshot]
      /\ rpc' = [rpc EXCEPT ![r] = s.rpc]
      /\ sent' = [sent EXCEPT ![r] = NoCommand]
  BY <1>2 DEF ResendByReaper
<1>4. ReaperWas(s)
  BY <1>1, <1>2, <1>3 DEF SentOK
<1>5. ReaperTypeOK'
  BY <1>1, <1>3, <1>4 DEF ReaperTypeOK, ReaperWas
<1>6. TypeOK'
  BY <1>1, <1>3, <1>5 DEF TypeOK, StoreTypeOK, ProducerTypeOK, WorkerTypeOK, store, worker
<1>7. PayloadsKnown'
  <2>1. \A x \in Reapers : \A c \in snapshot'[x] :
          c \in snapshot[x] \/ Known(c.payload)
    BY <1>1, <1>3, <1>4 DEF ReaperTypeOK, ReaperWas
  <2>2. UNCHANGED <<tasks, processing, claims, pc, task, stage>>
    BY <1>3 DEF store, worker
  <2> QED BY <1>1, <2>1, <2>2, KnownFrame
<1>8. Effect
  BY <1>3 DEF Effect, Quiet, Copies, Letters, store
<1>9. SentOK'
  BY <1>1, <1>3, SentForgets DEF worker
<1>10. \A i \in Jobs : BackedStep(i)
  BY <1>3 DEF BackedStep, Held, PendingOf, InProcessing, store
<1> QED BY <1>3, <1>6, <1>7, <1>8, <1>9, <1>10, EffectKeepsIInv DEF ResendInv

(* A step of the queue keeps the invariant, with what its process sent.     *)
LEMMA QueueStepSends ==
  ASSUME ResendInv, ResendQueueNext
  PROVE  ResendInv' /\ Next
<1>1. IInv /\ TypeOK /\ SentOK
  BY DEF ResendInv, IInv
<1>2. CASE ProducerNext /\ UNCHANGED <<worker, reaper, wire>>
  <2>1. \A j \in Jobs : Submitted(j) => Submitted(j)'
    BY <1>1, <1>2, SubmittedStays DEF ProducerNext
  <2>2. SentOK'
    BY <1>1, <1>2, <2>1, SentStays DEF wire, worker
  <2>3. Next
    BY <1>2 DEF Next
  <2> QED BY <1>1, <2>2, <2>3, IInvStep DEF ResendInv
<1>3. ASSUME NEW w \in Workers, WorkerStep(w) \/ Crash(w), UNCHANGED <<stage, reaper>>,
             Sending(w, [pc |-> pc[w], task |-> task[w], remembered |-> remembered[w],
                         clock |-> clock, reading |-> reading[w]])
      PROVE  ResendInv' /\ Next
  <2>1. SentOK'
    BY <1>1, <1>3, WorkerSends
  <2>2. Next
    BY <1>3 DEF Next, WorkerNext
  <2> QED BY <1>1, <2>1, <2>2, IInvStep DEF ResendInv
<1>4. ASSUME NEW r \in Reapers, Scan(r) \/ ReaperStep(r) \/ ScanFails(r),
             UNCHANGED <<stage, worker>>,
             Sending(r, [snapshot |-> snapshot[r], rpc |-> rpc[r]])
      PROVE  ResendInv' /\ Next
  <2>1. SentOK'
    BY <1>1, <1>4, ReaperSends
  <2>2. Next
    BY <1>4 DEF Next, ReaperNext
  <2> QED BY <1>1, <2>1, <2>2, IInvStep DEF ResendInv
<1> QED BY <1>2, <1>3, <1>4 DEF ResendQueueNext

(* Every other step is a command that is executed a second time. *)
LEMMA ResendKeepsInv ==
  ASSUME ResendInv, ResendNext, ~ResendQueueNext
  PROVE  /\ ResendInv' /\ Effect /\ UNCHANGED stage
         /\ \A i \in Jobs : BackedStep(i)
  BY PushAgain, RequeueAgain, ClaimAgain, WorkerAgain, ReaperAgain DEF ResendNext

(* The inductive step *)
LEMMA ResendInvStep == ResendInv /\ [ResendNext]_resendVars => ResendInv'
<1>1. ASSUME ResendInv, UNCHANGED resendVars PROVE ResendInv'
  <2>1. UNCHANGED vars /\ UNCHANGED <<sent, pc, stage>>
    BY <1>1 DEF resendVars, vars, wire, worker
  <2>2. \A j \in Jobs : Submitted(j) => Submitted(j)'
    BY <2>1 DEF Submitted
  <2> QED BY <1>1, <2>1, <2>2, IInvStep, SentStays DEF ResendInv
<1>2. ASSUME ResendInv, ResendNext PROVE ResendInv'
  BY <1>2, QueueStepSends, ResendKeepsInv
<1> QED BY <1>1, <1>2

(* Nothing was sent at first. *)
LEMMA ResendInvInit == ResendInit => ResendInv
  BY IInvInit DEF ResendInit, ResendInv, SentOK

(***************************************************************************)
(* With a client that executes commands twice, any number of times and     *)
(* with any other process between the two, no payload exceeds its budgets  *)
(* and every dead letter exhausted the one it names: a repeated requeue()  *)
(* repeats a text whose attempt was counted once for both copies.          *)
(***************************************************************************)
THEOREM ResentWithinBudgets == ResendSpec => []BudgetRespected
<1>1. ResendInv => BudgetRespected
  BY DEF ResendInv, IInv, PayloadsKnown, DeadLettersKnown, BudgetRespected, Known
<1> QED BY <1>1, ResendInvInit, ResendInvStep, PTL DEF ResendSpec

(***************************************************************************)
(* Such a queue still implements the at-least-once promise: a command that *)
(* is executed twice adds a copy or a dead letter of a submitted job, or   *)
(* changes nothing more.                                                   *)
(***************************************************************************)
THEOREM ResentAtLeastOnce == ResendSpec => ImplementsAtLeastOnce
<1>1. ResendInit => Promise!Init
  BY DEF ResendInit, Init, StoreInit, ProducerInit, Promise!Init, Submitted, Held,
         PendingOf, InProcessing, Buried
<1>2. ResendInv /\ [ResendNext]_resendVars => [Promise!Next]_(Promise!vars)
  <2>1. ASSUME ResendInv, ResendQueueNext PROVE [Promise!Next]_(Promise!vars)
    <3>1. IInv /\ Next
      BY <2>1, QueueStepSends DEF ResendInv
    <3> QED BY <3>1, StepRefines
  <2>2. ASSUME ResendInv, ResendNext, ~ResendQueueNext
        PROVE  [Promise!Next]_(Promise!vars)
    BY <2>2, ResendKeepsInv, EffectRefines DEF ResendInv
  <2>3. ASSUME UNCHANGED resendVars PROVE UNCHANGED Promise!vars
    BY <2>3 DEF resendVars, store, Promise!vars, Submitted, Held, PendingOf,
                InProcessing, Buried
  <2> QED BY <2>1, <2>2, <2>3
<1> QED BY <1>1, <1>2, ResendInvInit, ResendInvStep, PTL
        DEF ResendSpec, ImplementsAtLeastOnce, Promise!Spec

(***************************************************************************)
(* What a client reads as the status of its job stays backed although      *)
(* commands are executed twice: a MULTI that is repeated writes its status *)
(* and its lists again together (no run asks this of the resending client; *)
(* the theorem is for any number of repeated commands).                    *)
(***************************************************************************)
THEOREM ResentStatusBacked == ResendSpec => []StatusBacked
<1>1. ResendInit => StatusBacked
  BY StatusBackedInit DEF ResendInit
<1>2. ResendInv /\ StatusBacked /\ [ResendNext]_resendVars => StatusBacked'
  <2>1. ASSUME ResendInv, StatusBacked, ResendQueueNext PROVE StatusBacked'
    <3>1. IInv /\ Next
      BY <2>1, QueueStepSends DEF ResendInv
    <3> QED BY <2>1, <3>1, StatusBackedStep
  <2>2. ASSUME ResendInv, StatusBacked, ResendNext, ~ResendQueueNext
        PROVE  StatusBacked'
    BY <2>2, ResendKeepsInv, BackedStepFrame
  <2>3. ASSUME ResendInv, StatusBacked, UNCHANGED resendVars PROVE StatusBacked'
    <3>1. IInv /\ UNCHANGED vars
      BY <2>3 DEF ResendInv, resendVars, vars
    <3> QED BY <2>3, <3>1, StatusBackedStep
  <2> QED BY <2>1, <2>2, <2>3
<1> QED BY <1>1, <1>2, ResendInvInit, ResendInvStep, PTL DEF ResendSpec

----------------------------------------------------------------------------
(* How many copies a client that sends commands again may leave.            *)
(*                                                                          *)
(* A copy in the processing list is there for somebody who will take it     *)
(* away: the worker that remembers it, or the claim of a worker that does   *)
(* not work on it any more, through the reaper.  Those takers are tokens,   *)
(* {w} for the worker w and {} for the claim of the job.  A taker that      *)
(* finds no copy to remove, because one was removed on behalf of another,   *)
(* or a worker that has forgotten its copy already, adds one for nothing    *)
(* when it pushes: it is in debt, and each debt stands for a copy more.     *)

Tokens == {{w} : w \in Workers} \cup {{}}

(* The debt D covers the tokens B that have no copy, and of the takers T[p] *)
(* of each text p all but the m[p] copies of it; the n copies of the job    *)
(* and the debt together stay within k.                                     *)
Settles(D, P, B, T, m, n, k) ==
  /\ D \in SUBSET Tokens
  /\ B \subseteq D
  /\ \A p \in P : Cardinality(T[p] \ D) <= m[p]
  /\ n + Cardinality(D) <= k

Balance(P, B, T, m, n, k) == \E D : Settles(D, P, B, T, m, n, k)

BalanceType(P, B, T, m, n, k) ==
  /\ B \in SUBSET Tokens
  /\ \A p \in P : T[p] \in SUBSET Tokens /\ m[p] \in Nat
  /\ n \in Nat /\ k \in Int

(* Sets of tokens are finite, so they can be counted and compared. *)
LEMMA TokensCount ==
  /\ \A S \in SUBSET Tokens : IsFiniteSet(S) /\ Cardinality(S) \in Nat
  /\ \A S, R \in SUBSET Tokens : S \subseteq R => Cardinality(S) <= Cardinality(R)
  /\ \A S \in SUBSET Tokens : \A t \in Tokens :
       /\ Cardinality(S \cup {t}) <= Cardinality(S) + 1
       /\ t \in S => Cardinality(S \ {t}) = Cardinality(S) - 1
  /\ \A S \in SUBSET Tokens : Cardinality(S) <= 0 => S = {}
<1>1. IsFiniteSet(Tokens)
  <2> DEFINE single == [w \in Workers |-> {w}]
             S == {{w} : w \in Workers}
  <2>1. single \in [Workers -> S] /\ \A s \in S : \E w \in Workers : single[w] = s
    OBVIOUS
  <2> HIDE DEF single, S
  <2>2. single \in Surjection(Workers, S)
    BY <2>1, Fun_IsSurj
  <2>3. IsFiniteSet(S)
    BY <2>2, JobsAndWorkersAreFinite, FS_Surjection
  <2>4. IsFiniteSet(S \cup {{}})
    BY <2>3, FS_AddElement
  <2> QED BY <2>4 DEF Tokens, S
<1> HIDE DEF Tokens
<1>2. \A S \in SUBSET Tokens : IsFiniteSet(S) /\ Cardinality(S) \in Nat
  BY <1>1, FS_Subset, FS_CardinalityType
<1>3. ASSUME NEW S \in SUBSET Tokens, NEW R \in SUBSET Tokens, S \subseteq R
      PROVE  Cardinality(S) <= Cardinality(R)
  BY <1>2, <1>3, FS_Subset
<1>4. ASSUME NEW S \in SUBSET Tokens, NEW t \in Tokens
      PROVE  /\ Cardinality(S \cup {t}) <= Cardinality(S) + 1
             /\ t \in S => Cardinality(S \ {t}) = Cardinality(S) - 1
  BY <1>2, FS_AddElement, FS_RemoveElement
<1>5. ASSUME NEW S \in SUBSET Tokens, Cardinality(S) <= 0 PROVE S = {}
  <2>1. Cardinality(S) = 0
    BY <1>2, <1>5
  <2> QED BY <1>2, <2>1, FS_EmptySet
<1> QED BY <1>2, <1>3, <1>4, <1>5

(* Fewer takers, more copies to take and no more copies in all keep the     *)
(* balance; a token without a copy may become a taker of any text.          *)
LEMMA FewerTakers ==
  ASSUME NEW P, NEW B, NEW T, NEW m, NEW n, NEW k, BalanceType(P, B, T, m, n, k),
         NEW B1, NEW T1, NEW m1, NEW n1, NEW k1, BalanceType(P, B1, T1, m1, n1, k1),
         Balance(P, B, T, m, n, k),
         B1 \subseteq B, n1 + k <= n + k1,
         \A p \in P : T1[p] \subseteq T[p] \cup B /\ m[p] <= m1[p]
  PROVE  Balance(P, B1, T1, m1, n1, k1)
<1>1. PICK D : Settles(D, P, B, T, m, n, k)
  BY DEF Balance
<1>2. D \in SUBSET Tokens /\ Cardinality(D) \in Nat
  BY <1>1, TokensCount DEF Settles
<1>3. ASSUME NEW p \in P PROVE Cardinality(T1[p] \ D) <= m1[p]
  <2>1. /\ T1[p] \in SUBSET Tokens /\ T[p] \in SUBSET Tokens
        /\ m[p] \in Nat /\ m1[p] \in Nat
        /\ T1[p] \subseteq T[p] \cup B /\ m[p] <= m1[p]
    BY DEF BalanceType
  <2>2. Cardinality(T[p] \ D) <= m[p] /\ B \subseteq D
    BY <1>1 DEF Settles
  <2>3. /\ T1[p] \ D \in SUBSET Tokens /\ T[p] \ D \in SUBSET Tokens
        /\ T1[p] \ D \subseteq T[p] \ D
    BY <2>1, <2>2
  <2>4. /\ Cardinality(T1[p] \ D) <= Cardinality(T[p] \ D)
        /\ Cardinality(T1[p] \ D) \in Nat /\ Cardinality(T[p] \ D) \in Nat
    BY <2>3, TokensCount
  <2> QED BY <2>1, <2>2, <2>4
<1>4. n1 + Cardinality(D) <= k1
  BY <1>1, <1>2 DEF Settles, BalanceType
<1>5. Settles(D, P, B1, T1, m1, n1, k1)
  BY <1>1, <1>3, <1>4 DEF Settles
<1> QED BY <1>5 DEF Balance

(* A token may become a debt at the price of a copy. *)
LEMMA NewDebt ==
  ASSUME NEW P, NEW B, NEW T, NEW m, NEW n, NEW k, BalanceType(P, B, T, m, n, k),
         NEW B1, NEW T1, NEW m1, NEW n1, NEW k1, BalanceType(P, B1, T1, m1, n1, k1),
         Balance(P, B, T, m, n, k), NEW t \in Tokens,
         B1 \subseteq B \cup {t}, n1 + k + 1 <= n + k1,
         \A p \in P : T1[p] \subseteq T[p] \cup {t} /\ m[p] <= m1[p]
  PROVE  Balance(P, B1, T1, m1, n1, k1)
<1>1. PICK C : Settles(C, P, B, T, m, n, k)
  BY DEF Balance
<1>2. PICK D : D = C \cup {t}
  OBVIOUS
<1>3. /\ C \in SUBSET Tokens /\ D \in SUBSET Tokens
      /\ Cardinality(C) \in Nat /\ Cardinality(D) \in Nat
      /\ Cardinality(D) <= Cardinality(C) + 1
  BY <1>1, <1>2, TokensCount DEF Settles
<1>4. ASSUME NEW p \in P PROVE Cardinality(T1[p] \ D) <= m1[p]
  <2>1. /\ T1[p] \in SUBSET Tokens /\ T[p] \in SUBSET Tokens
        /\ m[p] \in Nat /\ m1[p] \in Nat
        /\ T1[p] \subseteq T[p] \cup {t} /\ m[p] <= m1[p]
    BY DEF BalanceType
  <2>2. Cardinality(T[p] \ C) <= m[p]
    BY <1>1 DEF Settles
  <2>3. /\ T1[p] \ D \in SUBSET Tokens /\ T[p] \ C \in SUBSET Tokens
        /\ T1[p] \ D \subseteq T[p] \ C
    BY <1>2, <2>1, <2>2
  <2>4. /\ Cardinality(T1[p] \ D) <= Cardinality(T[p] \ C)
        /\ Cardinality(T1[p] \ D) \in Nat /\ Cardinality(T[p] \ C) \in Nat
    BY <2>3, TokensCount
  <2> QED BY <2>1, <2>2, <2>4
<1>5. n1 + Cardinality(D) <= k1
  BY <1>1, <1>3 DEF Settles, BalanceType
<1>6. B1 \subseteq D
  BY <1>1, <1>2 DEF Settles
<1>7. Settles(D, P, B1, T1, m1, n1, k1)
  BY <1>3, <1>4, <1>5, <1>6 DEF Settles
<1> QED BY <1>7 DEF Balance

(* A taker that comes with a copy of its own. *)
LEMMA NewTaker ==
  ASSUME NEW P, NEW B, NEW T, NEW m, NEW n, NEW k, BalanceType(P, B, T, m, n, k),
         NEW B1, NEW T1, NEW m1, NEW n1, NEW k1, BalanceType(P, B1, T1, m1, n1, k1),
         Balance(P, B, T, m, n, k), NEW t \in Tokens, NEW q \in P,
         B1 \subseteq B, n1 + k <= n + k1,
         T1[q] \subseteq T[q] \cup {t}, m[q] + 1 <= m1[q],
         \A p \in P \ {q} : T1[p] \subseteq T[p] /\ m[p] <= m1[p]
  PROVE  Balance(P, B1, T1, m1, n1, k1)
<1>1. PICK D : Settles(D, P, B, T, m, n, k)
  BY DEF Balance
<1>2. D \in SUBSET Tokens /\ Cardinality(D) \in Nat
  BY <1>1, TokensCount DEF Settles
<1>3. ASSUME NEW p \in P PROVE Cardinality(T1[p] \ D) <= m1[p]
  <2>1. /\ T1[p] \in SUBSET Tokens /\ T[p] \in SUBSET Tokens
        /\ m[p] \in Nat /\ m1[p] \in Nat
    BY DEF BalanceType
  <2>2. Cardinality(T[p] \ D) <= m[p]
    BY <1>1 DEF Settles
  <2>3. PICK R : R = T[p] \ D
    OBVIOUS
  <2>4. /\ T1[p] \ D \in SUBSET Tokens /\ R \in SUBSET Tokens
        /\ R \cup {t} \in SUBSET Tokens
    BY <2>1, <2>3
  <2>5. /\ Cardinality(T1[p] \ D) \in Nat /\ Cardinality(R) \in Nat
        /\ Cardinality(R \cup {t}) \in Nat
        /\ Cardinality(R \cup {t}) <= Cardinality(R) + 1
    BY <2>4, TokensCount
  <2>6. CASE p = q
    <3>1. T1[p] \ D \subseteq R \cup {t}
      BY <2>3, <2>6
    <3>2. Cardinality(T1[p] \ D) <= Cardinality(R \cup {t})
      BY <2>4, <3>1, TokensCount
    <3> QED BY <2>1, <2>2, <2>3, <2>5, <2>6, <3>2
  <2>7. CASE p # q
    <3>1. T1[p] \ D \subseteq R /\ m[p] <= m1[p]
      BY <2>3, <2>7
    <3>2. Cardinality(T1[p] \ D) <= Cardinality(R)
      BY <2>4, <3>1, TokensCount
    <3> QED BY <2>1, <2>2, <2>3, <2>5, <3>1, <3>2
  <2> QED BY <2>6, <2>7
<1>4. n1 + Cardinality(D) <= k1
  BY <1>1, <1>2 DEF Settles, BalanceType
<1>5. Settles(D, P, B1, T1, m1, n1, k1)
  BY <1>1, <1>3, <1>4 DEF Settles
<1> QED BY <1>5 DEF Balance

(* A token hands its place over to another one: the worker that is gone to  *)
(* the claim it has left behind.                                            *)
LEMMA TakerReplaced ==
  ASSUME NEW P, NEW B, NEW T, NEW m, NEW n, NEW k, BalanceType(P, B, T, m, n, k),
         NEW B1, NEW T1, NEW m1, NEW n1, NEW k1, BalanceType(P, B1, T1, m1, n1, k1),
         Balance(P, B, T, m, n, k), NEW t \in Tokens, NEW u \in Tokens, t # u,
         B1 \subseteq B, t \notin B1, u \notin B1, n1 + k <= n + k1,
         \A p \in P : /\ T1[p] \subseteq T[p] \cup {u} /\ m[p] <= m1[p]
                      /\ t \notin T1[p]
                      /\ u \in T1[p] => t \in T[p] \/ t \in B
  PROVE  Balance(P, B1, T1, m1, n1, k1)
<1>1. PICK C : Settles(C, P, B, T, m, n, k)
  BY DEF Balance
<1>2. C \in SUBSET Tokens /\ Cardinality(C) \in Nat /\ B \subseteq C
  BY <1>1, TokensCount DEF Settles
<1>3. ASSUME NEW D \in SUBSET Tokens, B1 \subseteq D, Cardinality(D) <= Cardinality(C),
             \A p \in P : Cardinality(T1[p] \ D) <= Cardinality(T[p] \ C)
      PROVE  Balance(P, B1, T1, m1, n1, k1)
  <2>1. Cardinality(D) \in Nat
    BY TokensCount
  <2>2. ASSUME NEW p \in P PROVE Cardinality(T1[p] \ D) <= m1[p]
    <3>1. /\ T1[p] \ D \in SUBSET Tokens /\ T[p] \ C \in SUBSET Tokens
          /\ m[p] \in Nat /\ m1[p] \in Nat /\ m[p] <= m1[p]
      BY DEF BalanceType
    <3>2. Cardinality(T1[p] \ D) \in Nat /\ Cardinality(T[p] \ C) \in Nat
      BY <3>1, TokensCount
    <3>3. Cardinality(T[p] \ C) <= m[p] /\ Cardinality(T1[p] \ D) <= Cardinality(T[p] \ C)
      BY <1>1, <1>3 DEF Settles
    <3> QED BY <3>1, <3>2, <3>3
  <2>3. n1 + Cardinality(D) <= k1
    BY <1>1, <1>2, <1>3, <2>1 DEF Settles, BalanceType
  <2>4. Settles(D, P, B1, T1, m1, n1, k1)
    BY <1>3, <2>2, <2>3 DEF Settles
  <2> QED BY <2>4 DEF Balance
<1>4. CASE t \in C
  <2>1. PICK D : D = (C \ {t}) \cup {u}
    OBVIOUS
  <2>2. C \ {t} \in SUBSET Tokens /\ Cardinality(C \ {t}) = Cardinality(C) - 1
    BY <1>2, <1>4, TokensCount
  <2>3. D \in SUBSET Tokens /\ Cardinality(D) <= Cardinality(C \ {t}) + 1
    BY <2>1, <2>2, TokensCount
  <2>4. Cardinality(D) <= Cardinality(C)
    <3>1. Cardinality(D) \in Nat
      BY <2>3, TokensCount
    <3> QED BY <1>2, <2>2, <2>3, <3>1
  <2>5. ASSUME NEW p \in P PROVE Cardinality(T1[p] \ D) <= Cardinality(T[p] \ C)
    <3>1. T1[p] \ D \subseteq T[p] \ C
      BY <2>1
    <3>2. T1[p] \ D \in SUBSET Tokens /\ T[p] \ C \in SUBSET Tokens
      BY DEF BalanceType
    <3> QED BY <3>1, <3>2, TokensCount
  <2>6. B1 \subseteq D
    BY <1>2, <2>1
  <2> QED BY <1>3, <2>3, <2>4, <2>5, <2>6
<1>5. CASE t \notin C
  <2>1. PICK D : D = C \ {u}
    OBVIOUS
  <2>2. D \in SUBSET Tokens /\ Cardinality(D) <= Cardinality(C) /\ B1 \subseteq D
    BY <1>2, <2>1, TokensCount
  <2>3. ASSUME NEW p \in P PROVE Cardinality(T1[p] \ D) <= Cardinality(T[p] \ C)
    <3>1. /\ T1[p] \in SUBSET Tokens /\ T[p] \in SUBSET Tokens
          /\ T1[p] \subseteq T[p] \cup {u} /\ t \notin T1[p]
          /\ u \in T1[p] => t \in T[p]
      BY <1>2, <1>5 DEF BalanceType
    <3>2. CASE u \in T1[p]
      <4>1. PICK R : R = (T[p] \ C) \ {t}
        OBVIOUS
      <4>2. T1[p] \ D \subseteq R \cup {u} /\ R \cup {u} \in SUBSET Tokens
        BY <2>1, <3>1, <4>1
      <4>3. t \in T[p] \ C /\ T[p] \ C \in SUBSET Tokens
        BY <1>5, <3>1, <3>2
      <4>4. /\ Cardinality(R) = Cardinality(T[p] \ C) - 1
            /\ Cardinality(R \cup {u}) <= Cardinality(R) + 1
            /\ R \in SUBSET Tokens
        BY <4>1, <4>3, TokensCount
      <4>5. /\ Cardinality(R) \in Nat /\ Cardinality(R \cup {u}) \in Nat
            /\ Cardinality(T1[p] \ D) \in Nat /\ Cardinality(T[p] \ C) \in Nat
            /\ Cardinality(T1[p] \ D) <= Cardinality(R \cup {u})
        <5>1. T1[p] \ D \in SUBSET Tokens
          BY <3>1
        <5> QED BY <4>2, <4>3, <4>4, <5>1, TokensCount
      <4> QED BY <4>4, <4>5
    <3>3. CASE u \notin T1[p]
      <4>1. T1[p] \ D \subseteq T[p] \ C
        BY <2>1, <3>1, <3>3
      <4>2. T1[p] \ D \in SUBSET Tokens /\ T[p] \ C \in SUBSET Tokens
        BY <3>1
      <4> QED BY <4>1, <4>2, TokensCount
    <3> QED BY <3>2, <3>3
  <2> QED BY <1>3, <2>2, <2>3
<1> QED BY <1>4, <1>5

(* A token that leaves without taking a copy was in debt: that is one less. *)
LEMMA DebtPaid ==
  ASSUME NEW P, NEW B, NEW T, NEW m, NEW n, NEW k, BalanceType(P, B, T, m, n, k),
         NEW B1, NEW T1, NEW m1, NEW n1, NEW k1, BalanceType(P, B1, T1, m1, n1, k1),
         Balance(P, B, T, m, n, k), NEW t \in Tokens,
         t \in B \/ \E q \in P : t \in T[q] /\ m[q] = 0,
         B1 \subseteq B, t \notin B1, n1 + k <= n + k1 + 1,
         \A p \in P : T1[p] \subseteq T[p] /\ m[p] <= m1[p] /\ t \notin T1[p]
  PROVE  Balance(P, B1, T1, m1, n1, k1)
<1>1. PICK C : Settles(C, P, B, T, m, n, k)
  BY DEF Balance
<1>2. PICK D : D = C \ {t}
  OBVIOUS
<1>3. t \in C
  <2>1. ASSUME NEW q \in P, t \in T[q], m[q] = 0 PROVE t \in C
    <3>1. T[q] \ C \in SUBSET Tokens /\ Cardinality(T[q] \ C) <= 0
      BY <1>1, <2>1 DEF Settles, BalanceType
    <3>2. T[q] \ C = {}
      BY <3>1, TokensCount
    <3> QED BY <2>1, <3>2
  <2> QED BY <1>1, <2>1 DEF Settles
<1>4. /\ C \in SUBSET Tokens /\ D \in SUBSET Tokens
      /\ Cardinality(C) \in Nat /\ Cardinality(D) = Cardinality(C) - 1
  BY <1>1, <1>2, <1>3, TokensCount DEF Settles
<1>5. ASSUME NEW p \in P PROVE Cardinality(T1[p] \ D) <= m1[p]
  <2>1. /\ T1[p] \in SUBSET Tokens /\ T[p] \in SUBSET Tokens
        /\ m[p] \in Nat /\ m1[p] \in Nat
        /\ T1[p] \subseteq T[p] /\ m[p] <= m1[p] /\ t \notin T1[p]
    BY DEF BalanceType
  <2>2. Cardinality(T[p] \ C) <= m[p]
    BY <1>1 DEF Settles
  <2>3. /\ T1[p] \ D \in SUBSET Tokens /\ T[p] \ C \in SUBSET Tokens
        /\ T1[p] \ D \subseteq T[p] \ C
    BY <1>2, <2>1
  <2>4. /\ Cardinality(T1[p] \ D) <= Cardinality(T[p] \ C)
        /\ Cardinality(T1[p] \ D) \in Nat /\ Cardinality(T[p] \ C) \in Nat
    BY <2>3, TokensCount
  <2> QED BY <2>1, <2>2, <2>4
<1>6. n1 + Cardinality(D) <= k1
  BY <1>1, <1>4 DEF Settles, BalanceType
<1>7. B1 \subseteq D
  BY <1>1, <1>2 DEF Settles
<1>8. Settles(D, P, B1, T1, m1, n1, k1)
  BY <1>4, <1>5, <1>6, <1>7 DEF Settles
<1> QED BY <1>8 DEF Balance

(* One copy of the text q is gone: the debt grows by one of its takers, if  *)
(* that many are left.                                                      *)
LEMMA CopyGone ==
  ASSUME NEW X \in SUBSET Tokens, NEW a \in Nat, Cardinality(X) <= a + 1,
         NEW C \in SUBSET Tokens
  PROVE  \E D \in SUBSET Tokens :
           /\ C \subseteq D /\ Cardinality(D) <= Cardinality(C) + 1
           /\ Cardinality(X \ D) <= a
<1>1. CASE X = {}
  <2>1. /\ X \ C = {} /\ X \ C \in SUBSET Tokens
        /\ Cardinality(C) \in Nat
    BY <1>1, TokensCount
  <2>2. Cardinality(X \ C) = 0
    BY <2>1, FS_EmptySet
  <2>3. C \subseteq C /\ Cardinality(C) <= Cardinality(C) + 1 /\ Cardinality(X \ C) <= a
    BY <2>1, <2>2
  <2> QED BY <2>3
<1>2. CASE X # {}
  <2>1. PICK x \in X : TRUE
    BY <1>2
  <2>2. PICK D : D = C \cup {x}
    OBVIOUS
  <2>3. D \in SUBSET Tokens /\ Cardinality(D) <= Cardinality(C) + 1 /\ C \subseteq D
    BY <2>1, <2>2, TokensCount
  <2>4. /\ Cardinality(X \ {x}) = Cardinality(X) - 1
        /\ Cardinality(X) \in Nat
    BY <2>1, TokensCount
  <2>5. /\ Cardinality(X \ D) <= Cardinality(X \ {x})
        /\ Cardinality(X \ D) \in Nat
    <3>1. X \ D \subseteq X \ {x} /\ X \ D \in SUBSET Tokens /\ X \ {x} \in SUBSET Tokens
      BY <2>2
    <3> QED BY <3>1, TokensCount
  <2>6. Cardinality(X \ D) <= a
    BY <2>4, <2>5
  <2> QED BY <2>3, <2>6
<1> QED BY <1>1, <1>2

(* A taker, or a token in debt, that leaves and takes a copy away. *)
LEMMA TakerServed ==
  ASSUME NEW P, NEW B, NEW T, NEW m, NEW n, NEW k, BalanceType(P, B, T, m, n, k),
         NEW B1, NEW T1, NEW m1, NEW n1, NEW k1, BalanceType(P, B1, T1, m1, n1, k1),
         Balance(P, B, T, m, n, k), NEW t \in Tokens, NEW q \in P,
         t \in T[q] \/ t \in B, m[q] <= m1[q] + 1,
         B1 \subseteq B, t \notin B1, n1 + k <= n + k1,
         \A p \in P : T1[p] \subseteq T[p] /\ t \notin T1[p],
         \A p \in P \ {q} : m[p] <= m1[p]
  PROVE  Balance(P, B1, T1, m1, n1, k1)
<1>1. PICK C : Settles(C, P, B, T, m, n, k)
  BY DEF Balance
<1>2. C \in SUBSET Tokens /\ Cardinality(C) \in Nat /\ B \subseteq C
  BY <1>1, TokensCount DEF Settles
<1>3. ASSUME NEW D \in SUBSET Tokens, C \ {t} \subseteq D,
             Cardinality(D) <= Cardinality(C), Cardinality(T1[q] \ D) <= m1[q]
      PROVE  Balance(P, B1, T1, m1, n1, k1)
  <2>1. ASSUME NEW p \in P, p # q PROVE Cardinality(T1[p] \ D) <= m1[p]
    <3>1. /\ T1[p] \ D \in SUBSET Tokens /\ T[p] \ C \in SUBSET Tokens
          /\ m[p] \in Nat /\ m1[p] \in Nat /\ m[p] <= m1[p]
          /\ Cardinality(T[p] \ C) <= m[p]
      BY <1>1, <2>1 DEF BalanceType, Settles
    <3>2. T1[p] \ D \subseteq T[p] \ C
      BY <1>3
    <3>3. /\ Cardinality(T1[p] \ D) \in Nat /\ Cardinality(T[p] \ C) \in Nat
          /\ Cardinality(T1[p] \ D) <= Cardinality(T[p] \ C)
      BY <3>1, <3>2, TokensCount
    <3> QED BY <3>1, <3>3
  <2>2. n1 + Cardinality(D) <= k1
    <3>1. Cardinality(D) \in Nat
      BY TokensCount
    <3> QED BY <1>1, <1>2, <1>3, <3>1 DEF Settles, BalanceType
  <2>3. B1 \subseteq D
    BY <1>2, <1>3
  <2>4. Settles(D, P, B1, T1, m1, n1, k1)
    BY <1>3, <2>1, <2>2, <2>3 DEF Settles
  <2> QED BY <2>4 DEF Balance
<1>4. /\ T1[q] \in SUBSET Tokens /\ T[q] \in SUBSET Tokens
      /\ m[q] \in Nat /\ m1[q] \in Nat
      /\ T[q] \ C \in SUBSET Tokens
      /\ T1[q] \subseteq T[q] /\ t \notin T1[q]
      /\ Cardinality(T[q] \ C) <= m[q] /\ Cardinality(T[q] \ C) \in Nat
  <2>1. T[q] \in SUBSET Tokens
    BY DEF BalanceType
  <2>2. T[q] \ C \in SUBSET Tokens
    BY <2>1
  <2>3. Cardinality(T[q] \ C) \in Nat
    BY <2>2, TokensCount
  <2> QED BY <1>1, <2>1, <2>2, <2>3 DEF BalanceType, Settles
<1>5. CASE t \in C
  <2>1. PICK E : E = C \ {t}
    OBVIOUS
  <2>2. E \in SUBSET Tokens /\ Cardinality(E) = Cardinality(C) - 1
    BY <1>2, <1>5, <2>1, TokensCount
  <2>3. PICK X : X = T1[q] \ E
    OBVIOUS
  <2>4. X \in SUBSET Tokens /\ X \subseteq T[q] \ C
    BY <1>4, <2>1, <2>3
  <2>5. Cardinality(X) <= m1[q] + 1
    <3>1. Cardinality(X) <= Cardinality(T[q] \ C) /\ Cardinality(X) \in Nat
      BY <1>4, <2>4, TokensCount
    <3> QED BY <1>4, <3>1
  <2>6. PICK D \in SUBSET Tokens :
          /\ E \subseteq D /\ Cardinality(D) <= Cardinality(E) + 1
          /\ Cardinality(X \ D) <= m1[q]
    BY <1>4, <2>2, <2>4, <2>5, CopyGone
  <2>7. Cardinality(D) <= Cardinality(C)
    <3>1. Cardinality(D) \in Nat
      BY TokensCount
    <3> QED BY <1>2, <2>2, <2>6, <3>1
  <2>8. T1[q] \ D = X \ D
    BY <2>3, <2>6
  <2> QED BY <1>3, <2>1, <2>6, <2>7, <2>8
<1>6. CASE t \notin C
  <2>1. t \in T[q] \ C
    BY <1>2, <1>6
  <2>2. PICK R : R = (T[q] \ C) \ {t}
    OBVIOUS
  <2>3. R \in SUBSET Tokens /\ Cardinality(R) = Cardinality(T[q] \ C) - 1
    BY <1>4, <2>1, <2>2, TokensCount
  <2>4. T1[q] \ C \subseteq R /\ T1[q] \ C \in SUBSET Tokens
    BY <1>4, <2>2
  <2>5. Cardinality(T1[q] \ C) <= Cardinality(R) /\ Cardinality(T1[q] \ C) \in Nat
    BY <2>3, <2>4, TokensCount
  <2>6. Cardinality(T1[q] \ C) <= m1[q]
    BY <1>4, <2>3, <2>5
  <2> QED BY <1>2, <1>3, <2>6
<1> QED BY <1>5, <1>6

(* A copy that goes without a taker of it leaves one more of them in debt.  *)
LEMMA CopyLost ==
  ASSUME NEW P, NEW B, NEW T, NEW m, NEW n, NEW k, BalanceType(P, B, T, m, n, k),
         NEW B1, NEW T1, NEW m1, NEW n1, NEW k1, BalanceType(P, B1, T1, m1, n1, k1),
         Balance(P, B, T, m, n, k), NEW q \in P, m[q] <= m1[q] + 1,
         B1 \subseteq B, n1 + k + 1 <= n + k1,
         \A p \in P : T1[p] \subseteq T[p],
         \A p \in P \ {q} : m[p] <= m1[p]
  PROVE  Balance(P, B1, T1, m1, n1, k1)
<1>1. PICK C : Settles(C, P, B, T, m, n, k)
  BY DEF Balance
<1>2. C \in SUBSET Tokens /\ Cardinality(C) \in Nat /\ B \subseteq C
  BY <1>1, TokensCount DEF Settles
<1>3. PICK X : X = T1[q] \ C
  OBVIOUS
<1>4. X \in SUBSET Tokens /\ Cardinality(X) <= m1[q] + 1 /\ m1[q] \in Nat
  <2>1. /\ X \in SUBSET Tokens /\ T[q] \ C \in SUBSET Tokens /\ X \subseteq T[q] \ C
        /\ m[q] \in Nat /\ m1[q] \in Nat
        /\ Cardinality(T[q] \ C) <= m[q]
    BY <1>1, <1>3 DEF BalanceType, Settles
  <2>2. /\ Cardinality(X) <= Cardinality(T[q] \ C)
        /\ Cardinality(X) \in Nat /\ Cardinality(T[q] \ C) \in Nat
    BY <2>1, TokensCount
  <2> QED BY <2>1, <2>2
<1>5. PICK D \in SUBSET Tokens :
        /\ C \subseteq D /\ Cardinality(D) <= Cardinality(C) + 1
        /\ Cardinality(X \ D) <= m1[q]
  BY <1>2, <1>4, CopyGone
<1>6. ASSUME NEW p \in P PROVE Cardinality(T1[p] \ D) <= m1[p]
  <2>1. CASE p = q
    <3>1. T1[q] \ D = X \ D
      BY <1>3, <1>5
    <3> QED BY <1>5, <2>1, <3>1
  <2>2. CASE p # q
    <3>1. /\ T1[p] \ D \in SUBSET Tokens /\ T[p] \ C \in SUBSET Tokens
          /\ m[p] \in Nat /\ m1[p] \in Nat /\ m[p] <= m1[p]
          /\ Cardinality(T[p] \ C) <= m[p]
      BY <1>1, <2>2 DEF BalanceType, Settles
    <3>2. T1[p] \ D \subseteq T[p] \ C
      BY <1>5
    <3>3. /\ Cardinality(T1[p] \ D) \in Nat /\ Cardinality(T[p] \ C) \in Nat
          /\ Cardinality(T1[p] \ D) <= Cardinality(T[p] \ C)
      BY <3>1, <3>2, TokensCount
    <3> QED BY <3>1, <3>3
  <2> QED BY <2>1, <2>2
<1>7. n1 + Cardinality(D) <= k1
  <2>1. Cardinality(D) \in Nat
    BY TokensCount
  <2> QED BY <1>1, <1>2, <1>5, <2>1 DEF Settles, BalanceType
<1>8. B1 \subseteq D
  BY <1>2, <1>5
<1>9. Settles(D, P, B1, T1, m1, n1, k1)
  BY <1>6, <1>7, <1>8 DEF Settles
<1> QED BY <1>9 DEF Balance

(* Who will take a copy of a job away. A worker may acknowledge the copy    *)
(* that it remembers, or has nothing to acknowledge (Blank) but may still   *)
(* push the job again.                                                      *)
Responsible(w) == Executing(w) \/ pc[w] = "count_completed"
TakesCopy(w, p) == Executing(w) /\ remembered[w] /\ task[w] = p
Blank(w) == Responsible(w) /\ ~(Executing(w) /\ remembered[w])

(* A claim is covered while the worker that wrote it works on its payload:  *)
(* the reaper then leaves it alone.                                         *)
Covering(w) == Executing(w) /\ pc[w] # "record_claim"
CoveredClaim(c) == Covering(c.worker) /\ task[c.worker] = c.payload
ClaimTakes(p) ==
  claims[p.job] # NoClaim /\ claims[p.job].payload = p /\ ~CoveredClaim(claims[p.job])

TextsOf(j) == {p \in Payload : p.job = j}

Blanks(j) ==
  {t \in Tokens : \E w \in Workers : t = {w} /\ Blank(w) /\ task[w].job = j}

Takers(j) ==
  [p \in TextsOf(j) |->
     {t \in Tokens : \/ \E w \in Workers : t = {w} /\ TakesCopy(w, p)
                     \/ t = {} /\ ClaimTakes(p)}]

CopiesOf(j) == [p \in TextsOf(j) |-> Occurrences(processing, {p})]

CopyCount(j) ==
  Occurrences(tasks, TextsOf(j)) + Occurrences(processing, TextsOf(j))

(* One copy of a submitted job, and one for each command executed again *)
Allowed(j) == IF Submitted(j) THEN resends + 1 ELSE resends

Balanced(j) ==
  Balance(TextsOf(j), Blanks(j), Takers(j), CopiesOf(j), CopyCount(j), Allowed(j))

BalancedType(j) ==
  BalanceType(TextsOf(j), Blanks(j), Takers(j), CopiesOf(j), CopyCount(j), Allowed(j))

(* The counts of a job are natural numbers, before and after a step. *)
LEMMA BalancedTypes ==
  ASSUME TypeOK, TypeOK', resends \in Nat, resends' \in Nat, NEW j \in Jobs
  PROVE  BalancedType(j) /\ BalancedType(j)'
<1>1. /\ tasks \in Seq(Payload) /\ processing \in Seq(Payload)
      /\ tasks' \in Seq(Payload) /\ processing' \in Seq(Payload)
  BY DEF TypeOK, StoreTypeOK
<1>2. \A S : /\ Occurrences(tasks, S) \in Nat /\ Occurrences(processing, S) \in Nat
             /\ Occurrences(tasks', S) \in Nat /\ Occurrences(processing', S) \in Nat
  BY <1>1, OccurrencesType
<1>3. Allowed(j) \in Nat /\ Allowed(j)' \in Nat
  <2> HIDE DEF Submitted
  <2>1. \A n \in Nat : n + 1 \in Nat
    OBVIOUS
  <2> QED BY <2>1, Zenon DEF Allowed
<1>4. CopyCount(j) \in Nat /\ CopyCount(j)' \in Nat
  BY <1>2 DEF CopyCount
<1>5. \A p \in TextsOf(j) :
        /\ CopiesOf(j)[p] \in Nat /\ CopiesOf(j)'[p] \in Nat
        /\ Takers(j)[p] \in SUBSET Tokens /\ Takers(j)'[p] \in SUBSET Tokens
  BY <1>2 DEF CopiesOf, Takers
<1>6. Blanks(j) \in SUBSET Tokens /\ Blanks(j)' \in SUBSET Tokens
  BY DEF Blanks
<1> QED BY <1>3, <1>4, <1>5, <1>6 DEF BalancedType, BalanceType

(* No worker and no claim becomes a taker of job j, unless it was blank. *)
RolesKept(j) ==
  /\ \A w \in Workers : \A p \in TextsOf(j) :
       TakesCopy(w, p)' => TakesCopy(w, p) \/ (Blank(w) /\ task[w] = p)
  /\ \A w \in Workers :
       Blank(w)' /\ task'[w].job = j => Blank(w) /\ task[w].job = j
  /\ \A p \in TextsOf(j) : ClaimTakes(p)' => ClaimTakes(p)

(* The lists hold as many copies of each text to take away as they did. *)
CopiesKept(j) ==
  \A p \in TextsOf(j) : Occurrences(processing, {p}) <= Occurrences(processing', {p})

(* What is a token of a worker or of a claim *)
LEMMA TokensAre ==
  ASSUME NEW j, NEW p \in TextsOf(j)
  PROVE  /\ \A t \in Takers(j)[p] :
              (\E w \in Workers : t = {w} /\ TakesCopy(w, p)) \/ (t = {} /\ ClaimTakes(p))
         /\ \A t \in Takers(j)'[p] :
              \/ \E w \in Workers : t = {w} /\ TakesCopy(w, p)'
              \/ t = {} /\ ClaimTakes(p)'
         /\ \A w \in Workers :
              /\ {w} \in Tokens /\ {w} # {} /\ {} \in Tokens
              /\ TakesCopy(w, p) => {w} \in Takers(j)[p]
              /\ {w} \in Takers(j)'[p] => TakesCopy(w, p)'
         /\ ClaimTakes(p) => {} \in Takers(j)[p]
         /\ {} \in Takers(j)'[p] => ClaimTakes(p)'
  <1> HIDE DEF TakesCopy, ClaimTakes
  <1>1. /\ Takers(j)[p] = {t \in Tokens : \/ \E w \in Workers : t = {w} /\ TakesCopy(w, p)
                                          \/ t = {} /\ ClaimTakes(p)}
        /\ Takers(j)'[p] = {t \in Tokens : \/ \E w \in Workers : t = {w} /\ TakesCopy(w, p)'
                                           \/ t = {} /\ ClaimTakes(p)'}
    BY DEF Takers
  <1>2. \A w \in Workers : {w} \in Tokens /\ {w} # {} /\ {} \in Tokens
    BY DEF Tokens
  <1>3. {} \in Tokens
    BY DEF Tokens
  <1>4. \A v, w \in Workers : {v} = {w} => v = w
    OBVIOUS
  <1> QED BY <1>1, <1>2, <1>3, <1>4

(* Of a worker without a copy *)
LEMMA BlanksAre ==
  ASSUME NEW j
  PROVE  /\ \A t \in Blanks(j)' :
              \E w \in Workers : t = {w} /\ Blank(w)' /\ task'[w].job = j
         /\ \A w \in Workers :
              /\ Blank(w) /\ task[w].job = j => {w} \in Blanks(j)
              /\ {w} \in Blanks(j)' => Blank(w)' /\ task'[w].job = j
         /\ {} \notin Blanks(j)'
  <1> HIDE DEF Blank
  <1>1. /\ Blanks(j)' = {t \in Tokens : \E w \in Workers :
                           t = {w} /\ Blank(w)' /\ task'[w].job = j}
        /\ Blanks(j) = {t \in Tokens : \E w \in Workers :
                           t = {w} /\ Blank(w) /\ task[w].job = j}
    BY DEF Blanks
  <1>2. \A w \in Workers : {w} \in Tokens /\ {w} # {}
    BY DEF Tokens
  <1>3. \A v, w \in Workers : {v} = {w} => v = w
    OBVIOUS
  <1> QED BY <1>1, <1>2, <1>3

(* A step after which a job has no more roles, no fewer copies to take and  *)
(* no more copies in all than is allowed for keeps it balanced.             *)
LEMMA RolesKeptBalance ==
  ASSUME TypeOK, TypeOK', resends \in Nat, resends' \in Nat, NEW j \in Jobs,
         Balanced(j), RolesKept(j), CopiesKept(j),
         CopyCount(j)' + Allowed(j) <= CopyCount(j) + Allowed(j)'
  PROVE  Balanced(j)'
<1> HIDE DEF TakesCopy, ClaimTakes, Blank, Takers, Blanks
<1>1. Blanks(j)' \subseteq Blanks(j)
  BY BlanksAre DEF RolesKept
<1>2. ASSUME NEW p \in TextsOf(j)
      PROVE  /\ Takers(j)'[p] \subseteq Takers(j)[p] \cup Blanks(j)
             /\ CopiesOf(j)[p] <= CopiesOf(j)'[p]
  <2>1. ASSUME NEW t \in Takers(j)'[p] PROVE t \in Takers(j)[p] \cup Blanks(j)
    <3>1. CASE \E w \in Workers : t = {w} /\ TakesCopy(w, p)'
      <4>1. PICK w \in Workers : t = {w} /\ TakesCopy(w, p)'
        BY <3>1
      <4>2. TakesCopy(w, p) \/ (Blank(w) /\ task[w] = p)
        BY <4>1 DEF RolesKept
      <4>3. p.job = j
        BY DEF TextsOf
      <4>4. CASE TakesCopy(w, p)
        BY <4>1, <4>4, TokensAre
      <4>5. CASE Blank(w) /\ task[w] = p
        BY <4>1, <4>3, <4>5, BlanksAre
      <4> QED BY <4>2, <4>4, <4>5
    <3>2. CASE t = {} /\ ClaimTakes(p)'
      <4>1. ClaimTakes(p)
        BY <3>2 DEF RolesKept
      <4> QED BY <3>2, <4>1, TokensAre
    <3> QED BY <2>1, <3>1, <3>2, TokensAre
  <2>2. CopiesOf(j)[p] <= CopiesOf(j)'[p]
    BY DEF CopiesOf, CopiesKept
  <2> QED BY <2>1, <2>2
<1>3. BalancedType(j) /\ BalancedType(j)'
  BY BalancedTypes
<1> HIDE DEF CopiesOf, CopyCount, Allowed, TextsOf
<1>4. TextsOf(j)' = TextsOf(j)
  BY DEF TextsOf
<1> QED BY <1>1, <1>2, <1>3, <1>4, FewerTakers DEF Balanced, BalancedType

(* RPUSH adds a copy of the job and of the text that it pushes.             *)
LEMMA PushedCopies ==
  ASSUME NEW s \in Seq(Payload), NEW p \in Payload, NEW j
  PROVE  /\ p.job = j =>
              Occurrences(Append(s, p), TextsOf(j)) = Occurrences(s, TextsOf(j)) + 1
         /\ p.job # j =>
              Occurrences(Append(s, p), TextsOf(j)) = Occurrences(s, TextsOf(j))
         /\ Occurrences(Append(s, p), {p}) = Occurrences(s, {p}) + 1
         /\ \A q : q # p => Occurrences(Append(s, p), {q}) = Occurrences(s, {q})
<1>1. p \in TextsOf(j) <=> p.job = j
  BY DEF TextsOf
<1>2. \A S : /\ p \in S => Occurrences(Append(s, p), S) = Occurrences(s, S) + 1
             /\ p \notin S => Occurrences(Append(s, p), S) = Occurrences(s, S)
  BY AppendOccurs
<1> QED BY <1>1, <1>2

(* BLMOVE takes one of the job at the head of the pending list. *)
LEMMA PoppedCopies ==
  ASSUME NEW s \in Seq(Payload), s # <<>>, NEW j
  PROVE  /\ Head(s).job = j =>
              Occurrences(Tail(s), TextsOf(j)) = Occurrences(s, TextsOf(j)) - 1
         /\ Head(s).job # j =>
              Occurrences(Tail(s), TextsOf(j)) = Occurrences(s, TextsOf(j))
<1>1. PICK h \in Payload : h = Head(s)
  BY TailRange
<1>2. h \in TextsOf(j) <=> h.job = j
  BY DEF TextsOf
<1>3. \A S : /\ h \in S => Occurrences(Tail(s), S) = Occurrences(s, S) - 1
             /\ h \notin S => Occurrences(Tail(s), S) = Occurrences(s, S)
  BY <1>1, TailOccurs
<1> QED BY <1>1, <1>2, <1>3

(* LREM takes a copy of its text, if there is one. *)
LEMMA RemovedCopies ==
  ASSUME NEW s \in Seq(Payload), NEW p \in Payload, NEW j
  PROVE  /\ p.job # j =>
              Occurrences(RemoveFirst(s, p), TextsOf(j)) = Occurrences(s, TextsOf(j))
         /\ \A q : q # p =>
              Occurrences(RemoveFirst(s, p), {q}) = Occurrences(s, {q})
         /\ p \notin Range(s) =>
              /\ \A S : Occurrences(RemoveFirst(s, p), S) = Occurrences(s, S)
              /\ Occurrences(s, {p}) = 0
         /\ p \in Range(s) =>
              /\ Occurrences(RemoveFirst(s, p), {p}) = Occurrences(s, {p}) - 1
              /\ p.job = j =>
                   Occurrences(RemoveFirst(s, p), TextsOf(j)) = Occurrences(s, TextsOf(j)) - 1
<1>1. p \in TextsOf(j) <=> p.job = j
  BY DEF TextsOf
<1>2. \A S : /\ p \in Range(s) /\ p \in S =>
                 Occurrences(RemoveFirst(s, p), S) = Occurrences(s, S) - 1
             /\ ~(p \in Range(s) /\ p \in S) =>
                 Occurrences(RemoveFirst(s, p), S) = Occurrences(s, S)
  BY RemoveFirstOccurs
<1>3. p \notin Range(s) => Occurrences(s, {p}) = 0
  BY OccursInRange
<1> QED BY <1>1, <1>2, <1>3

(* A command executed again leaves room for a copy of each job. *)
LEMMA AllowedGrows ==
  ASSUME resends \in Nat, resends' \in Nat, resends <= resends', UNCHANGED stage, NEW j \in Jobs
  PROVE  Allowed(j) <= Allowed(j)'
<1>1. PICK k, l \in Nat : k = resends /\ l = resends'
  OBVIOUS
<1>2. PICK a, b : a = Allowed(j) /\ b = Allowed(j)'
  OBVIOUS
<1>3. Submitted(j)' <=> Submitted(j)
  BY DEF Submitted
<1>4. (a = k + 1 /\ b = l + 1) \/ (a = k /\ b = l)
  <2> HIDE DEF Submitted
  <2> QED BY <1>1, <1>2, <1>3 DEF Allowed
<1>5. a <= b
  BY <1>1, <1>4
<1> QED BY <1>2, <1>5

(* A step that leaves the lists alone and no more roles than before *)
LEMMA SameListsBalance ==
  ASSUME TypeOK, TypeOK', resends \in Nat, resends' \in Nat, resends <= resends',
         UNCHANGED <<tasks, processing, stage>>, NEW j \in Jobs,
         Balanced(j), RolesKept(j)
  PROVE  Balanced(j)'
<1>1. CopyCount(j)' = CopyCount(j) /\ CopyCount(j) \in Nat
  <2>1. tasks \in Seq(Payload) /\ processing \in Seq(Payload)
    BY DEF TypeOK, StoreTypeOK
  <2>2. \A S : Occurrences(tasks, S) \in Nat /\ Occurrences(processing, S) \in Nat
    BY <2>1, OccurrencesType
  <2> QED BY <2>2 DEF CopyCount
<1>2. PICK a, b : a = Allowed(j) /\ b = Allowed(j)' /\ a \in Int /\ b \in Int
  BY BalancedTypes DEF BalancedType, BalanceType
<1>3. a <= b
  BY <1>2, AllowedGrows
<1>4. CopyCount(j)' + Allowed(j) <= CopyCount(j) + Allowed(j)'
  BY <1>1, <1>2, <1>3
<1>5. CopiesKept(j)
  <2>1. processing \in Seq(Payload)
    BY DEF TypeOK, StoreTypeOK
  <2>2. \A S : Occurrences(processing, S) \in Nat
    BY <2>1, OccurrencesType
  <2> QED BY <2>2 DEF CopiesKept
<1> QED BY <1>4, <1>5, RolesKeptBalance

(* Only worker w moves. *)
OnlyMoves(w) ==
  \A v \in Workers \ {w} :
    pc'[v] = pc[v] /\ task'[v] = task[v] /\ remembered'[v] = remembered[v]

(* Claims are left alone or dropped. *)
ClaimsDropped == \A j \in Jobs : claims'[j] = claims[j] \/ claims'[j] = NoClaim

(* Worker w goes on with what it does: it is responsible for nothing new,   *)
(* and still covers what it covered.                                        *)
GoesOn(w) ==
  /\ Responsible(w)' =>
       /\ Responsible(w) /\ task'[w] = task[w]
       /\ Executing(w) => Executing(w)' /\ remembered'[w] = remembered[w]
  /\ Covering(w) => Covering(w)' /\ task'[w] = task[w]

(* A claim that nobody drops and nobody uncovers is no new taker. *)
LEMMA CoveredStays ==
  ASSUME TypeOK, ClaimsDropped, NEW j \in Jobs, NEW p \in TextsOf(j), ClaimTakes(p)',
         \A w \in Workers : Covering(w) => Covering(w)' /\ task'[w] = task[w]
  PROVE  ClaimTakes(p)
<1>1. \A i \in Jobs : claims[i] # NoClaim => claims[i].worker \in Workers
  BY DEF TypeOK, StoreTypeOK, Claim
<1>2. PICK c : c = claims[j]
  OBVIOUS
<1>3. p.job = j /\ claims'[j] = c /\ c # NoClaim /\ c.payload = p /\ ~CoveredClaim(c)'
  <2>1. p.job = j
    BY DEF TextsOf
  <2>2. claims'[j] # NoClaim /\ claims'[j] = c
    <3>1. claims'[j] # NoClaim
      BY <2>1 DEF ClaimTakes
    <3> QED BY <1>2, <3>1 DEF ClaimsDropped
  <2>3. c.payload = p /\ ~(Covering(c.worker)' /\ task'[c.worker] = c.payload)
    BY <2>1, <2>2 DEF ClaimTakes, CoveredClaim, Covering, Executing
  <2> QED BY <2>1, <2>2, <2>3 DEF CoveredClaim
<1>4. c.worker \in Workers
  BY <1>1, <1>2, <1>3
<1>5. ~CoveredClaim(c)
  <2> HIDE DEF Covering
  <2> QED BY <1>3, <1>4 DEF CoveredClaim
<1> HIDE DEF CoveredClaim
<1> QED BY <1>2, <1>3, <1>5 DEF ClaimTakes

(* The roles of the workers that do not move *)
LEMMA OthersStay ==
  ASSUME NEW w \in Workers, OnlyMoves(w)
  PROVE  \A v \in Workers \ {w} : /\ \A p : TakesCopy(v, p)' <=> TakesCopy(v, p)
                                  /\ Blank(v)' <=> Blank(v)
                                  /\ task'[v] = task[v]
                                  /\ Covering(v)' <=> Covering(v)
  BY DEF OnlyMoves, TakesCopy, Blank, Responsible, Executing, Covering

(* Claims that are dropped, and workers that stay or go on, leave the roles *)
(* as they are.                                                             *)
LEMMA DroppedClaimsKeepRoles ==
  ASSUME TypeOK, ClaimsDropped, NEW j \in Jobs,
         \A w \in Workers :
           \/ pc'[w] = pc[w] /\ task'[w] = task[w] /\ remembered'[w] = remembered[w]
           \/ GoesOn(w)
  PROVE  RolesKept(j)
<1>1. ASSUME NEW w \in Workers
      PROVE  /\ \A p : TakesCopy(w, p)' => TakesCopy(w, p) \/ (Blank(w) /\ task[w] = p)
             /\ Blank(w)' => Blank(w) /\ task'[w] = task[w]
             /\ Covering(w) => Covering(w)' /\ task'[w] = task[w]
  <2>1. CASE pc'[w] = pc[w] /\ task'[w] = task[w] /\ remembered'[w] = remembered[w]
    BY <2>1 DEF TakesCopy, Blank, Responsible, Executing, Covering
  <2>2. CASE GoesOn(w)
    <3>1. Executing(w)' => Responsible(w)'
      BY DEF Responsible
    <3>2. \A p : TakesCopy(w, p)' <=> (Executing(w)' /\ remembered'[w] /\ task'[w] = p)
      BY DEF TakesCopy
    <3>3. Blank(w)' <=> (Responsible(w)' /\ ~(Executing(w)' /\ remembered'[w]))
      BY DEF Blank
    <3> HIDE DEF Responsible, Executing, Covering
    <3> QED BY <2>2, <3>1, <3>2, <3>3 DEF GoesOn, TakesCopy, Blank
  <2> QED BY <2>1, <2>2
<1>2. ASSUME NEW p \in TextsOf(j), ClaimTakes(p)' PROVE ClaimTakes(p)
  BY <1>1, <1>2, CoveredStays
<1>3. \A p \in TextsOf(j) : ClaimTakes(p)' => ClaimTakes(p)
  BY <1>2
<1>4. \A w \in Workers : \A p \in TextsOf(j) :
        TakesCopy(w, p)' => TakesCopy(w, p) \/ (Blank(w) /\ task[w] = p)
  BY <1>1
<1>5. \A w \in Workers :
        Blank(w)' /\ task'[w].job = j => Blank(w) /\ task[w].job = j
  <2> HIDE DEF Blank
  <2> QED BY <1>1
<1> HIDE DEF TakesCopy, Blank, ClaimTakes
<1> QED BY <1>3, <1>4, <1>5 DEF RolesKept

(* A worker that writes a claim on its payload covers it from then on.      *)
LEMMA WrittenClaimKeepsRoles ==
  ASSUME TypeOK, NEW w \in Workers, OnlyMoves(w), NEW c \in Claim,
         c.worker = w, c.payload = task[w], task'[w] = task[w],
         remembered'[w] = remembered[w], Executing(w), Covering(w)',
         claims' = [claims EXCEPT ![c.payload.job] = c], NEW j \in Jobs
  PROVE  RolesKept(j)
<1>1. /\ claims \in [Jobs -> Claim \cup {NoClaim}] /\ c.payload.job \in Jobs
      /\ \A i \in Jobs : claims[i] # NoClaim => claims[i].worker \in Workers
  BY DEF TypeOK, StoreTypeOK, Claim, Payload
<1>2. Executing(w)'
  BY DEF Covering
<1>3. ASSUME NEW v \in Workers
      PROVE  /\ \A p : TakesCopy(v, p)' => TakesCopy(v, p)
             /\ Blank(v)' => Blank(v) /\ task'[v] = task[v]
             /\ task'[v] = task[v]
             /\ v # w => (Covering(v) <=> Covering(v)')
  <2>1. CASE v = w
    BY <1>2, <2>1 DEF TakesCopy, Blank, Responsible
  <2>2. CASE v # w
    BY <2>2 DEF OnlyMoves, TakesCopy, Blank, Responsible, Executing, Covering
  <2> QED BY <2>1, <2>2
<1>4. ASSUME NEW p \in TextsOf(j), ClaimTakes(p)' PROVE ClaimTakes(p)
  <2>1. PICK d : d = claims'[j]
    OBVIOUS
  <2>2. p.job = j /\ d # NoClaim /\ d.payload = p /\ ~CoveredClaim(d)'
    <3>1. p.job = j
      BY DEF TextsOf
    <3>2. d # NoClaim /\ d.payload = p /\ ~(Covering(d.worker)' /\ task'[d.worker] = d.payload)
      BY <1>4, <2>1, <3>1 DEF ClaimTakes, CoveredClaim, Covering, Executing
    <3> QED BY <3>1, <3>2 DEF CoveredClaim
  <2>3. d # c
    <3> HIDE DEF Covering
    <3> QED BY <2>2 DEF CoveredClaim
  <2>4. j # c.payload.job /\ d = claims[j]
    BY <1>1, <2>1, <2>3
  <2>5. d.worker \in Workers /\ task[w] # p
    BY <1>1, <2>2, <2>4
  <2>6. ~CoveredClaim(d)
    <3> HIDE DEF Covering
    <3> QED BY <1>3, <2>2, <2>5 DEF CoveredClaim
  <2> HIDE DEF CoveredClaim
  <2> QED BY <2>2, <2>4, <2>6 DEF ClaimTakes
<1>5. \A v \in Workers : \A p \in TextsOf(j) : TakesCopy(v, p)' => TakesCopy(v, p)
  BY <1>3
<1>6. \A v \in Workers :
        Blank(v)' /\ task'[v].job = j => Blank(v) /\ task[v].job = j
  <2> HIDE DEF Blank
  <2> QED BY <1>3
<1>7. \A p \in TextsOf(j) : ClaimTakes(p)' => ClaimTakes(p)
  BY <1>4
<1> HIDE DEF TakesCopy, Blank, ClaimTakes
<1> QED BY <1>5, <1>6, <1>7 DEF RolesKept

(* A worker that dies or gives up leaves its part to its claim, if it had   *)
(* covered one.                                                             *)
LEMMA LeavingBalance ==
  ASSUME TypeOK, TypeOK', resends \in Nat, UNCHANGED <<tasks, processing, claims, stage, resends>>,
         NEW w \in Workers, OnlyMoves(w), ~Responsible(w)', NEW j \in Jobs, Balanced(j)
  PROVE  Balanced(j)'
<1>1. ~Executing(w)' /\ ~Blank(w)'
  BY DEF Responsible, Blank
<1>2. \A v \in Workers \ {w} : /\ \A p : TakesCopy(v, p)' <=> TakesCopy(v, p)
                               /\ Blank(v)' <=> Blank(v)
                               /\ task'[v] = task[v]
                               /\ Covering(v)' <=> Covering(v)
  BY OthersStay
<1>3. /\ \A v \in Workers : \A p : TakesCopy(v, p)' => v # w /\ TakesCopy(v, p)
      /\ \A v \in Workers : Blank(v)' => v # w /\ Blank(v) /\ task'[v] = task[v]
  <2>1. \A p : ~TakesCopy(w, p)'
    BY <1>1 DEF TakesCopy
  <2> HIDE DEF TakesCopy, Blank
  <2> QED BY <1>1, <1>2, <2>1
<1>4. CASE RolesKept(j)
  <2>1. resends \in Nat /\ resends' \in Nat /\ resends' = resends
    OBVIOUS
  <2>2. resends <= resends'
    BY <2>1
  <2> QED BY <1>4, <2>1, <2>2, SameListsBalance
<1>5. CASE ~RolesKept(j)
  <2>1. PICK q \in TextsOf(j) : ClaimTakes(q)' /\ ~ClaimTakes(q)
    <3> HIDE DEF TakesCopy, Blank, ClaimTakes
    <3> QED BY <1>3, <1>5 DEF RolesKept
  <2>2. PICK c : c = claims[j]
    OBVIOUS
  <2>3. q \in Payload /\ q.job = j
    BY DEF TextsOf
  <2>4. c # NoClaim /\ c.payload = q /\ CoveredClaim(c) /\ ~CoveredClaim(c)'
    <3>1. claims' = claims
      OBVIOUS
    <3>2. c # NoClaim /\ c.payload = q /\ ~CoveredClaim(c)'
      BY <2>1, <2>2, <2>3, <3>1 DEF ClaimTakes, CoveredClaim, Covering, Executing
    <3>3. CoveredClaim(c)
      <4> HIDE DEF CoveredClaim
      <4> QED BY <2>1, <2>2, <2>3, <3>2 DEF ClaimTakes
    <3> QED BY <3>2, <3>3
  <2>5. c.worker = w /\ Executing(w) /\ task[w] = q
    <3>1. c.worker \in Workers
      BY <2>2, <2>4 DEF TypeOK, StoreTypeOK, Claim
    <3>2. Covering(c.worker) /\ task[c.worker] = q
      BY <2>4 DEF CoveredClaim
    <3>3. c.worker = w
      <4>1. c.worker # w => CoveredClaim(c)'
        <5> HIDE DEF Covering
        <5> QED BY <1>2, <2>4, <3>1 DEF CoveredClaim
      <4> HIDE DEF CoveredClaim
      <4> QED BY <2>4, <4>1
    <3> QED BY <3>2, <3>3 DEF Covering
  <2>6. TakesCopy(w, q) \/ (Blank(w) /\ task[w].job = j)
    BY <2>3, <2>5 DEF TakesCopy, Blank, Responsible
  <2> HIDE DEF TakesCopy, Blank, ClaimTakes, Takers, Blanks
  <2>7. {w} \in Tokens /\ {} \in Tokens /\ {w} # {}
    BY DEF Tokens
  <2>8. /\ Blanks(j)' \subseteq Blanks(j) /\ {w} \notin Blanks(j)' /\ {} \notin Blanks(j)'
    BY <1>3, BlanksAre
  <2>9. ASSUME NEW p \in TextsOf(j)
        PROVE  /\ Takers(j)'[p] \subseteq Takers(j)[p] \cup {{}}
               /\ {w} \notin Takers(j)'[p]
               /\ {} \in Takers(j)'[p] => {w} \in Takers(j)[p] \/ {w} \in Blanks(j)
    <3>1. ASSUME NEW t \in Takers(j)'[p], t # {} PROVE t \in Takers(j)[p]
      <4>1. PICK v \in Workers : t = {v} /\ TakesCopy(v, p)'
        BY <3>1, TokensAre
      <4>2. TakesCopy(v, p)
        BY <4>1, <1>3
      <4> QED BY <4>1, <4>2, TokensAre
    <3>2. ASSUME {w} \in Takers(j)'[p] PROVE FALSE
      <4>1. PICK v \in Workers : {w} = {v} /\ TakesCopy(v, p)'
        BY <3>2, <2>7, TokensAre
      <4> QED BY <4>1, <1>3
    <3>3. ASSUME {} \in Takers(j)'[p] PROVE {w} \in Takers(j)[p] \/ {w} \in Blanks(j)
      <4>1. ClaimTakes(p)'
        BY <3>3, TokensAre
      <4>2. p = q
        <5>1. p.job = j
          BY DEF TextsOf
        <5> QED BY <2>2, <2>4, <4>1, <5>1 DEF ClaimTakes
      <4> QED BY <2>6, <4>2, TokensAre, BlanksAre
    <3> QED BY <1>3, <3>1, <3>2, <3>3
  <2>10. BalancedType(j) /\ BalancedType(j)'
    BY BalancedTypes
  <2>11. /\ CopiesOf(j)' = CopiesOf(j) /\ CopyCount(j)' = CopyCount(j)
         /\ Allowed(j)' = Allowed(j)
    BY DEF CopiesOf, CopyCount, Allowed, Submitted
  <2>12. PICK P, B, T, m, n, k, B1, T1 :
           /\ P = TextsOf(j) /\ B = Blanks(j) /\ T = Takers(j) /\ m = CopiesOf(j)
           /\ n = CopyCount(j) /\ k = Allowed(j)
           /\ B1 = Blanks(j)' /\ T1 = Takers(j)'
    OBVIOUS
  <2> HIDE DEF CopiesOf, CopyCount, Allowed, TextsOf
  <2>13. TextsOf(j)' = P
    BY <2>12 DEF TextsOf
  <2>14. /\ Balance(P, B, T, m, n, k)
         /\ BalanceType(P, B, T, m, n, k) /\ BalanceType(P, B1, T1, m, n, k)
    BY <2>10, <2>11, <2>12, <2>13 DEF Balanced, BalancedType
  <2>15. n + k <= n + k /\ \A p \in P : m[p] <= m[p]
    BY <2>14 DEF BalanceType
  <2>16. PICK t \in Tokens, u \in Tokens : t # u /\ t = {w} /\ u = {}
    BY <2>7
  <2>17. /\ B1 \subseteq B /\ t \notin B1 /\ u \notin B1
         /\ \A p \in P : /\ T1[p] \subseteq T[p] \cup {u} /\ m[p] <= m[p]
                         /\ t \notin T1[p]
                         /\ u \in T1[p] => t \in T[p] \/ t \in B
    BY <2>8, <2>9, <2>12, <2>15, <2>16
  <2>18. Balance(P, B1, T1, m, n, k)
    <3>1. t \in Tokens /\ u \in Tokens /\ t # u
      BY <2>16
    <3> QED BY <2>14, <2>15, <2>17, <3>1, TakerReplaced
  <2> QED BY <2>11, <2>12, <2>13, <2>18 DEF Balanced
<1> QED BY <1>4, <1>5

(* BLMOVE moves a copy and makes its worker a taker of it. *)
LEMMA DequeueBalance ==
  ASSUME TypeOK, TypeOK', resends \in Nat, UNCHANGED <<stage, resends>>,
         NEW w \in Workers, Dequeue(w), NEW j \in Jobs, Balanced(j)
  PROVE  Balanced(j)'
<1>1. /\ tasks \in Seq(Payload) /\ processing \in Seq(Payload) /\ tasks # <<>>
      /\ pc \in [Workers -> WorkerPcs] /\ task \in [Workers -> Payload \cup {NoTask}]
      /\ remembered \in [Workers -> BOOLEAN]
  BY DEF TypeOK, StoreTypeOK, WorkerTypeOK, Dequeue
<1>2. PICK h \in Payload : h = Head(tasks)
  BY <1>1, TailRange
<1>3. /\ tasks' = Tail(tasks) /\ processing' = Append(processing, h) /\ claims' = claims
      /\ pc[w] = "idle" /\ pc'[w] = "record_claim" /\ task'[w] = h /\ remembered'[w] = TRUE
      /\ OnlyMoves(w)
  BY <1>1, <1>2 DEF Dequeue, Goto, OnlyMoves
<1>4. /\ ~Covering(w) /\ ~Covering(w)' /\ ~Blank(w)' /\ \A p : TakesCopy(w, p)' => p = h
  BY <1>3 DEF Covering, Executing, Blank, Responsible, TakesCopy
<1>5. \A v \in Workers \ {w} : /\ \A p : TakesCopy(v, p)' <=> TakesCopy(v, p)
                               /\ Blank(v)' <=> Blank(v)
                               /\ task'[v] = task[v]
                               /\ Covering(v)' <=> Covering(v)
  BY <1>3, OthersStay
<1>6. \A p \in TextsOf(j) : ClaimTakes(p)' => ClaimTakes(p)
  <2>1. ClaimsDropped
    BY <1>3 DEF ClaimsDropped
  <2>2. \A v \in Workers : Covering(v) => Covering(v)' /\ task'[v] = task[v]
    <3> HIDE DEF Covering
    <3> QED BY <1>4, <1>5
  <2> HIDE DEF Covering, ClaimTakes
  <2> QED BY <2>1, <2>2, CoveredStays
<1>7. \A S : Occurrences(tasks, S) \in Nat /\ Occurrences(processing, S) \in Nat
  BY <1>1, OccurrencesType
<1>8. /\ \A q : q # h => Occurrences(processing', {q}) = Occurrences(processing, {q})
      /\ Occurrences(processing', {h}) = Occurrences(processing, {h}) + 1
  BY <1>1, <1>3, PushedCopies
<1>9. CopyCount(j)' = CopyCount(j)
  <2>1. PICK a, b, c, d : /\ a = Occurrences(tasks, TextsOf(j))
                          /\ b = Occurrences(processing, TextsOf(j))
                          /\ c = Occurrences(Tail(tasks), TextsOf(j))
                          /\ d = Occurrences(Append(processing, h), TextsOf(j))
    OBVIOUS
  <2>2. \/ h.job = j /\ c = a - 1 /\ d = b + 1
        \/ h.job # j /\ c = a /\ d = b
    <3>1. /\ h.job = j => d = b + 1
          /\ h.job # j => d = b
      BY <1>1, <2>1, PushedCopies
    <3>2. /\ Head(tasks).job = j => c = a - 1
          /\ Head(tasks).job # j => c = a
      BY <1>1, <2>1, PoppedCopies
    <3> QED BY <1>2, <3>1, <3>2
  <2>3. a + b = c + d
    BY <1>7, <2>1, <2>2
  <2>4. CopyCount(j) = a + b
    BY <2>1 DEF CopyCount
  <2>5. CopyCount(j)' = c + d
    <3>1. CopyCount(j)' = Occurrences(tasks', TextsOf(j)) + Occurrences(processing', TextsOf(j))
      BY DEF CopyCount, TextsOf
    <3> QED BY <1>3, <2>1, <3>1
  <2> QED BY <2>3, <2>4, <2>5
<1>10. Allowed(j)' = Allowed(j)
  BY DEF Allowed, Submitted
<1>11. BalancedType(j) /\ BalancedType(j)'
  BY BalancedTypes
<1>12. CASE h.job # j
  <2>1. RolesKept(j)
    <3>1. \A p \in TextsOf(j) : ~TakesCopy(w, p)'
      <4> HIDE DEF TakesCopy
      <4> QED BY <1>4, <1>12 DEF TextsOf
    <3> HIDE DEF TakesCopy, ClaimTakes, Blank
    <3> QED BY <1>4, <1>5, <1>6, <3>1 DEF RolesKept
  <2>2. CopiesKept(j)
    <3>1. \A p \in TextsOf(j) : p # h
      BY <1>12 DEF TextsOf
    <3>2. \A n \in Nat : n <= n
      OBVIOUS
    <3> QED BY <1>7, <1>8, <3>1, <3>2 DEF CopiesKept
  <2>3. CopyCount(j)' + Allowed(j) <= CopyCount(j) + Allowed(j)'
    <3>1. CopyCount(j) \in Nat /\ Allowed(j) \in Int
      BY <1>11 DEF BalancedType, BalanceType
    <3> QED BY <1>9, <1>10, <3>1
  <2>4. resends \in Nat /\ resends' \in Nat
    OBVIOUS
  <2> QED BY <2>1, <2>2, <2>3, <2>4, RolesKeptBalance
<1>13. CASE h.job = j
  <2> HIDE DEF TakesCopy, ClaimTakes, Blank, Takers, Blanks
  <2>1. PICK P, B, T, m, n, k, B1, T1, m1 :
          /\ P = TextsOf(j) /\ B = Blanks(j) /\ T = Takers(j) /\ m = CopiesOf(j)
          /\ n = CopyCount(j) /\ k = Allowed(j)
          /\ B1 = Blanks(j)' /\ T1 = Takers(j)' /\ m1 = CopiesOf(j)'
    OBVIOUS
  <2>2. h \in P
    BY <1>13, <2>1 DEF TextsOf
  <2>3. \A p \in P : /\ m[p] = Occurrences(processing, {p})
                     /\ m1[p] = Occurrences(processing', {p})
    BY <2>1 DEF CopiesOf, TextsOf
  <2>4. PICK t \in Tokens : t = {w}
    BY DEF Tokens
  <2>5. ASSUME NEW p \in P, NEW x \in T1[p] PROVE x \in T[p] \/ (p = h /\ x = t)
    <3>1. CASE \E v \in Workers : x = {v} /\ TakesCopy(v, p)'
      <4>1. PICK v \in Workers : x = {v} /\ TakesCopy(v, p)'
        BY <3>1
      <4>2. CASE v = w
        BY <1>4, <2>4, <4>1, <4>2
      <4>3. CASE v # w
        <5>1. TakesCopy(v, p)
          BY <1>5, <4>1, <4>3
        <5> QED BY <2>1, <4>1, <5>1, TokensAre
      <4> QED BY <4>2, <4>3
    <3>2. CASE x = {} /\ ClaimTakes(p)'
      BY <1>6, <2>1, <3>2, TokensAre
    <3> QED BY <2>1, <2>5, <3>1, <3>2, TokensAre
  <2>6. B1 \subseteq B
    <3>1. ASSUME NEW x \in B1 PROVE x \in B
      <4>1. PICK v \in Workers : x = {v} /\ Blank(v)' /\ task'[v].job = j
        BY <2>1, BlanksAre
      <4>2. Blank(v) /\ task[v].job = j
        BY <1>4, <1>5, <4>1
      <4> QED BY <2>1, <4>1, <4>2, BlanksAre
    <3> QED BY <3>1
  <2>7. /\ T1[h] \subseteq T[h] \cup {t} /\ m[h] + 1 <= m1[h]
        /\ \A p \in P \ {h} : T1[p] \subseteq T[p] /\ m[p] <= m1[p]
    <3>1. \A n0 \in Nat : n0 <= n0 /\ \A n2 : n2 = n0 + 1 => n0 + 1 <= n2
      OBVIOUS
    <3>2. \A p \in P : m[p] \in Nat
      BY <1>7, <2>3
    <3>3. m1[h] = m[h] + 1
      BY <1>8, <2>2, <2>3
    <3>4. \A p \in P \ {h} : m1[p] = m[p]
      BY <1>8, <2>3
    <3>5. /\ m[h] + 1 <= m1[h]
          /\ \A p \in P \ {h} : m[p] <= m1[p]
      BY <2>2, <3>1, <3>2, <3>3, <3>4
    <3> QED BY <2>2, <2>5, <3>5
  <2> HIDE DEF CopiesOf, CopyCount, Allowed, TextsOf
  <2>8. TextsOf(j)' = P
    BY <2>1 DEF TextsOf
  <2>9. /\ Balance(P, B, T, m, n, k)
        /\ BalanceType(P, B, T, m, n, k) /\ BalanceType(P, B1, T1, m1, n, k)
    BY <1>9, <1>10, <1>11, <2>1, <2>8 DEF Balanced, BalancedType
  <2>10. n + k <= n + k
    BY <2>9 DEF BalanceType
  <2>11. Balance(P, B1, T1, m1, n, k)
    BY <2>2, <2>6, <2>7, <2>9, <2>10, NewTaker
  <2> QED BY <1>9, <1>10, <2>1, <2>8, <2>11 DEF Balanced
<1> QED BY <1>12, <1>13

(* The copies of a job without those of the list that was changed last *)
Remaining(j) == Occurrences(tasks, TextsOf(j)) + Occurrences(processing', TextsOf(j))

(* The takers of a job without the token t and without its claim *)
Rest(j, t) == [q \in TextsOf(j) |-> Takers(j)[q] \ {t, {}}]

(* A token that goes and takes a copy of its text away, or finds none:      *)
(* there is room for a copy more than before.                               *)
LEMMA CopyTaken ==
  ASSUME TypeOK, TypeOK', resends \in Nat, resends' \in Nat, NEW j \in Jobs, Balanced(j),
         NEW p \in TextsOf(j), NEW t \in Tokens,
         \/ processing' = RemoveFirst(processing, p) /\ t \in Takers(j)[p] \cup Blanks(j)
         \/ processing' = processing /\ t \in Blanks(j)
  PROVE  /\ BalanceType(TextsOf(j), Blanks(j) \ {t}, Rest(j, t), CopiesOf(j)',
                        Remaining(j), Allowed(j) - 1)
         /\ Balance(TextsOf(j), Blanks(j) \ {t}, Rest(j, t), CopiesOf(j)',
                    Remaining(j), Allowed(j) - 1)
<1> HIDE DEF Takers, Blanks
<1>1. /\ tasks \in Seq(Payload) /\ processing \in Seq(Payload) /\ processing' \in Seq(Payload)
      /\ p \in Payload /\ p.job = j
  BY DEF TypeOK, StoreTypeOK, TextsOf
<1>2. \A S : /\ Occurrences(tasks, S) \in Nat /\ Occurrences(processing, S) \in Nat
             /\ Occurrences(processing', S) \in Nat
  BY <1>1, OccurrencesType
<1>3. PICK P, B, T, m, k, B1, T1, m1, r, a, b, c :
        /\ r = processing' /\ P = TextsOf(j) /\ B = Blanks(j) /\ T = Takers(j) /\ m = CopiesOf(j)
        /\ k = Allowed(j)
        /\ B1 = Blanks(j) \ {t} /\ T1 = Rest(j, t) /\ m1 = CopiesOf(j)'
        /\ a = Occurrences(tasks, TextsOf(j)) /\ b = Occurrences(processing, TextsOf(j))
        /\ c = Occurrences(r, TextsOf(j))
  OBVIOUS
<1>4. /\ CopyCount(j) = a + b /\ Remaining(j) = a + c /\ a \in Nat /\ b \in Nat /\ c \in Nat
  BY <1>2, <1>3 DEF CopyCount, Remaining
<1>5. \A q \in P : /\ m[q] = Occurrences(processing, {q}) /\ m[q] \in Nat
                   /\ m1[q] = Occurrences(r, {q}) /\ m1[q] \in Nat
  BY <1>2, <1>3 DEF CopiesOf, TextsOf
<1>6. /\ Balance(P, B, T, m, a + b, k) /\ BalanceType(P, B, T, m, a + b, k)
  BY <1>3, <1>4, BalancedTypes DEF Balanced, BalancedType
<1>7. /\ B1 \subseteq B /\ t \notin B1
      /\ \A q \in P : T1[q] \subseteq T[q] /\ t \notin T1[q]
  BY <1>3 DEF Rest
<1>8. BalanceType(P, B1, T1, m1, a + c, k - 1)
  <2>1. k - 1 \in Int /\ a + c \in Nat
    BY <1>4, <1>6 DEF BalanceType
  <2> QED BY <1>5, <1>6, <1>7, <2>1 DEF BalanceType
<1>9. p \in P
  BY <1>3
<1> HIDE DEF TextsOf, CopiesOf
<1>10. CASE r = RemoveFirst(processing, p) /\ p \in Range(processing)
  <2>1. m[p] = m1[p] + 1 /\ b = c + 1 /\ \A q \in P : q # p => m1[q] = m[q]
    <3>1. /\ \A q : q # p => Occurrences(r, {q}) = Occurrences(processing, {q})
          /\ Occurrences(r, {p}) = Occurrences(processing, {p}) - 1
          /\ Occurrences(r, TextsOf(j)) = Occurrences(processing, TextsOf(j)) - 1
      <4>1. processing \in Seq(Payload) /\ p \in Payload /\ r = RemoveFirst(processing, p)
        BY <1>1, <1>10
      <4> HIDE <1>10
      <4>2. /\ \A q : q # p => Occurrences(r, {q}) = Occurrences(processing, {q})
            /\ p \in Range(processing) =>
                 /\ Occurrences(r, {p}) = Occurrences(processing, {p}) - 1
                 /\ p.job = j => Occurrences(r, TextsOf(j)) = Occurrences(processing, TextsOf(j)) - 1
        BY <4>1, RemovedCopies
      <4> QED BY <1>1, <1>10, <4>2
    <3>2. m1[p] = m[p] - 1 /\ c = b - 1
      <4>1. /\ m[p] = Occurrences(processing, {p}) /\ m1[p] = Occurrences(r, {p})
        BY <1>5, <1>9
      <4> QED BY <1>3, <3>1, <4>1
    <3>3. \A q \in P : q # p => m1[q] = m[q]
      BY <1>5, <3>1
    <3>4. m[p] \in Nat /\ b \in Nat
      BY <1>4, <1>5, <1>9
    <3>5. m[p] = m1[p] + 1 /\ b = c + 1
      BY <3>2, <3>4
    <3> QED BY <3>3, <3>5
  <2>2. /\ m[p] <= m1[p] + 1 /\ \A q \in P \ {p} : m[q] <= m1[q]
    <3>1. \A n \in Nat : n <= n
      OBVIOUS
    <3>2. \A q \in P \ {p} : m[q] <= m1[q]
      BY <1>5, <2>1, <3>1
    <3>3. m[p] \in Nat /\ m1[p] \in Nat
      BY <1>5, <1>9
    <3>4. m[p] <= m1[p] + 1
      BY <2>1, <3>3
    <3> QED BY <3>2, <3>4
  <2>3. a + c + k <= a + b + (k - 1)
    <3>1. k \in Int
      BY <1>6 DEF BalanceType
    <3> QED BY <1>4, <2>1, <3>1
  <2>4. t \in T[p] \/ t \in B
    BY <1>3, <1>4
  <2>5. Balance(P, B1, T1, m1, a + c, k - 1)
    BY <1>6, <1>7, <1>8, <1>9, <2>2, <2>3, <2>4, TakerServed
  <2> QED BY <1>3, <1>4, <1>8, <2>5
<1>11. CASE ~(r = RemoveFirst(processing, p) /\ p \in Range(processing))
  <2>1. /\ \A S : Occurrences(r, S) = Occurrences(processing, S)
        /\ t \in B \/ (t \in T[p] /\ m[p] = 0)
    <3>1. CASE r = processing /\ t \in Blanks(j)
      BY <1>3, <3>1
    <3>2. CASE ~(r = processing /\ t \in Blanks(j))
      <4>1. r = RemoveFirst(processing, p) /\ p \notin Range(processing)
        BY <1>3, <1>11, <3>2
      <4>2. /\ \A S : Occurrences(r, S) = Occurrences(processing, S)
            /\ Occurrences(processing, {p}) = 0
        BY <1>1, <4>1, RemovedCopies
      <4>3. t \in Takers(j)[p] \cup Blanks(j)
        BY <1>3, <3>2
      <4> QED BY <1>3, <1>5, <1>9, <4>2, <4>3
    <3> QED BY <3>1, <3>2
  <2>2. /\ c = b /\ \A q \in P : m1[q] = m[q]
    BY <1>3, <1>5, <2>1
  <2>3. /\ \A q \in P : m[q] <= m1[q]
        /\ a + c + k <= a + b + (k - 1) + 1
    <3>1. k \in Int
      BY <1>6 DEF BalanceType
    <3>2. a + c + k <= a + b + (k - 1) + 1
      BY <1>4, <2>2, <3>1
    <3>3. \A n \in Nat : n <= n
      OBVIOUS
    <3>4. \A q \in P : m[q] <= m1[q]
      BY <1>5, <2>2, <3>3
    <3> QED BY <3>2, <3>4
  <2>4. t \in B \/ \E q \in P : t \in T[q] /\ m[q] = 0
    BY <1>9, <2>1
  <2>5. Balance(P, B1, T1, m1, a + c, k - 1)
    <3>1. \A q \in P : T1[q] \subseteq T[q] /\ m[q] <= m1[q] /\ t \notin T1[q]
      BY <1>7, <2>3
    <3> QED BY <1>6, <1>7, <1>8, <2>3, <2>4, <3>1, DebtPaid
  <2> QED BY <1>3, <1>4, <1>8, <2>5
<1> QED BY <1>10, <1>11

(* The room is used by a push, or by the token that keeps a part. *)
LEMMA RoomUsed ==
  ASSUME TypeOK, TypeOK', resends \in Nat, UNCHANGED <<stage, resends>>,
         NEW j \in Jobs, NEW t \in Tokens,
         BalanceType(TextsOf(j), Blanks(j) \ {t}, Rest(j, t), CopiesOf(j)',
                     Remaining(j), Allowed(j) - 1),
         Balance(TextsOf(j), Blanks(j) \ {t}, Rest(j, t), CopiesOf(j)',
                 Remaining(j), Allowed(j) - 1),
         \/ /\ tasks' = tasks \/ \E p \in Payload : tasks' = Append(tasks, p)
            /\ Blanks(j)' \subseteq Blanks(j) \ {t}
            /\ \A q \in TextsOf(j) : Takers(j)'[q] \subseteq Rest(j, t)[q]
         \/ /\ tasks' = tasks
            /\ Blanks(j)' \subseteq Blanks(j) \cup {t}
            /\ \A q \in TextsOf(j) : Takers(j)'[q] \subseteq Rest(j, t)[q] \cup {t}
  PROVE  Balanced(j)'
<1> HIDE DEF Takers, Blanks, Rest
<1>1. /\ tasks \in Seq(Payload) /\ tasks' \in Seq(Payload) /\ processing' \in Seq(Payload)
  BY DEF TypeOK, StoreTypeOK
<1>2. /\ Occurrences(tasks, TextsOf(j)) \in Nat /\ Occurrences(tasks', TextsOf(j)) \in Nat
      /\ \A S : Occurrences(processing', S) \in Nat
  BY <1>1, OccurrencesType
<1>3. PICK P, B, T, m, k, B1, T1, a, b, c :
        /\ P = TextsOf(j) /\ B = Blanks(j) \ {t} /\ T = Rest(j, t) /\ m = CopiesOf(j)'
        /\ k = Allowed(j) /\ B1 = Blanks(j)' /\ T1 = Takers(j)'
        /\ a = Occurrences(tasks, TextsOf(j)) /\ b = Occurrences(tasks', TextsOf(j))
        /\ c = Occurrences(processing', TextsOf(j))
  OBVIOUS
<1>4. Remaining(j) = a + c /\ a \in Nat /\ b \in Nat /\ c \in Nat
  BY <1>2, <1>3 DEF Remaining
<1>5. CopyCount(j)' = b + c
  BY <1>3 DEF CopyCount, TextsOf
<1>6. Allowed(j)' = k
  BY <1>3 DEF Allowed, Submitted
<1>7. BalancedType(j) /\ BalancedType(j)'
  BY BalancedTypes
<1>8. TextsOf(j)' = P
  BY <1>3 DEF TextsOf
<1>9. k \in Int /\ \A p \in P : m[p] \in Nat /\ m[p] <= m[p]
  <2>1. \A n \in Nat : n <= n
    OBVIOUS
  <2>2. k \in Int
    BY <1>3, <1>7 DEF BalancedType, BalanceType
  <2>3. \A p \in P : m[p] \in Nat
    BY <1>2, <1>3 DEF CopiesOf, TextsOf
  <2> QED BY <2>1, <2>2, <2>3
<1>10. ASSUME NEW p \in Payload, tasks' = Append(tasks, p) PROVE b = a + 1 \/ b = a
  <2>1. /\ p.job = j =>
             Occurrences(Append(tasks, p), TextsOf(j)) = Occurrences(tasks, TextsOf(j)) + 1
        /\ p.job # j =>
             Occurrences(Append(tasks, p), TextsOf(j)) = Occurrences(tasks, TextsOf(j))
    <3> HIDE <1>10
    <3>1. tasks \in Seq(Payload)
      BY <1>1
    <3> QED BY <3>1, PushedCopies
  <2> QED BY <1>3, <1>10, <2>1
<1> HIDE DEF TextsOf, CopiesOf, CopyCount, Remaining, Allowed
<1>11. /\ Balance(P, B, T, m, a + c, k - 1)
       /\ BalanceType(P, B, T, m, a + c, k - 1) /\ BalanceType(P, B1, T1, m, b + c, k)
  <2>1. /\ Balance(P, B, T, m, a + c, k - 1)
        /\ BalanceType(P, B, T, m, a + c, k - 1)
    BY <1>3, <1>4
  <2>2. BalanceType(P, B1, T1, m, b + c, k)
    BY <1>3, <1>5, <1>6, <1>7, <1>8 DEF BalancedType
  <2> QED BY <2>1, <2>2
<1>12. Balance(P, B1, T1, m, b + c, k)
  <2>1. CASE /\ tasks' = tasks \/ \E p \in Payload : tasks' = Append(tasks, p)
             /\ Blanks(j)' \subseteq Blanks(j) \ {t}
             /\ \A q \in TextsOf(j) : Takers(j)'[q] \subseteq Rest(j, t)[q]
    <3>1. b + c + (k - 1) <= a + c + k
      <4>1. b = a + 1 \/ b = a
        BY <1>3, <1>10, <2>1
      <4> QED BY <1>4, <1>9, <4>1
    <3>2. B1 \subseteq B /\ \A p \in P : T1[p] \subseteq T[p] \cup B /\ m[p] <= m[p]
      BY <1>3, <1>9, <2>1
    <3> QED BY <1>11, <3>1, <3>2, FewerTakers
  <2>2. CASE /\ tasks' = tasks
             /\ Blanks(j)' \subseteq Blanks(j) \cup {t}
             /\ \A q \in TextsOf(j) : Takers(j)'[q] \subseteq Rest(j, t)[q] \cup {t}
    <3>1. b + c + (k - 1) + 1 <= a + c + k
      <4>1. b = a
        BY <1>3, <2>2
      <4> QED BY <1>4, <1>9, <4>1
    <3>2. /\ B1 \subseteq B \cup {t}
          /\ \A p \in P : T1[p] \subseteq T[p] \cup {t} /\ m[p] <= m[p]
      BY <1>3, <1>9, <2>2
    <3> QED BY <1>11, <3>1, <3>2, NewDebt
  <2> QED BY <2>1, <2>2
<1> QED BY <1>3, <1>5, <1>6, <1>8, <1>12 DEF Balanced

(* The lists lose and get copies of job i only. *)
ListsOf(i) ==
  /\ tasks' = tasks \/ \E q \in Payload : q.job = i /\ tasks' = Append(tasks, q)
  /\ processing' = processing
     \/ \E q \in Payload : q.job = i /\ processing' = RemoveFirst(processing, q)

(* What happens to the copies of another job does not concern a job. *)
LEMMA OtherJobsCopies ==
  ASSUME TypeOK, NEW i, NEW j, i # j, ListsOf(i)
  PROVE  CopyCount(j)' = CopyCount(j) /\ CopiesKept(j)
<1>1. tasks \in Seq(Payload) /\ processing \in Seq(Payload)
  BY DEF TypeOK, StoreTypeOK
<1>2. \A S : Occurrences(processing, S) \in Nat
  BY <1>1, OccurrencesType
<1>3. \A q \in Payload : \A S : q \notin S =>
        /\ Occurrences(Append(tasks, q), S) = Occurrences(tasks, S)
        /\ Occurrences(RemoveFirst(processing, q), S) = Occurrences(processing, S)
  BY <1>1, AppendOccurs, RemoveFirstOccurs
<1>4. /\ Occurrences(tasks', TextsOf(j)) = Occurrences(tasks, TextsOf(j))
      /\ Occurrences(processing', TextsOf(j)) = Occurrences(processing, TextsOf(j))
      /\ \A p \in TextsOf(j) : Occurrences(processing', {p}) = Occurrences(processing, {p})
  <2>1. \A q : q.job = i => q \notin TextsOf(j) /\ \A p \in TextsOf(j) : q \notin {p}
    BY DEF TextsOf
  <2>2. Occurrences(tasks', TextsOf(j)) = Occurrences(tasks, TextsOf(j))
    <3>1. CASE tasks' = tasks
      BY <3>1
    <3>2. ASSUME NEW q \in Payload, q.job = i, tasks' = Append(tasks, q)
          PROVE  Occurrences(tasks', TextsOf(j)) = Occurrences(tasks, TextsOf(j))
      BY <1>3, <2>1, <3>2
    <3> QED BY <3>1, <3>2 DEF ListsOf
  <2>3. CASE processing' = processing
    BY <2>2, <2>3
  <2>4. ASSUME NEW q \in Payload, q.job = i, processing' = RemoveFirst(processing, q)
        PROVE  /\ Occurrences(processing', TextsOf(j)) = Occurrences(processing, TextsOf(j))
               /\ \A p \in TextsOf(j) :
                    Occurrences(processing', {p}) = Occurrences(processing, {p})
    BY <1>3, <2>1, <2>4
  <2> QED BY <2>2, <2>3, <2>4 DEF ListsOf
<1>5. CopyCount(j)' = CopyCount(j)
  BY <1>4 DEF CopyCount, TextsOf
<1>6. CopiesKept(j)
  <2>1. \A n \in Nat : n <= n
    OBVIOUS
  <2> QED BY <1>2, <1>4, <2>1 DEF CopiesKept
<1> QED BY <1>5, <1>6

(* Nor do the workers that hold another job, or the claims of it. *)
LEMMA OtherJobBalance ==
  ASSUME TypeOK, TypeOK', resends \in Nat, resends' \in Nat, resends <= resends',
         UNCHANGED stage, NEW i, NEW j \in Jobs, i # j, Balanced(j),
         ListsOf(i), claims'[j] = claims[j],
         \A w \in Workers :
           \/ pc'[w] = pc[w] /\ task'[w] = task[w] /\ remembered'[w] = remembered[w]
           \/ task[w].job = i /\ (Responsible(w)' => task'[w].job = i)
  PROVE  Balanced(j)'
<1>1. ASSUME NEW w \in Workers, NEW p \in TextsOf(j)
      PROVE  /\ TakesCopy(w, p)' => TakesCopy(w, p)
             /\ Blank(w)' /\ task'[w].job = j => Blank(w) /\ task[w].job = j
             /\ Covering(w) /\ task[w] = p => Covering(w)' /\ task'[w] = p
  <2>1. CASE pc'[w] = pc[w] /\ task'[w] = task[w] /\ remembered'[w] = remembered[w]
    BY <2>1 DEF TakesCopy, Blank, Responsible, Executing, Covering
  <2>2. CASE task[w].job = i /\ (Responsible(w)' => task'[w].job = i)
    <3>1. p.job = j
      BY DEF TextsOf
    <3>2. Executing(w)' => Responsible(w)'
      BY DEF Responsible
    <3>3. ~TakesCopy(w, p)'
      <4>1. TakesCopy(w, p)' => Executing(w)' /\ task'[w] = p
        BY DEF TakesCopy
      <4> HIDE DEF TakesCopy, Executing
      <4> QED BY <2>2, <3>1, <3>2, <4>1
    <3>4. ~(Blank(w)' /\ task'[w].job = j)
      <4>1. Blank(w)' => Responsible(w)'
        BY DEF Blank
      <4> HIDE DEF Blank, Responsible
      <4> QED BY <2>2, <4>1
    <3>5. task[w] # p
      BY <2>2, <3>1
    <3> HIDE DEF TakesCopy, Blank, Covering
    <3> QED BY <3>3, <3>4, <3>5
  <2> QED BY <2>1, <2>2
<1>2. ASSUME NEW p \in TextsOf(j), ClaimTakes(p)' PROVE ClaimTakes(p)
  <2>1. PICK c : c = claims[j]
    OBVIOUS
  <2>2. p.job = j /\ c # NoClaim /\ c.payload = p /\ ~(Covering(c.worker)' /\ task'[c.worker] = p)
    <3>1. p.job = j
      BY DEF TextsOf
    <3> QED BY <1>2, <2>1, <3>1 DEF ClaimTakes, CoveredClaim, Covering, Executing
  <2>3. c.worker \in Workers
    BY <2>1, <2>2 DEF TypeOK, StoreTypeOK, Claim
  <2>4. ~CoveredClaim(c)
    <3> HIDE DEF Covering
    <3> QED BY <1>1, <2>2, <2>3 DEF CoveredClaim
  <2> HIDE DEF CoveredClaim
  <2> QED BY <2>1, <2>2, <2>4 DEF ClaimTakes
<1>3. RolesKept(j)
  <2>1. \A p \in TextsOf(j) : ClaimTakes(p)' => ClaimTakes(p)
    BY <1>2
  <2>2. \A w \in Workers : Blank(w)' /\ task'[w].job = j => Blank(w) /\ task[w].job = j
    <3> HIDE DEF TakesCopy, Blank, Covering
    <3>1. ASSUME NEW w \in Workers, Blank(w)', task'[w].job = j PROVE Blank(w) /\ task[w].job = j
      <4>1. NewPayload(j) \in TextsOf(j)
        BY DEF NewPayload, TextsOf, Payload
      <4> QED BY <1>1, <3>1, <4>1
    <3> QED BY <3>1
  <2>3. \A w \in Workers : \A p \in TextsOf(j) : TakesCopy(w, p)' => TakesCopy(w, p)
    BY <1>1
  <2> HIDE DEF TakesCopy, Blank, ClaimTakes
  <2> QED BY <2>1, <2>2, <2>3 DEF RolesKept
<1>4. CopyCount(j)' = CopyCount(j) /\ CopiesKept(j)
  BY OtherJobsCopies
<1>5. CopyCount(j)' + Allowed(j) <= CopyCount(j) + Allowed(j)'
  <2>1. PICK a, b, n : a = Allowed(j) /\ b = Allowed(j)' /\ n = CopyCount(j)
                       /\ a \in Int /\ b \in Int /\ n \in Nat
    BY BalancedTypes DEF BalancedType, BalanceType
  <2>2. a <= b
    BY <2>1, AllowedGrows
  <2> QED BY <1>4, <2>1, <2>2
<1> QED BY <1>3, <1>4, <1>5, RolesKeptBalance

(* A worker that acknowledges its payload takes its copy away, or has made  *)
(* room for one; it may then push the job once, or stay responsible.        *)
LEMMA AckedBalance ==
  ASSUME TypeOK, TypeOK', resends \in Nat, UNCHANGED <<stage, resends>>,
         NEW w \in Workers, OnlyMoves(w), Executing(w), Ack(task[w], remembered[w]),
         NEW j \in Jobs, Balanced(j),
         \/ /\ ~Responsible(w)'
            /\ \/ tasks' = tasks
               \/ \E p \in Payload : p.job = task[w].job /\ tasks' = Append(tasks, p)
         \/ tasks' = tasks /\ task'[w] = task[w]
  PROVE  Balanced(j)'
<1>1. PICK p, i : p = task[w] /\ i = p.job
  OBVIOUS
<1>2. p \in Payload /\ i \in Jobs /\ claims \in [Jobs -> Claim \cup {NoClaim}]
  BY <1>1 DEF TypeOK, WorkerTypeOK, StoreTypeOK, Executing, Payload
<1>3. /\ \/ remembered[w] /\ processing' = RemoveFirst(processing, p)
         \/ ~remembered[w] /\ processing' = processing
      /\ claims' = [claims EXCEPT ![i] = NoClaim]
  <2>1. \/ remembered[w] /\ processing' = RemoveFirst(processing, task[w])
        \/ ~remembered[w] /\ processing' = processing
    BY Zenon DEF Ack, RemoveProcessing
  <2>2. claims' = [claims EXCEPT ![task[w].job] = NoClaim]
    BY DEF Ack, DropClaim
  <2> QED BY <1>1, <2>1, <2>2, Zenon
<1>4. CASE i # j
  <2>1. ListsOf(i)
    BY <1>1, <1>2, <1>3 DEF ListsOf
  <2>2. claims'[j] = claims[j]
    BY <1>2, <1>3, <1>4
  <2>3. resends' \in Nat /\ resends <= resends'
    <3>1. \A n \in Nat : n <= n
      OBVIOUS
    <3> QED BY <3>1
  <2>4. \A v \in Workers :
          \/ pc'[v] = pc[v] /\ task'[v] = task[v] /\ remembered'[v] = remembered[v]
          \/ task[v].job = i /\ (Responsible(v)' => task'[v].job = i)
    <3> HIDE DEF Responsible
    <3> QED BY <1>1 DEF OnlyMoves
  <2> HIDE DEF Responsible
  <2> QED BY <1>4, <2>1, <2>2, <2>3, <2>4, OtherJobBalance
<1>5. CASE i = j
  <2> HIDE DEF Takers, Blanks
  <2>1. PICK t \in Tokens : t = {w}
    BY DEF Tokens
  <2>2. p \in TextsOf(j)
    BY <1>1, <1>2, <1>5 DEF TextsOf
  <2>3. \/ processing' = RemoveFirst(processing, p) /\ t \in Takers(j)[p] \cup Blanks(j)
        \/ processing' = processing /\ t \in Blanks(j)
    <3>1. remembered[w] => TakesCopy(w, p)
      BY <1>1 DEF TakesCopy
    <3>2. ~remembered[w] => Blank(w) /\ task[w].job = j
      BY <1>1, <1>5 DEF Blank, Responsible
    <3>3. remembered[w] => t \in Takers(j)[p]
      BY <2>1, <2>2, <3>1, TokensAre
    <3>4. ~remembered[w] => t \in Blanks(j)
      BY <2>1, <3>2, BlanksAre
    <3> QED BY <1>3, <3>3, <3>4
  <2>4. resends' \in Nat
    OBVIOUS
  <2>5. /\ BalanceType(TextsOf(j), Blanks(j) \ {t}, Rest(j, t), CopiesOf(j)',
                       Remaining(j), Allowed(j) - 1)
        /\ Balance(TextsOf(j), Blanks(j) \ {t}, Rest(j, t), CopiesOf(j)',
                   Remaining(j), Allowed(j) - 1)
    BY <2>2, <2>3, <2>4, CopyTaken
  <2>6. \A v \in Workers \ {w} : /\ \A q : TakesCopy(v, q)' <=> TakesCopy(v, q)
                                 /\ Blank(v)' <=> Blank(v)
                                 /\ task'[v] = task[v]
                                 /\ Covering(v)' <=> Covering(v)
    BY OthersStay
  <2>7. ASSUME NEW q \in TextsOf(j), NEW x \in Takers(j)'[q]
        PROVE  x \in Rest(j, t)[q] \/ (x = t /\ TakesCopy(w, q)')
    <3>1. ~ClaimTakes(q)'
      <4>1. claims'[q.job] = NoClaim
        BY <1>2, <1>3, <1>5 DEF TextsOf
      <4> QED BY <4>1 DEF ClaimTakes
    <3>2. PICK v \in Workers : x = {v} /\ TakesCopy(v, q)'
      BY <2>7, <3>1, TokensAre
    <3>3. CASE v = w
      BY <2>1, <3>2, <3>3
    <3>4. CASE v # w
      <4>1. TakesCopy(v, q)
        BY <2>6, <3>2, <3>4
      <4>2. x \in Takers(j)[q] /\ x # {} /\ x # t
        BY <2>1, <3>2, <3>4, <4>1, TokensAre
      <4> QED BY <4>2 DEF Rest
    <3> QED BY <3>3, <3>4
  <2>8. ASSUME NEW x \in Blanks(j)' PROVE (x \in Blanks(j) /\ x # t) \/ (x = t /\ Blank(w)')
    <3>1. PICK v \in Workers : x = {v} /\ Blank(v)' /\ task'[v].job = j
      BY BlanksAre
    <3>2. CASE v = w
      BY <2>1, <3>1, <3>2
    <3>3. CASE v # w
      <4>1. Blank(v) /\ task[v].job = j
        <5> HIDE DEF Blank
        <5> QED BY <2>6, <3>1, <3>3
      <4>2. x \in Blanks(j) /\ x # t
        BY <2>1, <3>1, <3>3, <4>1, BlanksAre
      <4> QED BY <4>2
    <3> QED BY <3>2, <3>3
  <2>9. CASE /\ ~Responsible(w)'
             /\ \/ tasks' = tasks
                \/ \E q \in Payload : q.job = task[w].job /\ tasks' = Append(tasks, q)
    <3>1. ~Blank(w)' /\ \A q : ~TakesCopy(w, q)'
      BY <2>9 DEF Blank, TakesCopy, Responsible
    <3>2. /\ Blanks(j)' \subseteq Blanks(j) \ {t}
          /\ \A q \in TextsOf(j) : Takers(j)'[q] \subseteq Rest(j, t)[q]
      <4> HIDE DEF Blank, TakesCopy
      <4> QED BY <2>7, <2>8, <3>1
    <3>3. tasks' = tasks \/ \E q \in Payload : tasks' = Append(tasks, q)
      BY <2>9
    <3> HIDE DEF Rest, Remaining, CopiesOf, Allowed
    <3> QED BY <2>5, <3>2, <3>3, RoomUsed
  <2>10. CASE tasks' = tasks /\ task'[w] = task[w]
    <3>1. /\ Blanks(j)' \subseteq Blanks(j) \cup {t}
          /\ \A q \in TextsOf(j) : Takers(j)'[q] \subseteq Rest(j, t)[q] \cup {t}
      <4> HIDE DEF Blank, TakesCopy
      <4> QED BY <2>7, <2>8
    <3>2. tasks' = tasks
      BY <2>10
    <3> HIDE DEF Rest, Remaining, CopiesOf, Allowed
    <3> QED BY <2>5, <3>1, <3>2, RoomUsed
  <2> QED BY <2>9, <2>10
<1> QED BY <1>4, <1>5

(* The workers' part in a job does not change while none of them moves.     *)
LEMMA WorkersStay ==
  ASSUME UNCHANGED <<pc, task, remembered>>
  PROVE  \A v \in Workers : /\ \A p : TakesCopy(v, p)' <=> TakesCopy(v, p)
                            /\ Blank(v)' <=> Blank(v)
                            /\ task'[v] = task[v]
                            /\ Covering(v)' <=> Covering(v)
  BY DEF TakesCopy, Blank, Responsible, Executing, Covering

(* The reaper takes the copy of a claim that nobody covers, or finds none,  *)
(* and may push the job once.                                               *)
LEMMA TakenBackBalance ==
  ASSUME TypeOK, TypeOK', resends \in Nat,
         UNCHANGED <<pc, task, remembered, stage, resends>>,
         NEW p \in Payload, ClaimTakes(p), processing' = RemoveFirst(processing, p),
         claims' = [claims EXCEPT ![p.job] = NoClaim],
         tasks' = tasks \/ \E q \in Payload : q.job = p.job /\ tasks' = Append(tasks, q),
         NEW j \in Jobs, Balanced(j)
  PROVE  Balanced(j)'
<1>1. p.job \in Jobs /\ claims \in [Jobs -> Claim \cup {NoClaim}]
  BY DEF TypeOK, StoreTypeOK, Payload
<1>2. CASE p.job # j
  <2>1. ListsOf(p.job)
    BY DEF ListsOf
  <2>2. claims'[j] = claims[j]
    BY <1>1, <1>2
  <2>3. resends' \in Nat /\ resends <= resends'
    <3>1. \A n \in Nat : n <= n
      OBVIOUS
    <3> QED BY <3>1
  <2>4. \A v \in Workers : pc'[v] = pc[v] /\ task'[v] = task[v] /\ remembered'[v] = remembered[v]
    OBVIOUS
  <2> HIDE DEF Responsible
  <2> QED BY <1>2, <2>1, <2>2, <2>3, <2>4, OtherJobBalance
<1>3. CASE p.job = j
  <2> HIDE DEF Takers, Blanks, ClaimTakes
  <2>1. PICK t \in Tokens : t = {}
    BY DEF Tokens
  <2>2. p \in TextsOf(j)
    BY <1>3 DEF TextsOf
  <2>3. t \in Takers(j)[p]
    BY <2>1, <2>2, TokensAre
  <2>4. resends' \in Nat
    OBVIOUS
  <2>5. /\ BalanceType(TextsOf(j), Blanks(j) \ {t}, Rest(j, t), CopiesOf(j)',
                       Remaining(j), Allowed(j) - 1)
        /\ Balance(TextsOf(j), Blanks(j) \ {t}, Rest(j, t), CopiesOf(j)',
                   Remaining(j), Allowed(j) - 1)
    BY <2>2, <2>3, <2>4, CopyTaken
  <2>6. \A v \in Workers : /\ \A q : TakesCopy(v, q)' <=> TakesCopy(v, q)
                           /\ Blank(v)' <=> Blank(v)
                           /\ task'[v] = task[v]
    BY WorkersStay
  <2>7. ASSUME NEW q \in TextsOf(j), NEW x \in Takers(j)'[q]
        PROVE  x \in Rest(j, t)[q]
    <3>1. ~ClaimTakes(q)'
      <4>1. claims'[q.job] = NoClaim
        BY <1>1, <1>3 DEF TextsOf
      <4> QED BY <4>1 DEF ClaimTakes
    <3>2. PICK v \in Workers : x = {v} /\ TakesCopy(v, q)'
      BY <2>7, <3>1, TokensAre
    <3>3. TakesCopy(v, q)
      BY <2>6, <3>2
    <3>4. x \in Takers(j)[q] /\ x # {} /\ x # t
      BY <2>1, <3>2, <3>3, TokensAre
    <3> QED BY <3>4 DEF Rest
  <2>8. ASSUME NEW x \in Blanks(j)' PROVE x \in Blanks(j) /\ x # t
    <3>1. PICK v \in Workers : x = {v} /\ Blank(v)' /\ task'[v].job = j
      BY BlanksAre
    <3>2. Blank(v) /\ task[v].job = j
      <4> HIDE DEF Blank
      <4> QED BY <2>6, <3>1
    <3> QED BY <2>1, <3>1, <3>2, BlanksAre
  <2>9. /\ Blanks(j)' \subseteq Blanks(j) \ {t}
        /\ \A q \in TextsOf(j) : Takers(j)'[q] \subseteq Rest(j, t)[q]
    BY <2>7, <2>8
  <2>10. tasks' = tasks \/ \E q \in Payload : tasks' = Append(tasks, q)
    OBVIOUS
  <2> HIDE DEF Rest, Remaining, CopiesOf, Allowed
  <2> QED BY <2>5, <2>9, <2>10, RoomUsed
<1> QED BY <1>2, <1>3

(* The room that a command executed again leaves for a job *)
LEMMA AllowedMore ==
  ASSUME resends \in Nat, NEW n \in Nat, n = resends + 1, resends' = n, UNCHANGED stage,
         NEW j \in Jobs
  PROVE  Allowed(j)' = Allowed(j) + 1
<1>1. PICK k \in Nat : k = resends
  OBVIOUS
<1>2. PICK a, b : a = Allowed(j) /\ b = Allowed(j)'
  OBVIOUS
<1>3. Submitted(j)' <=> Submitted(j)
  BY DEF Submitted
<1>4. (a = k + 1 /\ b = n + 1) \/ (a = k /\ b = n)
  <2> HIDE DEF Submitted
  <2> QED BY <1>1, <1>2, <1>3 DEF Allowed
<1>5. b = a + 1
  BY <1>1, <1>4
<1> QED BY <1>2, <1>5

(* A MULTI of requeue() that is executed again pushes the job once more; if *)
(* it removes a copy, the taker of that one is in debt.                     *)
LEMMA RequeuedAgainBalance ==
  ASSUME TypeOK, TypeOK', resends \in Nat, NEW n \in Nat, n = resends + 1, resends' = n,
         UNCHANGED <<pc, task, remembered, stage>>,
         NEW p \in Payload, NEW q \in Payload, q.job = p.job, tasks' = Append(tasks, q),
         processing' = RemoveFirst(processing, p) \/ processing' = processing,
         claims' = [claims EXCEPT ![p.job] = NoClaim],
         NEW j \in Jobs, Balanced(j)
  PROVE  Balanced(j)'
<1>1. /\ p.job \in Jobs /\ claims \in [Jobs -> Claim \cup {NoClaim}]
      /\ tasks \in Seq(Payload) /\ processing \in Seq(Payload) /\ processing' \in Seq(Payload)
  BY DEF TypeOK, StoreTypeOK, Payload
<1>2. resends' \in Nat /\ resends <= resends'
  <2>1. \A k \in Nat : k = resends /\ n = k + 1 => k <= n
    OBVIOUS
  <2>2. resends <= n
    BY <2>1
  <2> QED BY <2>2
<1>3. CASE p.job # j
  <2>1. ListsOf(p.job)
    BY DEF ListsOf
  <2>2. claims'[j] = claims[j]
    BY <1>1, <1>3
  <2>3. \A v \in Workers : pc'[v] = pc[v] /\ task'[v] = task[v] /\ remembered'[v] = remembered[v]
    OBVIOUS
  <2> HIDE DEF Responsible
  <2> QED BY <1>2, <1>3, <2>1, <2>2, <2>3, OtherJobBalance
<1>4. CASE p.job = j
  <2>1. RolesKept(j)
    <3>1. ClaimsDropped
      BY <1>1 DEF ClaimsDropped
    <3>2. \A v \in Workers : pc'[v] = pc[v] /\ task'[v] = task[v] /\ remembered'[v] = remembered[v]
      OBVIOUS
    <3> HIDE DEF GoesOn
    <3> QED BY <3>1, <3>2, DroppedClaimsKeepRoles
  <2>2. Allowed(j)' = Allowed(j) + 1
    BY AllowedMore
  <2>3. p \in TextsOf(j) /\ q \in TextsOf(j)
    BY <1>4 DEF TextsOf
  <2>4. PICK P, B, T, m, k, B1, T1, m1, r, a, b, c :
          /\ r = processing' /\ P = TextsOf(j) /\ B = Blanks(j) /\ T = Takers(j)
          /\ m = CopiesOf(j) /\ k = Allowed(j)
          /\ B1 = Blanks(j)' /\ T1 = Takers(j)' /\ m1 = CopiesOf(j)'
          /\ a = Occurrences(tasks, TextsOf(j)) /\ b = Occurrences(processing, TextsOf(j))
          /\ c = Occurrences(r, TextsOf(j))
    OBVIOUS
  <2>5. \A S : Occurrences(tasks, S) \in Nat /\ Occurrences(processing, S) \in Nat
               /\ Occurrences(r, S) \in Nat
    BY <1>1, <2>4, OccurrencesType
  <2>6. Occurrences(Append(tasks, q), TextsOf(j)) = a + 1
    <3>1. tasks \in Seq(Payload) /\ q \in TextsOf(j) /\ TextsOf(j) \subseteq Payload
      BY <1>1, <2>3 DEF TextsOf
    <3>2. \A S : q \in S => Occurrences(Append(tasks, q), S) = Occurrences(tasks, S) + 1
      BY <3>1, AppendOccurs
    <3> QED BY <2>4, <3>1, <3>2
  <2>7. CopyCount(j) = a + b /\ CopyCount(j)' = a + 1 + c
    <3>1. CopyCount(j)' = Occurrences(tasks', TextsOf(j)) + Occurrences(processing', TextsOf(j))
      BY DEF CopyCount, TextsOf
    <3>2. CopyCount(j) = a + b
      BY <2>4 DEF CopyCount
    <3> QED BY <2>4, <2>6, <3>1, <3>2
  <2>8. \A x \in P : /\ m[x] = Occurrences(processing, {x}) /\ m[x] \in Nat
                     /\ m1[x] = Occurrences(r, {x}) /\ m1[x] \in Nat
    BY <2>4, <2>5 DEF CopiesOf, TextsOf
  <2>9. BalancedType(j) /\ BalancedType(j)'
    BY <1>2, BalancedTypes
  <2>10. k \in Int /\ a \in Nat /\ b \in Nat /\ c \in Nat /\ m[p] \in Nat /\ m1[p] \in Nat
    <3>1. k \in Int
      BY <2>4, <2>9 DEF BalancedType, BalanceType
    <3> QED BY <2>3, <2>4, <2>5, <2>8, <3>1
  <2>11. CASE r = RemoveFirst(processing, p) /\ p \in Range(processing)
    <3>1. \A S : IF p \in S THEN Occurrences(r, S) = Occurrences(processing, S) - 1
                 ELSE Occurrences(r, S) = Occurrences(processing, S)
      BY <1>1, <2>11, RemoveFirstOccurs
    <3>2. /\ c = b - 1 /\ m1[p] = m[p] - 1
          /\ \A x \in P \ {p} : m1[x] = m[x]
      BY <2>3, <2>4, <2>8, <3>1
    <3>3. \A x \in P \ {p} : m[x] <= m1[x]
      <4>1. \A i \in Nat : i <= i
        OBVIOUS
      <4> QED BY <2>8, <3>2, <4>1
    <3>4. m[p] <= m1[p] + 1
      BY <2>10, <3>2
    <3>5. a + 1 + c + k + 1 <= a + b + (k + 1)
      BY <2>10, <3>2
    <3> HIDE DEF Takers, Blanks, TakesCopy, Blank, ClaimTakes
    <3>6. \A v \in Workers : /\ \A x : TakesCopy(v, x)' <=> TakesCopy(v, x)
                             /\ Blank(v)' <=> Blank(v)
                             /\ task'[v] = task[v]
      BY WorkersStay
    <3>7. B1 \subseteq B
      <4>1. ASSUME NEW x \in B1 PROVE x \in B
        <5>1. PICK v \in Workers : x = {v} /\ Blank(v)' /\ task'[v].job = j
          BY <2>4, BlanksAre
        <5>2. Blank(v) /\ task[v].job = j
          BY <3>6, <5>1
        <5> QED BY <2>4, <5>1, <5>2, BlanksAre
      <4> QED BY <4>1
    <3>8. \A x \in P : T1[x] \subseteq T[x]
      <4>1. ASSUME NEW x \in TextsOf(j), NEW t \in Takers(j)'[x] PROVE t \in Takers(j)[x]
        <5>1. CASE \E v \in Workers : t = {v} /\ TakesCopy(v, x)'
          <6>1. PICK v \in Workers : t = {v} /\ TakesCopy(v, x)'
            BY <5>1
          <6>2. TakesCopy(v, x)
            BY <3>6, <6>1
          <6> QED BY <6>1, <6>2, TokensAre
        <5>2. CASE t = {} /\ ClaimTakes(x)'
          <6>1. ClaimTakes(x)
            BY <2>1, <5>2 DEF RolesKept
          <6> QED BY <5>2, <6>1, TokensAre
        <5> QED BY <4>1, <5>1, <5>2, TokensAre
      <4> QED BY <2>4, <4>1
    <3> HIDE DEF CopiesOf, CopyCount, Allowed, TextsOf
    <3>9. TextsOf(j)' = P
      BY <2>4 DEF TextsOf
    <3>10. Balance(P, B, T, m, a + b, k) /\ BalanceType(P, B, T, m, a + b, k)
      BY <2>4, <2>7, <2>9 DEF Balanced, BalancedType
    <3>11. BalanceType(P, B1, T1, m1, a + 1 + c, k + 1)
      BY <2>2, <2>4, <2>7, <2>9, <3>9 DEF BalancedType
    <3>12. p \in P
      BY <2>3, <2>4
    <3>13. Balance(P, B1, T1, m1, a + 1 + c, k + 1)
      BY <3>3, <3>4, <3>5, <3>7, <3>8, <3>10, <3>11, <3>12, CopyLost
    <3> QED BY <2>2, <2>4, <2>7, <3>9, <3>13 DEF Balanced
  <2>12. CASE ~(r = RemoveFirst(processing, p) /\ p \in Range(processing))
    <3>1. \A S : Occurrences(r, S) = Occurrences(processing, S)
      <4>1. CASE r = processing
        BY <4>1
      <4>2. CASE r = RemoveFirst(processing, p) /\ p \notin Range(processing)
        BY <1>1, <4>2, RemoveFirstOccurs
      <4> QED BY <2>4, <2>12, <4>1, <4>2
    <3>2. c = b /\ CopiesKept(j)
      <4>1. \A i \in Nat : i <= i
        OBVIOUS
      <4>2. \A S : Occurrences(processing, S) <= Occurrences(processing', S)
        BY <2>4, <2>5, <3>1, <4>1
      <4> QED BY <2>4, <3>1, <4>2 DEF CopiesKept
    <3>3. a + 1 + c + k <= a + b + (k + 1)
      BY <2>10, <3>2
    <3>4. CopyCount(j)' + Allowed(j) <= CopyCount(j) + Allowed(j)'
      BY <2>2, <2>4, <2>7, <3>3
    <3> QED BY <1>2, <2>1, <3>2, <3>4, RolesKeptBalance
  <2> QED BY <2>11, <2>12
<1> QED BY <1>3, <1>4

(* A worker that is where it was before may take what another one did: that *)
(* is paid for by the command executed again.                               *)
LEMMA SteppedBackBalance ==
  ASSUME TypeOK, TypeOK', resends \in Nat, NEW l \in Nat, l = resends + 1, resends' = l,
         UNCHANGED <<tasks, processing, claims, stage>>,
         NEW w \in Workers, OnlyMoves(w),
         Covering(w) => Covering(w)' /\ task'[w] = task[w],
         NEW j \in Jobs, Balanced(j)
  PROVE  Balanced(j)'
<1> HIDE DEF Takers, Blanks, TakesCopy, Blank, ClaimTakes
<1>1. \A v \in Workers \ {w} : /\ \A q : TakesCopy(v, q)' <=> TakesCopy(v, q)
                               /\ Blank(v)' <=> Blank(v)
                               /\ task'[v] = task[v]
                               /\ Covering(v)' <=> Covering(v)
  BY OthersStay
<1>2. \A p \in TextsOf(j) : ClaimTakes(p)' => ClaimTakes(p)
  <2>1. ClaimsDropped
    BY DEF ClaimsDropped
  <2>2. \A v \in Workers : Covering(v) => Covering(v)' /\ task'[v] = task[v]
    <3> HIDE DEF Covering
    <3> QED BY <1>1
  <2> HIDE DEF Covering
  <2> QED BY <2>1, <2>2, CoveredStays
<1>3. Allowed(j)' = Allowed(j) + 1
  BY AllowedMore
<1>4. CopiesOf(j)' = CopiesOf(j) /\ CopyCount(j)' = CopyCount(j)
  BY DEF CopiesOf, CopyCount, TextsOf
<1>5. resends' \in Nat
  OBVIOUS
<1>6. BalancedType(j) /\ BalancedType(j)'
  BY <1>5, BalancedTypes
<1>7. PICK P, B, T, m, n, k, B1, T1 :
        /\ P = TextsOf(j) /\ B = Blanks(j) /\ T = Takers(j) /\ m = CopiesOf(j)
        /\ n = CopyCount(j) /\ k = Allowed(j)
        /\ B1 = Blanks(j)' /\ T1 = Takers(j)'
  OBVIOUS
<1>8. PICK t \in Tokens : t = {w}
  BY DEF Tokens
<1>9. ASSUME NEW p \in TextsOf(j), NEW x \in Takers(j)'[p] PROVE x \in Takers(j)[p] \cup {t}
  <2>1. CASE \E v \in Workers : x = {v} /\ TakesCopy(v, p)'
    <3>1. PICK v \in Workers : x = {v} /\ TakesCopy(v, p)'
      BY <2>1
    <3>2. CASE v = w
      BY <1>8, <3>1, <3>2
    <3>3. CASE v # w
      <4>1. TakesCopy(v, p)
        BY <1>1, <3>1, <3>3
      <4> QED BY <3>1, <4>1, TokensAre
    <3> QED BY <3>2, <3>3
  <2>2. CASE x = {} /\ ClaimTakes(p)'
    BY <1>2, <2>2, TokensAre
  <2> QED BY <1>9, <2>1, <2>2, TokensAre
<1>10. ASSUME NEW x \in Blanks(j)' PROVE x \in Blanks(j) \cup {t}
  <2>1. PICK v \in Workers : x = {v} /\ Blank(v)' /\ task'[v].job = j
    BY BlanksAre
  <2>2. CASE v = w
    BY <1>8, <2>1, <2>2
  <2>3. CASE v # w
    <3>1. Blank(v) /\ task[v].job = j
      BY <1>1, <2>1, <2>3
    <3> QED BY <2>1, <3>1, BlanksAre
  <2> QED BY <2>2, <2>3
<1> HIDE DEF CopiesOf, CopyCount, Allowed, TextsOf
<1>11. TextsOf(j)' = P
  BY <1>7 DEF TextsOf
<1>12. /\ Balance(P, B, T, m, n, k)
       /\ BalanceType(P, B, T, m, n, k) /\ BalanceType(P, B1, T1, m, n, k + 1)
  BY <1>3, <1>4, <1>6, <1>7, <1>11 DEF Balanced, BalancedType
<1>13. n + k + 1 <= n + (k + 1) /\ \A p \in P : m[p] <= m[p]
  BY <1>12 DEF BalanceType
<1>14. /\ B1 \subseteq B \cup {t}
       /\ \A p \in P : T1[p] \subseteq T[p] \cup {t} /\ m[p] <= m[p]
  BY <1>7, <1>9, <1>10, <1>13
<1>15. Balance(P, B1, T1, m, n, k + 1)
  BY <1>12, <1>13, <1>14, NewDebt
<1> QED BY <1>3, <1>4, <1>7, <1>11, <1>15 DEF Balanced

(* A job that is pushed where there is room for it *)
LEMMA PushedBalance ==
  ASSUME TypeOK, TypeOK', resends \in Nat, resends' \in Nat,
         UNCHANGED <<processing, claims, pc, task, remembered>>,
         NEW p \in Payload, tasks' = Append(tasks, p), NEW j \in Jobs, Balanced(j),
         p.job = j => Allowed(j)' = Allowed(j) + 1,
         p.job # j => Allowed(j) <= Allowed(j)'
  PROVE  Balanced(j)'
<1>1. RolesKept(j)
  <2>1. ClaimsDropped
    BY DEF ClaimsDropped
  <2>2. \A v \in Workers : pc'[v] = pc[v] /\ task'[v] = task[v] /\ remembered'[v] = remembered[v]
    OBVIOUS
  <2> HIDE DEF GoesOn
  <2> QED BY <2>1, <2>2, DroppedClaimsKeepRoles
<1>2. tasks \in Seq(Payload) /\ processing \in Seq(Payload)
  BY DEF TypeOK, StoreTypeOK
<1>3. \A S : Occurrences(tasks, S) \in Nat /\ Occurrences(processing, S) \in Nat
  BY <1>2, OccurrencesType
<1>4. CopiesKept(j)
  <2>1. \A n \in Nat : n <= n
    OBVIOUS
  <2> QED BY <1>3, <2>1 DEF CopiesKept
<1>5. PICK a, b, c, k, l :
        /\ a = Occurrences(tasks, TextsOf(j)) /\ b = Occurrences(processing, TextsOf(j))
        /\ c = Occurrences(Append(tasks, p), TextsOf(j))
        /\ k = Allowed(j) /\ l = Allowed(j)'
  OBVIOUS
<1>6. \/ p.job = j /\ c = a + 1
      \/ p.job # j /\ c = a
  BY <1>2, <1>5, PushedCopies
<1>7. CopyCount(j) = a + b /\ CopyCount(j)' = c + b /\ a \in Nat /\ b \in Nat
  <2>1. CopyCount(j)' = Occurrences(tasks', TextsOf(j)) + Occurrences(processing', TextsOf(j))
    BY DEF CopyCount, TextsOf
  <2>2. CopyCount(j) = a + b
    BY <1>5 DEF CopyCount
  <2> QED BY <1>3, <1>5, <2>1, <2>2
<1>8. k \in Int /\ l \in Int
  BY <1>5, BalancedTypes DEF BalancedType, BalanceType
<1>9. c + b + k <= a + b + l
  <2>1. (p.job = j => l = k + 1) /\ (p.job # j => k <= l)
    BY <1>5
  <2> QED BY <1>6, <1>7, <1>8, <2>1
<1>10. CopyCount(j)' + Allowed(j) <= CopyCount(j) + Allowed(j)'
  BY <1>5, <1>7, <1>9
<1> QED BY <1>1, <1>4, <1>10, RolesKeptBalance

(* The step of a worker that each command belongs to *)
Edges ==
  {<<"idle", "record_claim">>, <<"record_claim", "mark_started">>,
   <<"mark_started", "save_processing">>, <<"save_processing", "count_attempt">>,
   <<"count_attempt", "observe_wait">>, <<"observe_wait", "generate">>,
   <<"generate", "count_completed">>, <<"generate", "handle_error">>,
   <<"count_completed", "record_duration">>, <<"handle_error", "count_retry">>,
   <<"handle_error", "count_failed">>, <<"count_retry", "record_duration">>,
   <<"count_failed", "count_dead">>, <<"count_dead", "record_duration">>,
   <<"record_duration", "idle">>}

(* A command that may be sent again led where its worker is now. *)
CameFrom(w) ==
  sent[w] # NoCommand =>
    /\ <<sent[w].pc, pc[w]>> \in Edges
    /\ sent[w].pc = "idle" \/ pc[w] = "idle" \/ sent[w].task = task[w]

(* The claims a reaper has scanned, or will have again when a script is *)
(* executed again.                                                      *)
Scanned(r) ==
  snapshot[r] \cup (IF sent[r] = NoCommand THEN {} ELSE sent[r].snapshot)

NotScanned(c) == \A r \in Reapers : c \notin Scanned(r)

(* A claim lies under its own job, and its worker has read no later time *)
(* since.                                                                *)
Dated(c) == c.reading <= reading[c.worker]

ClaimsDated == \A j \in Jobs : claims[j] # NoClaim => claims[j].payload.job = j /\ Dated(claims[j])

(* A scanned claim that still stands is of a worker that has stopped. *)
ScannedStale ==
  \A r \in Reapers : \A c \in Scanned(r) :
    Dated(c) /\ (claims[c.payload.job] = c => ~CoveredClaim(c))

(* The claim that an HSET executed again would write has not been scanned.  *)
Rewriting(w) == sent[w] # NoCommand /\ pc[w] \in {"mark_started", "save_processing"}
Built(w) == ClaimOf(w, sent[w].task, pc[w] = "save_processing", sent[w].reading + 1)
BuiltFresh(w) == Rewriting(w) => Dated(Built(w)) /\ NotScanned(Built(w))

(* A worker that has acknowledged its payload, and may yet be where it had  *)
(* not, has no claim on it.                                                 *)
OwnsClaim(w) ==
  LET c == claims[task[w].job] IN c # NoClaim /\ c.worker = w /\ c.payload = task[w]

Acked(w) ==
  \/ pc[w] = "count_completed"
  \/ /\ pc[w] # "idle" /\ ~Executing(w) /\ sent[w] # NoCommand
     /\ sent[w].pc \in {"generate", "handle_error", "count_completed"}

ClaimsInv ==
  /\ \A w \in Workers : CameFrom(w) /\ BuiltFresh(w) /\ (Acked(w) => ~OwnsClaim(w))
  /\ ClaimsDated
  /\ ScannedStale

(* What the claims and the scans are when a worker moves.                   *)
LEMMA WorkerKeepsClaims ==
  ASSUME ResendInv, ResendInv', ClaimsInv, NEW w \in Workers, OnlyMoves(w), UNCHANGED snapshot,
         \A q \in (Workers \cup Reapers) \ {w} : sent'[q] = sent[q],
         \A v \in Workers : reading[v] <= reading'[v] /\ (v # w => reading'[v] = reading[v]),
         \/ ClaimsDropped
         \/ \E c \in Claim : /\ claims' = [claims EXCEPT ![c.payload.job] = c]
                             /\ c.worker = w /\ Dated(c)' /\ NotScanned(c),
         Covering(w)' => \/ Covering(w) /\ task'[w] = task[w]
                         \/ ~OwnsClaim(w)'
                         \/ \E c \in Claim : claims'[task'[w].job] = c /\ NotScanned(c),
         CameFrom(w)', BuiltFresh(w)', Acked(w)' => ~OwnsClaim(w)'
  PROVE  ClaimsInv'
<1> HIDE DEF Edges
<1>1. \A r \in Reapers : sent'[r] = sent[r] /\ Scanned(r)' = Scanned(r)
  BY WorkersAreNotReapers DEF Scanned
<1>2. \A c : NotScanned(c)' <=> NotScanned(c)
  BY <1>1 DEF NotScanned
<1>3. /\ claims \in [Jobs -> Claim \cup {NoClaim}] /\ claims' \in [Jobs -> Claim \cup {NoClaim}]
      /\ reading \in [Workers -> Nat] /\ reading' \in [Workers -> Nat]
      /\ \A c \in Claim : c.worker \in Workers /\ c.reading \in Nat /\ c.payload.job \in Jobs
      /\ \A r \in Reapers : Scanned(r) \subseteq Claim
  <2>1. /\ claims \in [Jobs -> Claim \cup {NoClaim}] /\ claims' \in [Jobs -> Claim \cup {NoClaim}]
        /\ reading \in [Workers -> Nat] /\ reading' \in [Workers -> Nat]
        /\ snapshot \in [Reapers -> SUBSET Claim]
    BY DEF ResendInv, IInv, TypeOK, StoreTypeOK, WorkerTypeOK, ReaperTypeOK
  <2>2. \A r \in Reapers : Scanned(r) \subseteq Claim
    BY <2>1 DEF Scanned, ResendInv, SentOK, ReaperWas
  <2> QED BY <2>1, <2>2 DEF Claim, Payload
<1>4. \A c \in Claim : Dated(c) => Dated(c)'
  <2>1. \A m, k, l \in Nat : m <= k /\ k <= l => m <= l
    OBVIOUS
  <2>2. ASSUME NEW c \in Claim, Dated(c) PROVE Dated(c)'
    <3>1. c.worker \in Workers /\ c.reading \in Nat
      BY <1>3
    <3>2. c.reading <= reading[c.worker] /\ reading[c.worker] <= reading'[c.worker]
      BY <2>2, <3>1 DEF Dated
    <3>3. reading[c.worker] \in Nat /\ reading'[c.worker] \in Nat
      BY <1>3, <3>1
    <3>4. c.reading <= reading'[c.worker]
      BY <2>1, <3>1, <3>2, <3>3
    <3> QED BY <3>4 DEF Dated
  <2> QED BY <2>2
<1>5. ASSUME NEW j \in Jobs, claims'[j] # NoClaim
      PROVE  \/ claims'[j] = claims[j]
             \/ \E c \in Claim : /\ claims'[j] = c /\ c.payload.job = j
                                 /\ c.worker = w /\ Dated(c)' /\ NotScanned(c)
  <2>1. CASE ClaimsDropped
    BY <1>5, <2>1 DEF ClaimsDropped
  <2>2. ASSUME NEW c \in Claim, claims' = [claims EXCEPT ![c.payload.job] = c],
               c.worker = w, Dated(c)', NotScanned(c)
        PROVE  claims'[j] = claims[j] \/ (claims'[j] = c /\ c.payload.job = j)
    BY <1>3, <2>2
  <2> HIDE DEF Dated, NotScanned
  <2> QED BY <2>1, <2>2
<1>6. ClaimsDated'
  <2>1. ASSUME NEW j \in Jobs, claims'[j] # NoClaim
        PROVE  claims'[j].payload.job = j /\ claims'[j].reading <= reading'[claims'[j].worker]
    <3>1. PICK d \in Claim : d = claims'[j]
      BY <1>3, <2>1
    <3>2. CASE claims'[j] = claims[j]
      <4>1. d.payload.job = j /\ Dated(d)
        BY <2>1, <3>1, <3>2 DEF ClaimsInv, ClaimsDated
      <4>2. Dated(d)'
        BY <1>4, <4>1
      <4> QED BY <3>1, <4>1, <4>2 DEF Dated
    <3>3. CASE \E c \in Claim : /\ claims'[j] = c /\ c.payload.job = j
                                /\ c.worker = w /\ Dated(c)' /\ NotScanned(c)
      BY <3>3 DEF Dated
    <3> QED BY <1>5, <2>1, <3>2, <3>3
  <2> QED BY <2>1 DEF ClaimsDated, Dated
<1>7. \A v \in Workers \ {w} : /\ \A p : TakesCopy(v, p)' <=> TakesCopy(v, p)
                               /\ Blank(v)' <=> Blank(v)
                               /\ task'[v] = task[v]
                               /\ Covering(v)' <=> Covering(v)
  BY OthersStay
<1>8. ScannedStale'
  <2>1. ASSUME NEW r \in Reapers, NEW c \in Scanned(r), claims'[c.payload.job] = c
        PROVE  ~(Covering(c.worker)' /\ task'[c.worker] = c.payload)
    <3>1. c \in Claim /\ c # NoClaim /\ c.payload.job \in Jobs /\ c.worker \in Workers
      BY <1>3, NoClaimIsNone
    <3>2. ~NotScanned(c)
      BY <2>1 DEF NotScanned
    <3>3. claims[c.payload.job] = c
      BY <1>5, <2>1, <3>1, <3>2
    <3>4. ~CoveredClaim(c)
      BY <3>3 DEF ClaimsInv, ScannedStale
    <3> HIDE DEF Covering
    <3>5. CASE c.worker # w
      BY <1>7, <3>1, <3>4, <3>5 DEF CoveredClaim
    <3>6. CASE c.worker = w
      <4>1. SUFFICES ASSUME Covering(w)', task'[w] = c.payload PROVE FALSE
        BY <3>6
      <4>2. OwnsClaim(w)'
        <5>1. claims'[task'[w].job] = c
          BY <2>1, <4>1
        <5> QED BY <3>1, <3>6, <4>1, <5>1 DEF OwnsClaim
      <4>3. CASE Covering(w) /\ task'[w] = task[w]
        BY <3>4, <3>6, <4>1, <4>3 DEF CoveredClaim
      <4>4. CASE \E d \in Claim : claims'[task'[w].job] = d /\ NotScanned(d)
        <5> HIDE DEF NotScanned
        <5> QED BY <2>1, <3>2, <4>1, <4>4
      <4> QED BY <4>1, <4>2, <4>3, <4>4
    <3> QED BY <3>5, <3>6
  <2>2. ASSUME NEW r \in Reapers, NEW c \in Scanned(r)
        PROVE  Dated(c)' /\ (claims'[c.payload.job] = c => ~CoveredClaim(c)')
    <3>1. Dated(c)'
      BY <1>3, <1>4 DEF ClaimsInv, ScannedStale
    <3>2. CoveredClaim(c)' <=> (Covering(c.worker)' /\ task'[c.worker] = c.payload)
      BY DEF CoveredClaim, Covering, Executing
    <3> HIDE DEF CoveredClaim, Covering, Dated
    <3> QED BY <2>1, <3>1, <3>2
  <2> HIDE DEF CoveredClaim, Dated, Scanned
  <2> QED BY <1>1, <2>2 DEF ScannedStale
<1>9. ASSUME NEW v \in Workers PROVE (CameFrom(v) /\ BuiltFresh(v) /\ (Acked(v) => ~OwnsClaim(v)))'
  <2>1. CASE v = w
    BY <2>1
  <2>2. CASE v # w
    <3>1. /\ sent'[v] = sent[v] /\ pc'[v] = pc[v] /\ task'[v] = task[v]
          /\ reading'[v] = reading[v]
      BY <2>2 DEF OnlyMoves
    <3>2. CameFrom(v)'
      BY <3>1 DEF ClaimsInv, CameFrom
    <3>3. BuiltFresh(v)'
      <4>1. Rewriting(v)' <=> Rewriting(v)
        BY <3>1 DEF Rewriting
      <4>2. Built(v)' = Built(v)
        BY <3>1 DEF Built, ClaimOf
      <4>3. BuiltFresh(v)
        BY DEF ClaimsInv
      <4>4. Built(v).worker = v /\ Built(v).reading = sent[v].reading + 1
        BY DEF Built, ClaimOf
      <4>5. Dated(Built(v)) <=> Dated(Built(v))'
        <5>1. Dated(Built(v)) <=> sent[v].reading + 1 <= reading[v]
          BY <4>4 DEF Dated
        <5>2. Dated(Built(v))' <=> sent[v].reading + 1 <= reading[v]
          BY <3>1 DEF Dated, Built, ClaimOf
        <5> QED BY <5>1, <5>2
      <4>6. NotScanned(Built(v)) <=> NotScanned(Built(v))'
        BY <1>1, <4>2 DEF NotScanned
      <4> HIDE DEF Dated, NotScanned, Built, Rewriting
      <4> QED BY <4>1, <4>3, <4>5, <4>6 DEF BuiltFresh
    <3>4. Acked(v)' => ~OwnsClaim(v)'
      <4>1. SUFFICES ASSUME Acked(v)', OwnsClaim(v)' PROVE FALSE
        OBVIOUS
      <4>2. Acked(v) /\ task[v].job \in Jobs
        <5>1. Acked(v)
          BY <3>1, <4>1 DEF Acked, Executing
        <5>2. pc[v] # "idle"
          BY <5>1 DEF Acked
        <5> QED BY <5>1, <5>2 DEF ResendInv, IInv, TypeOK, WorkerTypeOK, Payload
      <4>3. PICK d : d = claims'[task[v].job] /\ d # NoClaim /\ d.worker = v /\ d.payload = task[v]
        BY <3>1, <4>1 DEF OwnsClaim
      <4>4. claims[task[v].job] = d
        BY <1>5, <2>2, <4>2, <4>3
      <4>5. OwnsClaim(v)
        BY <4>3, <4>4 DEF OwnsClaim
      <4> QED BY <4>2, <4>5 DEF ClaimsInv
    <3> QED BY <3>2, <3>3, <3>4
  <2> QED BY <2>1, <2>2
<1> HIDE DEF CameFrom, BuiltFresh, Acked, OwnsClaim
<1> QED BY <1>6, <1>8, <1>9 DEF ClaimsInv

(* Where a step of a worker leads, what it does to the claims, and which of *)
(* its steps make it cover its claim, or leave it without one.              *)
LEMMA WorkerMoves ==
  ASSUME TypeOK, NEW w \in Workers, WorkerStep(w) \/ Crash(w)
  PROVE  /\ OnlyMoves(w)
         /\ pc'[w] \in WorkerPcs
         /\ store' # store => <<pc[w], pc'[w]>> \in Edges
         /\ pc[w] = "idle" \/ pc'[w] = "idle" \/ task'[w] = task[w]
         /\ \/ /\ reading' = reading /\ ClaimsDropped
               /\ pc'[w] \notin {"mark_started", "save_processing"}
               /\ Covering(w)' => task'[w] = task[w] /\ (Covering(w) \/ pc[w] = "count_completed")
               /\ pc'[w] = "count_completed" => claims'[task'[w].job] = NoClaim
               /\ pc[w] = "handle_error" /\ store' # store => claims'[task'[w].job] = NoClaim
               /\ pc[w] = "generate" /\ store' # store => claims'[task'[w].job] = NoClaim
               /\ pc[w] = "count_completed" => claims' = claims /\ (pc'[w] = "idle" \/ task' = task)
            \/ \E started \in BOOLEAN :
                 /\ WriteClaim(w, started)
                 /\ pc[w] \in {"record_claim", "mark_started"}
                 /\ pc'[w] = IF started THEN "save_processing" ELSE "mark_started"
<1>1. /\ pc \in [Workers -> WorkerPcs] /\ task \in [Workers -> Payload \cup {NoTask}]
      /\ remembered \in [Workers -> BOOLEAN] /\ claims \in [Jobs -> Claim \cup {NoClaim}]
      /\ pc[w] # "idle" => task[w] \in Payload /\ task[w].job \in Jobs
  BY DEF TypeOK, StoreTypeOK, WorkerTypeOK, Payload
<1>2. CASE RecordClaim(w) \/ MarkStarted(w)
  <2>1. PICK started \in BOOLEAN :
          /\ WriteClaim(w, started)
          /\ pc[w] = IF started THEN "mark_started" ELSE "record_claim"
          /\ pc' = [pc EXCEPT ![w] = IF started THEN "save_processing" ELSE "mark_started"]
    BY <1>2 DEF RecordClaim, MarkStarted, Goto
  <2>2. task' = task /\ remembered' = remembered
    BY <2>1 DEF WriteClaim
  <2>3. <<pc[w], pc'[w]>> \in Edges /\ pc'[w] \in WorkerPcs
    BY <1>1, <2>1 DEF Edges, WorkerPcs
  <2>4. OnlyMoves(w)
    BY <1>1, <2>1, <2>2 DEF OnlyMoves
  <2>5. /\ pc[w] \in {"record_claim", "mark_started"}
        /\ pc'[w] = IF started THEN "save_processing" ELSE "mark_started"
    BY <1>1, <2>1
  <2> HIDE DEF WriteClaim, OnlyMoves, Edges
  <2> QED BY <2>1, <2>2, <2>3, <2>4, <2>5
<1>3. CASE ~(RecordClaim(w) \/ MarkStarted(w))
  <2>1. OnlyMoves(w)
    BY <1>1, <1>3 DEF OnlyMoves, WorkerStep, Dequeue, SaveProcessing, CountAttempt, ObserveWait,
       InferenceFails, SaveResult, SaveResultReplyLost, StoreResult, CountCompleted,
       CountCompletedFails, Requeue, CountRetry, SetError, CountFailed, CountDead, HandlerFails,
       RecordDuration, Crash, Reset, Forget, CountStep, Goto
  <2>2. /\ pc'[w] \in WorkerPcs
        /\ store' # store => <<pc[w], pc'[w]>> \in Edges
        /\ pc[w] = "idle" \/ pc'[w] = "idle" \/ task'[w] = task[w]
        /\ pc'[w] \notin {"mark_started", "save_processing"}
    <3>1. CASE Dequeue(w)
      BY <1>1, <3>1 DEF Dequeue, Goto, Edges, WorkerPcs
    <3>2. CASE SaveProcessing(w) \/ CountAttempt(w) \/ ObserveWait(w) \/ CountCompleted(w)
               \/ CountRetry(w) \/ CountFailed(w) \/ CountDead(w)
      BY <1>1, <3>2 DEF SaveProcessing, CountAttempt, ObserveWait, CountCompleted, CountRetry,
         CountFailed, CountDead, CountStep, Goto, Edges, WorkerPcs
    <3>3. CASE InferenceFails(w) \/ CountCompletedFails(w) \/ HandlerFails(w)
      BY <1>1, <3>3 DEF InferenceFails, CountCompletedFails, HandlerFails, Goto, Edges, WorkerPcs
    <3>4. CASE SaveResult(w) \/ SaveResultReplyLost(w)
      BY <1>1, <3>4 DEF SaveResult, SaveResultReplyLost, StoreResult, Goto, Edges, WorkerPcs
    <3>5. CASE Requeue(w) \/ SetError(w)
      BY <1>1, <3>5 DEF Requeue, SetError, Goto, Edges, WorkerPcs
    <3>6. CASE RecordDuration(w) \/ Crash(w)
      BY <1>1, <3>6 DEF RecordDuration, Crash, Reset, Edges, WorkerPcs
    <3> QED BY <1>3, <3>1, <3>2, <3>3, <3>4, <3>5, <3>6 DEF WorkerStep
  <2>3. reading' = reading /\ ClaimsDropped
    <3>1. reading' = reading
      BY <1>3 DEF WorkerStep, Dequeue, SaveProcessing, CountAttempt, ObserveWait,
         InferenceFails, SaveResult, SaveResultReplyLost, StoreResult, CountCompleted,
         CountCompletedFails, Requeue, CountRetry, SetError, CountFailed, CountDead, HandlerFails,
         RecordDuration, Crash, Reset, CountStep
    <3>2. CASE claims' = claims
      BY <3>1, <3>2 DEF ClaimsDropped
    <3>3. CASE SaveResult(w) \/ SaveResultReplyLost(w) \/ Requeue(w) \/ SetError(w)
      <4>1. claims' = [claims EXCEPT ![task[w].job] = NoClaim]
        BY <3>3 DEF SaveResult, SaveResultReplyLost, StoreResult, Requeue, SetError, Ack, DropClaim
      <4> QED BY <1>1, <3>1, <4>1 DEF ClaimsDropped
    <3> QED BY <1>3, <3>1, <3>2, <3>3 DEF WorkerStep, Dequeue, SaveProcessing, CountAttempt,
         ObserveWait, InferenceFails, CountCompleted, CountCompletedFails, CountRetry, CountFailed,
         CountDead, HandlerFails, RecordDuration, Crash, CountStep, store
  <2>4. Covering(w)' => task'[w] = task[w] /\ (Covering(w) \/ pc[w] = "count_completed")
    <3>1. CASE Dequeue(w) \/ RecordDuration(w) \/ Crash(w)
      BY <1>1, <3>1 DEF Covering, Executing, Dequeue, RecordDuration, Crash, Reset, Goto
    <3>2. CASE SaveProcessing(w) \/ CountAttempt(w) \/ ObserveWait(w) \/ CountCompleted(w)
               \/ CountRetry(w) \/ CountFailed(w) \/ CountDead(w)
      BY <1>1, <3>2 DEF Covering, Executing, SaveProcessing, CountAttempt, ObserveWait,
         CountCompleted, CountRetry, CountFailed, CountDead, CountStep, Goto
    <3>3. CASE InferenceFails(w) \/ CountCompletedFails(w) \/ HandlerFails(w)
      BY <1>1, <3>3 DEF Covering, Executing, InferenceFails, CountCompletedFails, HandlerFails, Goto
    <3>4. CASE SaveResult(w) \/ SaveResultReplyLost(w) \/ Requeue(w) \/ SetError(w)
      BY <1>1, <3>4 DEF Covering, Executing, SaveResult, SaveResultReplyLost, StoreResult,
         Requeue, SetError, Goto
    <3> QED BY <1>3, <3>1, <3>2, <3>3, <3>4 DEF WorkerStep
  <2>5. /\ pc'[w] = "count_completed" => claims'[task'[w].job] = NoClaim
        /\ pc[w] = "handle_error" /\ store' # store => claims'[task'[w].job] = NoClaim
        /\ pc[w] = "generate" /\ store' # store => claims'[task'[w].job] = NoClaim
        /\ pc[w] = "count_completed" => claims' = claims /\ (pc'[w] = "idle" \/ task' = task)
    <3>1. CASE Dequeue(w) \/ RecordDuration(w)
      BY <1>1, <3>1 DEF Dequeue, RecordDuration, Reset, Goto
    <3>2. CASE SaveProcessing(w) \/ CountAttempt(w) \/ ObserveWait(w) \/ CountCompleted(w)
               \/ CountRetry(w) \/ CountFailed(w) \/ CountDead(w)
      BY <1>1, <3>2 DEF SaveProcessing, CountAttempt, ObserveWait,
         CountCompleted, CountRetry, CountFailed, CountDead, CountStep, Goto
    <3>3. CASE InferenceFails(w) \/ CountCompletedFails(w) \/ HandlerFails(w)
      BY <1>1, <3>3 DEF InferenceFails, CountCompletedFails, HandlerFails, Goto, store
    <3>4. CASE SaveResult(w) \/ SaveResultReplyLost(w) \/ Requeue(w) \/ SetError(w)
      <4>1. claims' = [claims EXCEPT ![task[w].job] = NoClaim] /\ task' = task
            /\ pc[w] \in {"generate", "handle_error"}
        BY <3>4 DEF SaveResult, SaveResultReplyLost, StoreResult, Requeue, SetError, Ack,
           DropClaim, Goto
      <4> QED BY <1>1, <4>1
    <3>5. CASE Crash(w)
      BY <1>1, <3>5 DEF Crash, Reset, store
    <3> QED BY <1>3, <3>1, <3>2, <3>3, <3>4, <3>5 DEF WorkerStep
  <2> HIDE DEF OnlyMoves, Edges, Covering, ClaimsDropped
  <2> QED BY <2>1, <2>2, <2>3, <2>4, <2>5
<1> QED BY <1>2, <1>3

(* The steps of a worker keep what is said of the claims. *)
LEMMA WorkerStepClaims ==
  ASSUME ResendInv, ResendInv', ClaimsInv, NEW w \in Workers, WorkerStep(w) \/ Crash(w),
         UNCHANGED reaper,
         Sending(w, [pc |-> pc[w], task |-> task[w], remembered |-> remembered[w],
                     clock |-> clock, reading |-> reading[w]])
  PROVE  ClaimsInv'
<1>1. /\ TypeOK /\ OnlyMoves(w)
      /\ pc'[w] \in WorkerPcs
      /\ store' # store => <<pc[w], pc'[w]>> \in Edges
      /\ pc[w] = "idle" \/ pc'[w] = "idle" \/ task'[w] = task[w]
  <2>1. TypeOK
    BY DEF ResendInv, IInv
  <2> HIDE DEF TypeOK, OnlyMoves, Edges, ClaimsDropped, Covering, WriteClaim
  <2> QED BY <2>1, WorkerMoves
<1>2. /\ claims \in [Jobs -> Claim \cup {NoClaim}] /\ reading \in [Workers -> Nat]
      /\ snapshot \in [Reapers -> SUBSET Claim]
      /\ pc[w] # "idle" => task[w] \in Payload /\ task[w].job \in Jobs
      /\ snapshot' = snapshot
  BY DEF ResendInv, IInv, TypeOK, StoreTypeOK, WorkerTypeOK, ReaperTypeOK, Payload, reaper
<1>3. PICK s : s = [pc |-> pc[w], task |-> task[w], remembered |-> remembered[w],
                    clock |-> clock, reading |-> reading[w]]
  OBVIOUS
<1>4. /\ \A q \in (Workers \cup Reapers) \ {w} : sent'[q] = sent[q]
      /\ sent'[w] = IF store' = store THEN NoCommand ELSE s
  <2>1. sent' = [sent EXCEPT ![w] = IF store' = store THEN NoCommand ELSE s]
    BY <1>3 DEF Sending
  <2>2. DOMAIN sent = Workers \cup Reapers
    BY DEF ResendInv, SentOK
  <2> QED BY <2>1, <2>2
<1>5. CameFrom(w)'
  <2>1. ASSUME sent'[w] # NoCommand
        PROVE  /\ <<sent'[w].pc, pc'[w]>> \in Edges
               /\ sent'[w].pc = "idle" \/ pc'[w] = "idle" \/ sent'[w].task = task'[w]
    <3>1. sent'[w] = s /\ store' # store
      BY <1>4, <2>1
    <3>2. s.pc = pc[w] /\ s.task = task[w]
      BY <1>3
    <3> HIDE DEF Edges
    <3> QED BY <1>1, <3>1, <3>2
  <2> HIDE DEF Edges
  <2> QED BY <2>1 DEF CameFrom
<1>6. CASE /\ reading' = reading /\ ClaimsDropped
           /\ pc'[w] \notin {"mark_started", "save_processing"}
           /\ Covering(w)' => task'[w] = task[w] /\ (Covering(w) \/ pc[w] = "count_completed")
           /\ pc'[w] = "count_completed" => claims'[task'[w].job] = NoClaim
           /\ pc[w] = "handle_error" /\ store' # store => claims'[task'[w].job] = NoClaim
           /\ pc[w] = "generate" /\ store' # store => claims'[task'[w].job] = NoClaim
           /\ pc[w] = "count_completed" => claims' = claims /\ (pc'[w] = "idle" \/ task' = task)
  <2>1. \A v \in Workers : reading[v] <= reading'[v] /\ (v # w => reading'[v] = reading[v])
    <3>1. \A n \in Nat : n <= n
      OBVIOUS
    <3> QED BY <1>2, <1>6, <3>1
  <2>2. BuiltFresh(w)'
    BY <1>6 DEF BuiltFresh, Rewriting
  <2>3. pc[w] = "count_completed" => ~OwnsClaim(w)
    BY DEF ClaimsInv, Acked
  <2>4. pc[w] = "count_completed" /\ pc'[w] # "idle" => ~OwnsClaim(w)'
    BY <1>6, <2>3 DEF OwnsClaim
  <2>5. Covering(w)' => \/ Covering(w) /\ task'[w] = task[w]
                        \/ ~OwnsClaim(w)'
                        \/ \E c \in Claim : claims'[task'[w].job] = c /\ NotScanned(c)
    <3>1. Covering(w)' => pc'[w] # "idle"
      BY DEF Covering, Executing
    <3> HIDE DEF Covering, OwnsClaim
    <3> QED BY <1>6, <2>4, <3>1
  <2>6. Acked(w)' => ~OwnsClaim(w)'
    <3>1. claims'[task'[w].job] = NoClaim => ~OwnsClaim(w)'
      BY DEF OwnsClaim
    <3>2. CASE pc'[w] = "count_completed"
      BY <1>6, <3>1, <3>2
    <3>3. CASE /\ pc'[w] # "idle" /\ sent'[w] # NoCommand
               /\ sent'[w].pc \in {"generate", "handle_error", "count_completed"}
      <4>1. store' # store /\ pc[w] \in {"generate", "handle_error", "count_completed"}
        BY <1>3, <1>4, <3>3
      <4> QED BY <1>6, <2>4, <3>1, <3>3, <4>1
    <3> HIDE DEF OwnsClaim
    <3> QED BY <3>2, <3>3 DEF Acked
  <2> HIDE DEF ClaimsInv, ResendInv, CameFrom, BuiltFresh, Acked, OwnsClaim, Covering, ClaimsDropped,
               OnlyMoves, NotScanned, Dated
  <2> QED BY <1>1, <1>2, <1>4, <1>5, <1>6, <2>1, <2>2, <2>5, <2>6, WorkerKeepsClaims
<1>7. ASSUME NEW started \in BOOLEAN, WriteClaim(w, started),
             pc[w] \in {"record_claim", "mark_started"},
             pc'[w] = IF started THEN "save_processing" ELSE "mark_started"
      PROVE  ClaimsInv'
  <2>1. PICK c : c = ClaimOf(w, task[w], started, reading[w] + 1)
    OBVIOUS
  <2>2. /\ c \in Claim /\ c.worker = w /\ c.payload = task[w] /\ c.reading = reading[w] + 1
        /\ claims' = [claims EXCEPT ![c.payload.job] = c]
        /\ reading' = [reading EXCEPT ![w] = reading[w] + 1]
        /\ task' = task
    BY <1>2, <1>7, <2>1 DEF WriteClaim, PutClaim, ClaimOf, Claim
  <2>3. \A v \in Workers : reading[v] <= reading'[v] /\ (v # w => reading'[v] = reading[v])
    <3>1. \A n \in Nat : n <= n /\ n <= n + 1
      OBVIOUS
    <3> QED BY <1>2, <2>2, <3>1
  <2>4. \A d : d.worker = w /\ d.reading = reading[w] + 1 => Dated(d)' /\ ~Dated(d)
    <3>1. \A n \in Nat : n + 1 <= n + 1 /\ ~(n + 1 <= n)
      OBVIOUS
    <3> QED BY <1>2, <2>2, <3>1 DEF Dated
  <2>5. \A d : ~Dated(d) => NotScanned(d)
    BY DEF ClaimsInv, ScannedStale, NotScanned
  <2>6. \A r \in Reapers : Scanned(r)' = Scanned(r)
    BY <1>2, <1>4, WorkersAreNotReapers DEF Scanned
  <2>7. \A d : NotScanned(d)' <=> NotScanned(d)
    BY <2>6 DEF NotScanned
  <2>8. BuiltFresh(w)'
    <3>1. ASSUME Rewriting(w)' PROVE Dated(Built(w))' /\ NotScanned(Built(w))'
      <4>1. sent'[w] = s
        BY <1>4, <3>1 DEF Rewriting
      <4>2. PICK d : d = Built(w)'
        OBVIOUS
      <4>3. d.worker = w /\ d.reading = reading[w] + 1
        BY <1>3, <4>1, <4>2 DEF Built, ClaimOf
      <4>4. Dated(d)' /\ NotScanned(d)
        BY <2>4, <2>5, <4>3
      <4>5. Dated(Built(w))'
        BY <4>2, <4>4 DEF Dated
      <4>6. NotScanned(Built(w))'
        <5>1. \A r \in Reapers : d \notin Scanned(r)'
          BY <2>6, <4>4 DEF NotScanned
        <5> HIDE DEF Built, Scanned
        <5> QED BY <4>2, <5>1 DEF NotScanned
      <4> QED BY <4>5, <4>6
    <3> QED BY <3>1 DEF BuiltFresh
  <2>9. Dated(c)' /\ NotScanned(c)
    BY <2>2, <2>4, <2>5
  <2>10. claims'[task'[w].job] = c
    BY <1>2, <1>7, <2>2
  <2>11. ~Acked(w)'
    BY <1>7 DEF Acked, Executing
  <2> HIDE DEF ClaimsInv, ResendInv, CameFrom, BuiltFresh, Acked, OwnsClaim, Covering, ClaimsDropped,
               OnlyMoves, NotScanned, Dated
  <2>12. \E d \in Claim : /\ claims' = [claims EXCEPT ![d.payload.job] = d]
                          /\ d.worker = w /\ Dated(d)' /\ NotScanned(d)
    BY <2>2, <2>9
  <2>13. \E d \in Claim : claims'[task'[w].job] = d /\ NotScanned(d)
    BY <2>2, <2>9, <2>10
  <2> QED BY <1>1, <1>2, <1>4, <1>5, <2>3, <2>8, <2>11, <2>12, <2>13, WorkerKeepsClaims
<1> HIDE DEF TypeOK, ClaimsInv, ResendInv, OnlyMoves, Edges, ClaimsDropped, Covering, WriteClaim
<1> QED BY <1>1, <1>6, <1>7, WorkerMoves

(* A worker that is where it was before covers what it covered; what it     *)
(* covers anew is a payload that it has acknowledged.                       *)
LEMMA SteppedBack ==
  ASSUME TypeOK, SentOK, NEW w \in Workers, CameFrom(w), ResendByWorker(w)
  PROVE  /\ OnlyMoves(w)
         /\ Covering(w) => Covering(w)' /\ task'[w] = task[w]
         /\ Covering(w)' => (Covering(w) \/ Acked(w)) /\ task'[w] = task[w]
         /\ pc'[w] = "count_completed" => Acked(w) /\ task'[w] = task[w]
<1>1. /\ pc \in [Workers -> WorkerPcs] /\ task \in [Workers -> Payload \cup {NoTask}]
      /\ remembered \in [Workers -> BOOLEAN]
  BY DEF TypeOK, WorkerTypeOK
<1>2. /\ sent[w] # NoCommand
      /\ pc[w] \notin {"count_retry", "mark_started", "save_processing"}
      /\ pc'[w] = sent[w].pc /\ task'[w] = sent[w].task
      /\ OnlyMoves(w)
  BY <1>1 DEF ResendByWorker, OnlyMoves
<1>3. PICK from, to : from = sent[w].pc /\ to = pc[w]
  OBVIOUS
<1>4. <<from, to>> \in Edges /\ (from = "idle" \/ to = "idle" \/ task'[w] = task[w])
  BY <1>2, <1>3 DEF CameFrom
<1>5. /\ to \in {"count_attempt", "observe_wait", "generate", "handle_error"} =>
           from \in {"save_processing", "count_attempt", "observe_wait", "generate"}
      /\ from = "generate" => to \in {"count_completed", "handle_error"}
      /\ from = "handle_error" => to \in {"count_retry", "count_failed"}
      /\ from = "count_completed" => to = "record_duration"
      /\ from = "mark_started" => to = "save_processing"
      /\ from = "save_processing" => to = "count_attempt"
      /\ from = "count_attempt" => to = "observe_wait"
      /\ from = "observe_wait" => to = "generate"
  BY <1>4 DEF Edges
<1>6. /\ Covering(w) <=> to \in {"mark_started", "save_processing", "count_attempt",
                                 "observe_wait", "generate", "handle_error"}
      /\ Covering(w)' <=> from \in {"mark_started", "save_processing", "count_attempt",
                                    "observe_wait", "generate", "handle_error"}
  <2>1. to \in WorkerPcs /\ from \in WorkerPcs
    BY <1>1, <1>2, <1>3 DEF SentOK, WorkerWas
  <2> QED BY <1>2, <1>3, <2>1 DEF Covering, Executing, WorkerPcs
<1>7. /\ to = "count_completed" => Acked(w)
      /\ to \in {"count_failed", "record_duration"} /\
         from \in {"generate", "handle_error", "count_completed"} => Acked(w)
  BY <1>2, <1>3 DEF Acked, Executing
<1> HIDE DEF Covering, Acked
<1>8. Covering(w) => Covering(w)' /\ task'[w] = task[w]
  BY <1>2, <1>3, <1>4, <1>5, <1>6
<1>9. Covering(w)' => (Covering(w) \/ Acked(w)) /\ task'[w] = task[w]
  BY <1>2, <1>3, <1>4, <1>5, <1>6, <1>7
<1>10. pc'[w] = "count_completed" => Acked(w) /\ task'[w] = task[w]
  BY <1>2, <1>3, <1>4, <1>5, <1>7
<1> QED BY <1>2, <1>8, <1>9, <1>10

(* The claim that an HSET executed again writes is one on the payload that  *)
(* the worker has, which it covers.                                         *)
LEMMA BuiltIsAClaim ==
  ASSUME TypeOK, SentOK, NEW w \in Workers, CameFrom(w), Rewriting(w)
  PROVE  /\ Built(w) \in Claim /\ Built(w).worker = w /\ Built(w).payload = task[w]
         /\ Covering(w)
<1>1. /\ sent[w] # NoCommand /\ pc[w] \in {"mark_started", "save_processing"}
      /\ task[w] \in Payload
  BY DEF Rewriting, TypeOK, WorkerTypeOK
<1>2. sent[w].task = task[w] /\ sent[w].reading \in Nat
  <2>1. sent[w].pc # "idle"
    BY <1>1 DEF SentOK, WorkerWas
  <2>2. sent[w].task = task[w]
    BY <1>1, <2>1 DEF CameFrom
  <2> QED BY <1>1, <2>2 DEF SentOK, WorkerWas
<1>3. /\ Built(w) \in Claim /\ Built(w).worker = w /\ Built(w).payload = task[w]
  BY <1>1, <1>2 DEF Built, ClaimOf, Claim
<1>4. Covering(w)
  BY <1>1 DEF Covering, Executing
<1> QED BY <1>3, <1>4

(* A command of a worker that is executed again keeps what is said of the   *)
(* claims.                                                                  *)
LEMMA ResentClaims ==
  ASSUME ResendInv, ResendInv', ClaimsInv, NEW w \in Workers,
         ResendRequeue(w) \/ ResendClaim(w) \/ ResendByWorker(w)
  PROVE  ClaimsInv'
<1>1. TypeOK /\ SentOK /\ CameFrom(w)
  BY DEF ResendInv, IInv, ClaimsInv
<1>2. /\ \A q \in (Workers \cup Reapers) \ {w} : sent'[q] = sent[q]
      /\ sent'[w] = NoCommand /\ snapshot' = snapshot /\ reading' = reading
  <2>1. sent' = [sent EXCEPT ![w] = NoCommand] /\ snapshot' = snapshot /\ reading' = reading
    BY DEF ResendRequeue, ResendClaim, ResendByWorker, reaper, worker
  <2>2. DOMAIN sent = Workers \cup Reapers
    BY <1>1 DEF SentOK
  <2> QED BY <2>1, <2>2
<1>3. \A v \in Workers : reading[v] <= reading'[v] /\ (v # w => reading'[v] = reading[v])
  <2>1. reading \in [Workers -> Nat]
    BY <1>1 DEF TypeOK, WorkerTypeOK
  <2>2. \A n \in Nat : n <= n
    OBVIOUS
  <2> QED BY <1>2, <2>1, <2>2
<1>4. CameFrom(w)' /\ BuiltFresh(w)'
  BY <1>2 DEF CameFrom, BuiltFresh, Rewriting
<1>5. Acked(w)' => pc'[w] = "count_completed"
  BY <1>2 DEF Acked
<1> HIDE DEF TypeOK, SentOK, CameFrom
<1>6. CASE ResendByWorker(w)
  <2>1. /\ OnlyMoves(w)
        /\ Covering(w)' => (Covering(w) \/ Acked(w)) /\ task'[w] = task[w]
        /\ pc'[w] = "count_completed" => Acked(w) /\ task'[w] = task[w]
    <3> HIDE DEF OnlyMoves, Covering, Acked, ResendByWorker
    <3> QED BY <1>1, <1>6, SteppedBack
  <2>2. claims' = claims /\ ClaimsDropped
    BY <1>6 DEF ResendByWorker, store, ClaimsDropped
  <2>3. Acked(w) => ~OwnsClaim(w)
    BY DEF ClaimsInv
  <2>4. task'[w] = task[w] /\ ~OwnsClaim(w) => ~OwnsClaim(w)'
    BY <2>2 DEF OwnsClaim
  <2> HIDE DEF ClaimsInv, ResendInv, BuiltFresh, Acked, OwnsClaim, Covering, ClaimsDropped,
               OnlyMoves, NotScanned, Dated, ResendByWorker, ResendClaim, ResendRequeue
  <2>5. /\ Covering(w)' => (Covering(w) /\ task'[w] = task[w]) \/ ~OwnsClaim(w)'
        /\ Acked(w)' => ~OwnsClaim(w)'
    BY <1>5, <2>1, <2>3, <2>4
  <2> QED BY <1>2, <1>3, <1>4, <2>1, <2>2, <2>5, WorkerKeepsClaims
<1>7. CASE ResendRequeue(w)
  <2>1. pc' = pc /\ task' = task /\ OnlyMoves(w) /\ pc[w] = "count_retry"
    BY <1>7 DEF ResendRequeue, worker, OnlyMoves
  <2>2. ClaimsDropped
    <3>1. claims' = [claims EXCEPT ![sent[w].task.job] = NoClaim]
      BY <1>7 DEF ResendRequeue, Ack, DropClaim
    <3>2. claims \in [Jobs -> Claim \cup {NoClaim}]
      BY <1>1 DEF TypeOK, StoreTypeOK
    <3> QED BY <3>1, <3>2 DEF ClaimsDropped
  <2>3. ~Covering(w)' /\ ~Acked(w)'
    BY <1>5, <2>1 DEF Covering, Executing
  <2> HIDE DEF ClaimsInv, ResendInv, BuiltFresh, Acked, OwnsClaim, Covering, ClaimsDropped,
               OnlyMoves, NotScanned, Dated, ResendByWorker, ResendClaim, ResendRequeue
  <2> QED BY <1>2, <1>3, <1>4, <2>1, <2>2, <2>3, WorkerKeepsClaims
<1>8. CASE ResendClaim(w)
  <2>1. /\ pc' = pc /\ task' = task /\ OnlyMoves(w)
        /\ pc[w] \in {"mark_started", "save_processing"}
    BY <1>8 DEF ResendClaim, worker, OnlyMoves
  <2>2. PICK c : c = Built(w)
    OBVIOUS
  <2>3. /\ c \in Claim /\ c.worker = w /\ Rewriting(w) /\ Covering(w)
        /\ claims' = [claims EXCEPT ![c.payload.job] = c]
    <3>1. Rewriting(w)
      BY <1>8 DEF Rewriting, ResendClaim
    <3>2. claims' = [claims EXCEPT ![Built(w).payload.job] = Built(w)]
      BY <1>8 DEF ResendClaim, PutClaim, Built
    <3> HIDE DEF Built, Rewriting, Covering
    <3> QED BY <1>1, <2>2, <3>1, <3>2, BuiltIsAClaim
  <2>4. Dated(c) /\ NotScanned(c)
    <3> HIDE DEF Built, Rewriting, Dated, NotScanned
    <3> QED BY <2>2, <2>3 DEF ClaimsInv, BuiltFresh
  <2>5. Dated(c)'
    BY <1>2, <2>4 DEF Dated
  <2>6. ~Acked(w)'
    BY <1>5, <2>1
  <2> HIDE DEF ClaimsInv, ResendInv, BuiltFresh, Acked, OwnsClaim, Covering, ClaimsDropped,
               OnlyMoves, NotScanned, Dated, ResendByWorker, ResendClaim, ResendRequeue
  <2>7. \E d \in Claim : /\ claims' = [claims EXCEPT ![d.payload.job] = d]
                         /\ d.worker = w /\ Dated(d)' /\ NotScanned(d)
    BY <2>3, <2>4, <2>5
  <2>8. Covering(w) /\ task'[w] = task[w]
    BY <2>1, <2>3
  <2> QED BY <1>2, <1>3, <1>4, <2>1, <2>6, <2>7, <2>8, WorkerKeepsClaims
<1> QED BY <1>6, <1>7, <1>8

(* What the claims and the scans are when a reaper moves, as long as it     *)
(* scans the claims of workers that have stopped only.                      *)
LEMMA ReaperKeepsClaims ==
  ASSUME Preempt = FALSE, ResendInv, ClaimsInv, NEW r \in Reapers,
         UNCHANGED <<pc, task, remembered, reading>>, ClaimsDropped,
         \A q \in (Workers \cup Reapers) \ {r} : sent'[q] = sent[q],
         \A x \in Reapers \ {r} : snapshot'[x] = snapshot[x],
         Scanned(r)' \subseteq Scanned(r) \cup StaleClaims
  PROVE  ClaimsInv'
<1> HIDE DEF Edges
<1>1. TypeOK /\ SentOK
  BY DEF ResendInv, IInv
<1>2. /\ claims \in [Jobs -> Claim \cup {NoClaim}]
      /\ \A c \in Claim : c.worker \in Workers /\ c.payload.job \in Jobs
      /\ \A x \in Reapers : Scanned(x) \subseteq Claim
  <2>1. /\ claims \in [Jobs -> Claim \cup {NoClaim}]
        /\ snapshot \in [Reapers -> SUBSET Claim]
    BY <1>1 DEF TypeOK, StoreTypeOK, ReaperTypeOK
  <2>2. \A x \in Reapers : Scanned(x) \subseteq Claim
    BY <1>1, <2>1 DEF Scanned, SentOK, ReaperWas
  <2> QED BY <2>1, <2>2 DEF Claim, Payload
<1>3. \A w \in Workers : sent'[w] = sent[w]
  BY WorkersAreNotReapers
<1>4. \A x \in Reapers : Scanned(x)' \subseteq Scanned(x) \cup StaleClaims
  <2>1. \A x \in Reapers \ {r} : Scanned(x)' = Scanned(x)
    BY DEF Scanned
  <2> HIDE DEF Scanned
  <2> QED BY <2>1
<1>5. \A c : /\ Dated(c)' <=> Dated(c)
             /\ CoveredClaim(c)' <=> CoveredClaim(c)
  BY DEF Dated, CoveredClaim, Covering, Executing
<1>6. ASSUME NEW c \in StaleClaims PROVE c \in Claim /\ Dated(c) /\ ~CoveredClaim(c)
  <2>1. PICK j \in Jobs : c = claims[j] /\ c # NoClaim
    BY <1>6 DEF StaleClaims
  <2>2. c \in Claim /\ Dated(c)
    <3> HIDE DEF Dated
    <3> QED BY <1>2, <2>1 DEF ClaimsInv, ClaimsDated
  <2>3. \A w \in Workers : ~(Executing(w) /\ task[w] = c.payload)
    BY <1>6 DEF StaleClaims, MayBeStale
  <2>4. c.worker \in Workers
    BY <1>2, <2>2
  <2>5. ~CoveredClaim(c)
    <3> HIDE DEF Executing
    <3> QED BY <2>3, <2>4 DEF CoveredClaim, Covering
  <2> QED BY <2>2, <2>5
<1>7. ClaimsDated'
  <2>1. ASSUME NEW j \in Jobs, claims'[j] # NoClaim
        PROVE  claims'[j].payload.job = j /\ claims'[j].reading <= reading'[claims'[j].worker]
    <3>1. claims'[j] = claims[j]
      BY <2>1 DEF ClaimsDropped
    <3> QED BY <2>1, <3>1 DEF ClaimsInv, ClaimsDated, Dated
  <2> QED BY <2>1 DEF ClaimsDated, Dated
<1>8. ScannedStale'
  <2>1. ASSUME NEW x \in Reapers, NEW c \in Scanned(x)'
        PROVE  Dated(c)' /\ (claims'[c.payload.job] = c => ~CoveredClaim(c)')
    <3>1. c \in Claim /\ Dated(c)
      <4> HIDE DEF Dated, Scanned
      <4> QED BY <1>2, <1>4, <1>6, <2>1 DEF ClaimsInv, ScannedStale
    <3>2. ASSUME claims'[c.payload.job] = c PROVE ~CoveredClaim(c)
      <4>1. claims[c.payload.job] = c
        BY <1>2, <3>1, <3>2, NoClaimIsNone DEF ClaimsDropped
      <4> HIDE DEF CoveredClaim, Scanned, Dated
      <4> QED BY <1>4, <1>6, <2>1, <4>1 DEF ClaimsInv, ScannedStale
    <3> HIDE DEF CoveredClaim, Dated
    <3> QED BY <1>5, <3>1, <3>2
  <2> HIDE DEF CoveredClaim, Dated, Scanned
  <2> QED BY <2>1 DEF ScannedStale
<1>9. ASSUME NEW w \in Workers PROVE (CameFrom(w) /\ BuiltFresh(w) /\ (Acked(w) => ~OwnsClaim(w)))'
  <2>1. CameFrom(w)'
    BY <1>3 DEF ClaimsInv, CameFrom
  <2>2. BuiltFresh(w)'
    <3>1. Rewriting(w)' <=> Rewriting(w)
      BY <1>3 DEF Rewriting
    <3>2. Built(w)' = Built(w)
      BY <1>3 DEF Built
    <3>3. ASSUME Rewriting(w) PROVE Dated(Built(w))' /\ NotScanned(Built(w))'
      <4>1. PICK c : c = Built(w)
        OBVIOUS
      <4>2. Dated(c) /\ NotScanned(c)
        <5> HIDE DEF Dated, NotScanned, Built, Rewriting
        <5> QED BY <3>3, <4>1 DEF ClaimsInv, BuiltFresh
      <4>3. CoveredClaim(c)
        <5>1. c.worker = w /\ c.payload = task[w] /\ Covering(w)
          <6>1. CameFrom(w)
            BY DEF ClaimsInv
          <6> HIDE DEF Built, Covering, CameFrom, Rewriting
          <6> QED BY <1>1, <3>3, <4>1, <6>1, BuiltIsAClaim
        <5> HIDE DEF Covering
        <5> QED BY <5>1 DEF CoveredClaim
      <4>4. \A x \in Reapers : c \notin Scanned(x)'
        <5> HIDE DEF Scanned, CoveredClaim, Dated
        <5> QED BY <1>4, <1>6, <4>2, <4>3 DEF NotScanned
      <4>5. Dated(Built(w))'
        <5>1. Dated(Built(w))' <=> Built(w)'.reading <= reading'[Built(w)'.worker]
          BY DEF Dated
        <5> HIDE DEF Built
        <5> QED BY <3>2, <4>1, <4>2, <5>1 DEF Dated
      <4>6. NotScanned(Built(w))'
        <5> HIDE DEF Built, Scanned
        <5> QED BY <3>2, <4>1, <4>4 DEF NotScanned
      <4> QED BY <4>5, <4>6
    <3> HIDE DEF Dated, NotScanned, Built, Rewriting
    <3> QED BY <3>1, <3>3 DEF BuiltFresh
  <2>3. Acked(w)' => ~OwnsClaim(w)'
    <3>1. SUFFICES ASSUME Acked(w)', OwnsClaim(w)' PROVE FALSE
      OBVIOUS
    <3>2. Acked(w) /\ pc[w] # "idle"
      BY <1>3, <3>1 DEF Acked, Executing
    <3>3. task[w].job \in Jobs
      BY <1>1, <3>2 DEF TypeOK, WorkerTypeOK, Payload
    <3>4. OwnsClaim(w)
      BY <3>1, <3>3 DEF OwnsClaim, ClaimsDropped
    <3> QED BY <3>2, <3>4 DEF ClaimsInv
  <2> QED BY <2>1, <2>2, <2>3
<1> HIDE DEF CameFrom, BuiltFresh, Acked, OwnsClaim
<1> QED BY <1>7, <1>8, <1>9 DEF ClaimsInv

(* The steps of a reaper keep what is said of the claims. *)
LEMMA ReaperStepClaims ==
  ASSUME Preempt = FALSE, ResendInv, ClaimsInv, NEW r \in Reapers, UNCHANGED worker,
         Scan(r) \/ ReaperStep(r) \/ ScanFails(r),
         Sending(r, [snapshot |-> snapshot[r], rpc |-> rpc[r]])
  PROVE  ClaimsInv'
<1>1. /\ claims \in [Jobs -> Claim \cup {NoClaim}] /\ snapshot \in [Reapers -> SUBSET Claim]
      /\ DOMAIN sent = Workers \cup Reapers
      /\ \A c \in Claim : c.payload.job \in Jobs
  BY DEF ResendInv, SentOK, IInv, TypeOK, StoreTypeOK, ReaperTypeOK, Claim, Payload
<1>2. UNCHANGED <<pc, task, remembered, reading>>
  BY DEF worker
<1>3. PICK s : s = [snapshot |-> snapshot[r], rpc |-> rpc[r]]
  OBVIOUS
<1>4. sent' = [sent EXCEPT ![r] = IF store' = store THEN NoCommand ELSE s]
  BY <1>3 DEF Sending
<1>5. /\ sent'[r] = IF store' = store THEN NoCommand ELSE s
      /\ \A q \in (Workers \cup Reapers) \ {r} : sent'[q] = sent[q]
  BY <1>1, <1>4
<1>6. /\ \A x \in Reapers \ {r} : snapshot'[x] = snapshot[x]
      /\ \/ snapshot'[r] \subseteq snapshot[r]
         \/ store' = store /\ snapshot'[r] \subseteq StaleClaims
      /\ ClaimsDropped
  <2>1. CASE Scan(r)
    <3>1. store' = store /\ claims' = claims
      BY <2>1 DEF Scan, store
    <3>2. PICK S \in SUBSET StaleClaims : snapshot' = [snapshot EXCEPT ![r] = S]
      BY <2>1 DEF Scan
    <3> HIDE DEF StaleClaims
    <3> QED BY <1>1, <3>1, <3>2 DEF ClaimsDropped
  <2>2. CASE ScanFails(r)
    BY <1>1, <2>2 DEF ScanFails, store, ClaimsDropped
  <2>3. CASE ReaperStep(r)
    <3>1. ASSUME NEW c \in snapshot[r], HandleClaim(r, c)
          PROVE  /\ \A x \in Reapers \ {r} : snapshot'[x] = snapshot[x]
                 /\ snapshot'[r] \subseteq snapshot[r] /\ ClaimsDropped
      <4>1. snapshot' = [snapshot EXCEPT ![r] = snapshot[r] \ {c}]
        BY <3>1 DEF HandleClaim, SkipChangedClaim, DropOrphanClaim, Recover, Bury, TakeBack, Handle
      <4>2. claims' = claims \/ claims' = [claims EXCEPT ![c.payload.job] = NoClaim]
        BY <3>1 DEF HandleClaim, SkipChangedClaim, DropOrphanClaim, Recover, Bury, TakeBack,
           DropClaim, store
      <4> QED BY <1>1, <4>1, <4>2 DEF ClaimsDropped
    <3>2. ASSUME CountRecovered(r) \/ CountBuried(r) \/ CountBuriedDead(r)
          PROVE  snapshot' = snapshot /\ ClaimsDropped
      BY <3>2 DEF CountRecovered, CountBuried, CountBuriedDead, ReaperCount, ClaimsDropped
    <3> HIDE DEF ClaimsDropped
    <3> QED BY <2>3, <3>1, <3>2 DEF ReaperStep
  <2> HIDE DEF ClaimsDropped, StaleClaims
  <2> QED BY <2>1, <2>2, <2>3
<1>7. Scanned(r)' \subseteq Scanned(r) \cup StaleClaims
  <2>1. Scanned(r)' \subseteq snapshot'[r] \cup (IF store' = store THEN {} ELSE snapshot[r])
    BY <1>3, <1>5 DEF Scanned
  <2>2. snapshot[r] \subseteq Scanned(r)
    BY DEF Scanned
  <2> HIDE DEF Scanned, StaleClaims
  <2> QED BY <1>6, <2>1, <2>2
<1> HIDE DEF ClaimsInv, ResendInv, ClaimsDropped, Scanned, StaleClaims
<1> QED BY <1>2, <1>5, <1>6, <1>7, ReaperKeepsClaims

(* A script that is executed again works on what was scanned before. *)
LEMMA ResentScanClaims ==
  ASSUME Preempt = FALSE, ResendInv, ClaimsInv, NEW r \in Reapers, ResendByReaper(r)
  PROVE  ClaimsInv'
<1>1. /\ snapshot \in [Reapers -> SUBSET Claim] /\ DOMAIN sent = Workers \cup Reapers
  BY DEF ResendInv, SentOK, IInv, TypeOK, ReaperTypeOK
<1>2. /\ UNCHANGED <<pc, task, remembered, reading>> /\ claims' = claims
      /\ sent[r] # NoCommand
      /\ snapshot' = [snapshot EXCEPT ![r] = sent[r].snapshot]
      /\ sent' = [sent EXCEPT ![r] = NoCommand]
  BY DEF ResendByReaper, worker, store
<1>3. ClaimsDropped
  BY <1>2 DEF ClaimsDropped
<1>4. /\ \A q \in (Workers \cup Reapers) \ {r} : sent'[q] = sent[q]
      /\ \A x \in Reapers \ {r} : snapshot'[x] = snapshot[x]
      /\ sent'[r] = NoCommand /\ snapshot'[r] = sent[r].snapshot
  BY <1>1, <1>2
<1>5. Scanned(r)' \subseteq Scanned(r)
  BY <1>2, <1>4 DEF Scanned
<1>6. Scanned(r)' \subseteq Scanned(r) \cup StaleClaims
  <2> HIDE DEF Scanned, StaleClaims
  <2> QED BY <1>5
<1> HIDE DEF ClaimsInv, ResendInv, ClaimsDropped, Scanned, StaleClaims
<1> QED BY <1>2, <1>3, <1>4, <1>6, ReaperKeepsClaims

(* A step that concerns neither the claims nor those who work on them *)
LEMMA ClaimsStay ==
  ASSUME ClaimsInv, UNCHANGED <<claims, pc, task, remembered, reading, snapshot, sent>>
  PROVE  ClaimsInv'
<1>1. /\ ClaimsDated' /\ ScannedStale'
  BY DEF ClaimsInv, ClaimsDated, ScannedStale, Scanned, Dated, CoveredClaim, Covering, Executing
<1>2. ASSUME NEW w \in Workers PROVE (CameFrom(w) /\ BuiltFresh(w) /\ (Acked(w) => ~OwnsClaim(w)))'
  <2>1. CameFrom(w) /\ BuiltFresh(w) /\ (Acked(w) => ~OwnsClaim(w))
    BY DEF ClaimsInv
  <2>2. CameFrom(w)'
    <3> HIDE DEF Edges
    <3> QED BY <2>1 DEF CameFrom
  <2>3. BuiltFresh(w)'
    BY <2>1 DEF BuiltFresh, Rewriting, Built, ClaimOf, Dated, NotScanned, Scanned
  <2>4. Acked(w)' => ~OwnsClaim(w)'
    BY <2>1 DEF Acked, Executing, OwnsClaim
  <2> QED BY <2>2, <2>3, <2>4
<1> HIDE DEF CameFrom, BuiltFresh, Acked, OwnsClaim
<1> QED BY <1>1, <1>2 DEF ClaimsInv

(* Every step of a worker keeps the balance of every job. *)
LEMMA WorkerStepBalance ==
  ASSUME TypeOK, TypeOK', resends \in Nat, UNCHANGED <<stage, resends>>,
         NEW w \in Workers, WorkerStep(w) \/ Crash(w), NEW j \in Jobs, Balanced(j)
  PROVE  Balanced(j)'
<1>1. /\ pc \in [Workers -> WorkerPcs] /\ task \in [Workers -> Payload \cup {NoTask}]
      /\ remembered \in [Workers -> BOOLEAN] /\ clock \in [Jobs -> Nat]
      /\ reading \in [Workers -> Nat]
      /\ pc[w] # "idle" => task[w] \in Payload /\ task[w].job \in Jobs
  BY DEF TypeOK, StoreTypeOK, WorkerTypeOK, Payload
<1>2. OnlyMoves(w)
  <2> HIDE DEF TypeOK, OnlyMoves, Edges, ClaimsDropped, Covering, WriteClaim
  <2> QED BY WorkerMoves
<1>3. resends' \in Nat /\ resends <= resends'
  <2>1. \A n \in Nat : n <= n
    OBVIOUS
  <2> QED BY <2>1
<1>4. CASE Dequeue(w)
  <2> HIDE DEF Dequeue, Balanced
  <2> QED BY <1>4, DequeueBalance
<1>5. CASE RecordClaim(w) \/ MarkStarted(w)
  <2>1. PICK started \in BOOLEAN :
          /\ WriteClaim(w, started)
          /\ pc[w] = IF started THEN "mark_started" ELSE "record_claim"
          /\ pc' = [pc EXCEPT ![w] = IF started THEN "save_processing" ELSE "mark_started"]
    BY <1>5 DEF RecordClaim, MarkStarted, Goto
  <2>2. PICK c : c = ClaimOf(w, task[w], started, reading[w] + 1)
    OBVIOUS
  <2>3. /\ c \in Claim /\ c.worker = w /\ c.payload = task[w]
        /\ claims' = [claims EXCEPT ![c.payload.job] = c]
        /\ task' = task /\ remembered' = remembered
        /\ UNCHANGED <<tasks, processing>>
    BY <1>1, <2>1, <2>2 DEF WriteClaim, PutClaim, ClaimOf, Claim
  <2>4. Executing(w) /\ Covering(w)'
    BY <1>1, <2>1 DEF Executing, Covering
  <2>5. RolesKept(j)
    <3> HIDE DEF Executing, Covering, OnlyMoves
    <3> QED BY <1>2, <2>3, <2>4, WrittenClaimKeepsRoles
  <2> HIDE DEF RolesKept, Balanced
  <2> QED BY <1>3, <2>3, <2>5, SameListsBalance
<1>6. CASE SaveProcessing(w) \/ CountAttempt(w) \/ ObserveWait(w) \/ InferenceFails(w)
           \/ CountCompleted(w) \/ CountCompletedFails(w) \/ CountRetry(w) \/ CountFailed(w)
           \/ CountDead(w) \/ RecordDuration(w)
  <2>1. UNCHANGED <<tasks, processing, claims>>
    BY <1>6 DEF SaveProcessing, CountAttempt, ObserveWait, InferenceFails, CountCompleted,
       CountCompletedFails, CountRetry, CountFailed, CountDead, RecordDuration, CountStep, store
  <2>2. GoesOn(w)
    <3>1. CASE RecordDuration(w)
      BY <1>1, <3>1 DEF RecordDuration, Reset, GoesOn, Responsible, Executing, Covering
    <3>2. CASE SaveProcessing(w) \/ CountAttempt(w) \/ ObserveWait(w)
               \/ CountCompleted(w) \/ CountRetry(w) \/ CountFailed(w) \/ CountDead(w)
      BY <1>1, <3>2 DEF SaveProcessing, CountAttempt, ObserveWait, CountCompleted, CountRetry,
         CountFailed, CountDead, CountStep, Goto, GoesOn, Responsible, Executing, Covering
    <3>3. CASE InferenceFails(w) \/ CountCompletedFails(w)
      BY <1>1, <3>3 DEF InferenceFails, CountCompletedFails, Goto, GoesOn, Responsible,
         Executing, Covering
    <3> QED BY <1>6, <3>1, <3>2, <3>3
  <2>3. RolesKept(j)
    <3>1. ClaimsDropped
      BY <2>1 DEF ClaimsDropped
    <3>2. \A v \in Workers :
            \/ pc'[v] = pc[v] /\ task'[v] = task[v] /\ remembered'[v] = remembered[v]
            \/ GoesOn(v)
      <4> HIDE DEF GoesOn
      <4> QED BY <1>2, <2>2 DEF OnlyMoves
    <3> HIDE DEF GoesOn, ClaimsDropped
    <3> QED BY <3>1, <3>2, DroppedClaimsKeepRoles
  <2> HIDE DEF RolesKept, Balanced
  <2> QED BY <1>3, <2>1, <2>3, SameListsBalance
<1>7. CASE HandlerFails(w) \/ Crash(w)
  <2>1. UNCHANGED <<tasks, processing, claims>>
    BY <1>7 DEF HandlerFails, Crash, store
  <2>2. ~Responsible(w)'
    BY <1>1, <1>7 DEF HandlerFails, Crash, Reset, Responsible, Executing
  <2> HIDE DEF Responsible, OnlyMoves, Balanced
  <2> QED BY <1>2, <2>1, <2>2, LeavingBalance
<1>8. CASE SaveResult(w) \/ SaveResultReplyLost(w) \/ Requeue(w) \/ SetError(w)
  <2>1. Executing(w) /\ Ack(task[w], remembered[w])
    BY <1>8 DEF SaveResult, SaveResultReplyLost, StoreResult, Requeue, SetError, Goto, Executing
  <2>2. CASE SaveResult(w) \/ SaveResultReplyLost(w)
    <3>1. tasks' = tasks /\ task'[w] = task[w]
      BY <2>2 DEF SaveResult, SaveResultReplyLost, StoreResult
    <3> HIDE DEF Responsible, OnlyMoves, Balanced, Executing, Ack
    <3> QED BY <1>2, <2>1, <3>1, AckedBalance
  <2>3. CASE Requeue(w) \/ SetError(w)
    <3>1. ~Responsible(w)'
      BY <1>1, <2>3 DEF Requeue, SetError, Goto, Responsible, Executing
    <3>2. \/ tasks' = tasks
          \/ \E p \in Payload : p.job = task[w].job /\ tasks' = Append(tasks, p)
      <4>1. CASE SetError(w)
        BY <4>1 DEF SetError
      <4>2. CASE Requeue(w)
        <5>1. PICK p : p = Retried(task[w], clock[task[w].job] + 1)
          OBVIOUS
        <5>2. tasks' = Append(tasks, p) /\ pc[w] # "idle"
          BY <4>2, <5>1 DEF Requeue, PushTask, Goto
        <5>3. p \in Payload /\ p.job = task[w].job
          BY <1>1, <5>1, <5>2 DEF Retried, Payload
        <5> QED BY <5>2, <5>3
      <4> QED BY <2>3, <4>1, <4>2
    <3> HIDE DEF Responsible, OnlyMoves, Balanced, Executing, Ack
    <3> QED BY <1>2, <2>1, <3>1, <3>2, AckedBalance
  <2> QED BY <1>8, <2>2, <2>3
<1> QED BY <1>4, <1>5, <1>6, <1>7, <1>8 DEF WorkerStep

(* Every step of a reaper does, where what it has scanned is stale. *)
LEMMA ReaperStepBalance ==
  ASSUME TypeOK, TypeOK', resends \in Nat, UNCHANGED <<stage, resends, worker>>, ClaimsInv,
         NEW r \in Reapers, Scan(r) \/ ReaperStep(r) \/ ScanFails(r),
         NEW j \in Jobs, Balanced(j)
  PROVE  Balanced(j)'
<1>1. /\ claims \in [Jobs -> Claim \cup {NoClaim}] /\ snapshot \in [Reapers -> SUBSET Claim]
      /\ UNCHANGED <<pc, task, remembered>>
  BY DEF TypeOK, StoreTypeOK, ReaperTypeOK, worker
<1>2. resends' \in Nat /\ resends <= resends'
  <2>1. \A n \in Nat : n <= n
    OBVIOUS
  <2> QED BY <2>1
<1>3. ASSUME UNCHANGED <<tasks, processing>>, ClaimsDropped PROVE Balanced(j)'
  <2>1. RolesKept(j)
    <3>1. \A v \in Workers : pc'[v] = pc[v] /\ task'[v] = task[v] /\ remembered'[v] = remembered[v]
      BY <1>1
    <3> HIDE DEF GoesOn, ClaimsDropped
    <3> QED BY <1>3, <3>1, DroppedClaimsKeepRoles
  <2> HIDE DEF RolesKept, Balanced
  <2> QED BY <1>2, <1>3, <2>1, SameListsBalance
<1>4. ASSUME NEW c \in snapshot[r], TakeBack(r, c, "count_recovered") \/ TakeBack(r, c, "count_failed"),
             \/ tasks' = tasks
             \/ \E q \in Payload : q.job = c.payload.job /\ tasks' = Append(tasks, q)
      PROVE  Balanced(j)'
  <2>1. /\ c \in Claim /\ c.payload \in Payload /\ c # NoClaim
    BY <1>1, NoClaimIsNone DEF Claim
  <2>2. PICK p : p = c.payload
    OBVIOUS
  <2>3. /\ claims[p.job] = c /\ processing' = RemoveFirst(processing, p)
        /\ claims' = [claims EXCEPT ![p.job] = NoClaim]
    BY <1>4, <2>2 DEF TakeBack, ClaimUnchanged, RemoveProcessing, DropClaim
  <2>4. ~CoveredClaim(c)
    <3>1. c \in Scanned(r)
      BY DEF Scanned
    <3> HIDE DEF CoveredClaim, Scanned
    <3> QED BY <2>2, <2>3, <3>1 DEF ClaimsInv, ScannedStale
  <2>5. ClaimTakes(p)
    <3> HIDE DEF CoveredClaim
    <3> QED BY <2>1, <2>2, <2>3, <2>4 DEF ClaimTakes
  <2>6. p \in Payload
    BY <2>1, <2>2
  <2>7. tasks' = tasks \/ \E q \in Payload : q.job = p.job /\ tasks' = Append(tasks, q)
    BY <1>4, <2>2
  <2> HIDE DEF ClaimTakes, Balanced
  <2> QED BY <1>1, <2>3, <2>5, <2>6, <2>7, TakenBackBalance
<1>5. CASE Scan(r) \/ ScanFails(r)
  BY <1>3, <1>5 DEF Scan, ScanFails, store, ClaimsDropped
<1>6. CASE CountRecovered(r) \/ CountBuried(r) \/ CountBuriedDead(r)
  <2>1. UNCHANGED <<tasks, processing, claims>>
    BY <1>6 DEF CountRecovered, CountBuried, CountBuriedDead, ReaperCount
  <2> QED BY <1>3, <2>1 DEF ClaimsDropped
<1>7. ASSUME NEW c \in snapshot[r], HandleClaim(r, c) PROVE Balanced(j)'
  <2>1. c \in Claim /\ c.payload \in Payload /\ c.payload.job \in Jobs
    BY <1>1 DEF Claim, Payload
  <2>2. CASE SkipChangedClaim(r, c)
    BY <1>3, <2>2 DEF SkipChangedClaim, store, ClaimsDropped
  <2>3. CASE DropOrphanClaim(r, c)
    <3>1. UNCHANGED <<tasks, processing>> /\ claims' = [claims EXCEPT ![c.payload.job] = NoClaim]
      BY <2>3 DEF DropOrphanClaim, DropClaim
    <3>2. ClaimsDropped
      BY <1>1, <2>1, <3>1 DEF ClaimsDropped
    <3> QED BY <1>3, <3>1, <3>2
  <2>4. CASE Bury(r, c)
    <3>1. tasks' = tasks /\ TakeBack(r, c, "count_failed")
      BY <2>4 DEF Bury
    <3> HIDE DEF TakeBack
    <3> QED BY <1>4, <3>1
  <2>5. CASE Recover(r, c)
    <3>1. PICK q : q = Recovered(c.payload)
      OBVIOUS
    <3>2. q \in Payload /\ q.job = c.payload.job
      BY <2>1, <3>1 DEF Recovered, Payload
    <3>3. tasks' = Append(tasks, q) /\ TakeBack(r, c, "count_recovered")
      BY <2>5, <3>1 DEF Recover, PushTask
    <3> HIDE DEF TakeBack
    <3> QED BY <1>4, <3>2, <3>3
  <2> QED BY <1>7, <2>2, <2>3, <2>4, <2>5 DEF HandleClaim
<1> QED BY <1>5, <1>6, <1>7 DEF ReaperStep

(* Every step of enqueue() does: the job that it pushes becomes submitted.  *)
LEMMA ProducerStepBalance ==
  ASSUME TypeOK, TypeOK', resends \in Nat, UNCHANGED <<worker, reaper, resends>>,
         NEW i \in Jobs, Enqueue(i) \/ EnqueueFails(i), NEW j \in Jobs, Balanced(j)
  PROVE  Balanced(j)'
<1>1. stage \in [Jobs -> Stages] /\ UNCHANGED <<pc, task, remembered>>
  BY DEF TypeOK, ProducerTypeOK, worker
<1>2. PICK k \in Nat : k = resends /\ k = resends'
  OBVIOUS
<1>3. /\ processing' = processing /\ claims' = claims
  BY DEF Enqueue, EnqueueFails, SaveQueuedStatus, PushNewTask, CountSubmitted, store
<1>4. CASE PushNewTask(i)
  <2>1. /\ stage[i] = "push" /\ stage' = [stage EXCEPT ![i] = "count"]
        /\ tasks' = Append(tasks, NewPayload(i))
    BY <1>4 DEF PushNewTask, EnqueueGoto, PushTask
  <2>2. PICK p : p = NewPayload(i)
    OBVIOUS
  <2>3. p \in Payload /\ p.job = i
    BY <2>2 DEF NewPayload, Payload
  <2>4. i = j => ~Submitted(j) /\ Submitted(j)'
    BY <1>1, <2>1 DEF Submitted
  <2>5. i # j => (Submitted(j)' <=> Submitted(j))
    BY <1>1, <2>1 DEF Submitted
  <2>6. PICK a, b : a = Allowed(j) /\ b = Allowed(j)'
    OBVIOUS
  <2>7. /\ i = j => a = k /\ b = k + 1
        /\ i # j => a = b /\ (a = k \/ a = k + 1)
    <3> HIDE DEF Submitted
    <3> QED BY <1>2, <2>4, <2>5, <2>6 DEF Allowed
  <2>8. (i = j => b = a + 1) /\ (i # j => a <= b)
    BY <2>7
  <2>9. /\ p.job = j => Allowed(j)' = Allowed(j) + 1
        /\ p.job # j => Allowed(j) <= Allowed(j)'
    BY <2>3, <2>6, <2>8
  <2>10. tasks' = Append(tasks, p) /\ resends' \in Nat
    BY <1>2, <2>1, <2>2
  <2> HIDE DEF Balanced, Allowed
  <2> QED BY <1>1, <1>3, <2>3, <2>9, <2>10, PushedBalance
<1>5. CASE ~PushNewTask(i)
  <2>1. /\ tasks' = tasks
        /\ \E to \in {<<"new", "push">>, <<"count", "answered">>, <<"push", "aborted">>,
                      <<"count", "unanswered">>} : EnqueueGoto(i, to[1], to[2])
    BY <1>5 DEF Enqueue, EnqueueFails, SaveQueuedStatus, CountSubmitted, store
  <2>2. Submitted(j)' <=> Submitted(j)
    BY <1>1, <2>1 DEF Submitted, EnqueueGoto
  <2>3. Allowed(j)' = Allowed(j)
    <3> HIDE DEF Submitted
    <3> QED BY <1>2, <2>2 DEF Allowed
  <2>4. RolesKept(j)
    <3>1. ClaimsDropped
      BY <1>3 DEF ClaimsDropped
    <3>2. \A v \in Workers : pc'[v] = pc[v] /\ task'[v] = task[v] /\ remembered'[v] = remembered[v]
      BY <1>1
    <3> HIDE DEF GoesOn, ClaimsDropped
    <3> QED BY <3>1, <3>2, DroppedClaimsKeepRoles
  <2>5. \A S : Occurrences(processing, S) \in Nat
    <3>1. processing \in Seq(Payload)
      BY DEF TypeOK, StoreTypeOK
    <3> QED BY <3>1, OccurrencesType
  <2>6. CopiesKept(j)
    <3>1. \A n \in Nat : n <= n
      OBVIOUS
    <3> QED BY <1>3, <2>5, <3>1 DEF CopiesKept
  <2>7. resends' \in Nat
    BY <1>2
  <2>8. PICK a, n : a = Allowed(j) /\ n = CopyCount(j) /\ a \in Int /\ n \in Int
    BY <2>7, BalancedTypes DEF BalancedType, BalanceType
  <2>9. CopyCount(j)' = n
    <3>1. tasks' = tasks /\ processing' = processing
      BY <1>3, <2>1
    <3> QED BY <2>8, <3>1 DEF CopyCount, TextsOf
  <2>10. n + a <= n + a
    BY <2>8
  <2>11. CopyCount(j)' + Allowed(j) <= CopyCount(j) + Allowed(j)'
    BY <2>3, <2>8, <2>9, <2>10
  <2> HIDE DEF RolesKept, CopiesKept, Balanced, CopyCount, Allowed
  <2> QED BY <2>4, <2>6, <2>7, <2>11, RolesKeptBalance
<1> QED BY <1>4, <1>5

(* So does the RPUSH of enqueue() that is executed again: it makes room for *)
(* the copy it adds.                                                        *)
LEMMA ResentPushBalance ==
  ASSUME TypeOK, TypeOK', resends \in Nat, NEW i \in Jobs, ResendPush(i),
         NEW j \in Jobs, Balanced(j)
  PROVE  Balanced(j)'
<1>1. PICK k, l \in Nat : k = resends /\ l = resends + 1 /\ resends' = l
  BY DEF ResendPush, ResendOnce
<1>2. /\ UNCHANGED <<processing, claims, stage, worker>> /\ tasks' = Append(tasks, NewPayload(i))
  BY DEF ResendPush, PushTask
<1>3. PICK p \in Payload : p = NewPayload(i)
  BY DEF NewPayload, Payload
<1>4. /\ p.job = j => Allowed(j)' = Allowed(j) + 1
      /\ p.job # j => Allowed(j) <= Allowed(j)'
  <2>1. Allowed(j)' = Allowed(j) + 1
    BY <1>1, <1>2, AllowedMore
  <2>2. k <= l
    BY <1>1
  <2>3. resends' \in Nat /\ resends <= resends'
    BY <1>1, <2>2
  <2>4. Allowed(j) <= Allowed(j)'
    BY <1>2, <2>3, AllowedGrows
  <2> QED BY <2>1, <2>4
<1>5. UNCHANGED <<processing, claims, pc, task, remembered>> /\ tasks' = Append(tasks, p)
      /\ resends' \in Nat
  BY <1>1, <1>2, <1>3 DEF worker
<1> HIDE DEF Balanced, Allowed
<1> QED BY <1>4, <1>5, PushedBalance

(* So does a command of a worker that is executed again, in either way. *)
LEMMA ResentWorkerBalance ==
  ASSUME ResendInv, TypeOK', resends \in Nat, ClaimsInv, NEW w \in Workers,
         ResendRequeue(w) \/ ResendClaim(w) \/ ResendByWorker(w),
         NEW j \in Jobs, Balanced(j)
  PROVE  Balanced(j)'
<1>1. TypeOK /\ SentOK /\ CameFrom(w)
  BY DEF ResendInv, IInv, ClaimsInv
<1>2. PICK k, l \in Nat : k = resends /\ l = resends + 1 /\ resends' = l
  BY DEF ResendRequeue, ResendClaim, ResendByWorker, ResendOnce
<1>3. resends' \in Nat /\ resends <= resends'
  <2>1. k <= l
    BY <1>2
  <2> QED BY <1>2, <2>1
<1> HIDE DEF TypeOK, SentOK, Balanced, ResendInv, ClaimsInv
<1>4. CASE ResendRequeue(w)
  <2>1. PICK s : s = sent[w]
    OBVIOUS
  <2>2. PICK p : p = s.task
    OBVIOUS
  <2>3. PICK q : q = Retried(p, s.clock[p.job] + 1)
    OBVIOUS
  <2>4. /\ UNCHANGED <<stage, worker>>
        /\ tasks' = Append(tasks, q) /\ Ack(p, s.remembered)
        /\ pc[w] = "count_retry" /\ s # NoCommand
    BY <1>4, <2>1, <2>2, <2>3 DEF ResendRequeue, PushTask
  <2>5. p \in Payload /\ q \in Payload /\ q.job = p.job
    <3>1. WorkerWas(w, s)
      BY <1>1, <2>1, <2>4 DEF SentOK
    <3>2. p \in Payload
      BY <2>2, <2>4, <3>1 DEF WorkerWas
    <3>3. s.clock \in [Jobs -> Nat]
      BY <3>1 DEF WorkerWas
    <3>4. q \in Payload /\ q.job = p.job
      BY <2>3, <3>2, <3>3 DEF Retried, Payload
    <3> QED BY <3>2, <3>4
  <2>6. /\ processing' = RemoveFirst(processing, p) \/ processing' = processing
        /\ claims' = [claims EXCEPT ![p.job] = NoClaim]
    BY <2>4 DEF Ack, RemoveProcessing, DropClaim
  <2>7. UNCHANGED <<pc, task, remembered, stage>>
    BY <2>4 DEF worker
  <2> QED BY <1>1, <1>2, <2>4, <2>5, <2>6, <2>7, RequeuedAgainBalance
<1>5. CASE ResendClaim(w)
  <2>1. /\ UNCHANGED <<tasks, processing, stage, worker>> /\ Rewriting(w)
        /\ claims' = [claims EXCEPT ![Built(w).payload.job] = Built(w)]
    BY <1>5 DEF ResendClaim, PutClaim, Built, Rewriting
  <2>2. PICK c : c = Built(w)
    OBVIOUS
  <2>3. /\ c \in Claim /\ c.worker = w /\ c.payload = task[w] /\ Covering(w)
        /\ claims' = [claims EXCEPT ![c.payload.job] = c]
    <3> HIDE DEF Built, Rewriting, Covering, CameFrom
    <3> QED BY <1>1, <2>1, <2>2, BuiltIsAClaim
  <2>4. /\ OnlyMoves(w) /\ task'[w] = task[w] /\ remembered'[w] = remembered[w]
        /\ Executing(w) /\ Covering(w)'
    BY <2>1, <2>3 DEF worker, OnlyMoves, Covering, Executing
  <2>5. RolesKept(j)
    <3> HIDE DEF Executing, Covering, OnlyMoves
    <3> QED BY <1>1, <2>3, <2>4, WrittenClaimKeepsRoles
  <2> HIDE DEF RolesKept
  <2> QED BY <1>1, <1>3, <2>1, <2>5, SameListsBalance
<1>6. CASE ResendByWorker(w)
  <2>1. OnlyMoves(w) /\ (Covering(w) => Covering(w)' /\ task'[w] = task[w])
    <3> HIDE DEF OnlyMoves, Covering, Acked, CameFrom, ResendByWorker
    <3> QED BY <1>1, <1>6, SteppedBack
  <2>2. UNCHANGED <<tasks, processing, claims, stage>>
    BY <1>6 DEF ResendByWorker, store
  <2> HIDE DEF OnlyMoves, Covering
  <2> QED BY <1>1, <1>2, <2>1, <2>2, SteppedBackBalance
<1> QED BY <1>4, <1>5, <1>6

(* So does a script of a reaper that is executed again. *)
LEMMA ResentScriptBalance ==
  ASSUME TypeOK, TypeOK', resends \in Nat, NEW r \in Reapers, ResendByReaper(r),
         NEW j \in Jobs, Balanced(j)
  PROVE  Balanced(j)'
<1>1. PICK k, l \in Nat : k = resends /\ l = resends + 1 /\ resends' = l
  BY DEF ResendByReaper, ResendOnce
<1>2. resends' \in Nat /\ resends <= resends'
  <2>1. k <= l
    BY <1>1
  <2> QED BY <1>1, <2>1
<1>3. UNCHANGED <<tasks, processing, claims, stage, pc, task, remembered>>
  BY DEF ResendByReaper, store, worker
<1>4. RolesKept(j)
  <2>1. ClaimsDropped
    BY <1>3 DEF ClaimsDropped
  <2>2. \A v \in Workers : pc'[v] = pc[v] /\ task'[v] = task[v] /\ remembered'[v] = remembered[v]
    BY <1>3
  <2> HIDE DEF GoesOn, ClaimsDropped
  <2> QED BY <2>1, <2>2, DroppedClaimsKeepRoles
<1> HIDE DEF RolesKept, Balanced
<1> QED BY <1>2, <1>3, <1>4, SameListsBalance

(* The inductive invariant of the copies *)
CopiesInv ==
  /\ ResendInv
  /\ resends \in Nat
  /\ ClaimsInv
  /\ \A j \in Jobs : Balanced(j)

(* At first there are no copies, no claims and nobody to take any. *)
LEMMA CopiesInvInit == ResendInit => CopiesInv
<1> SUFFICES ASSUME ResendInit PROVE CopiesInv
  OBVIOUS
<1>1. ResendInv /\ TypeOK /\ resends \in Nat
  BY ResendInvInit DEF ResendInit, ResendInv, IInv
<1>2. /\ tasks = <<>> /\ processing = <<>> /\ claims = [j \in Jobs |-> NoClaim]
      /\ stage = [j \in Jobs |-> "new"] /\ pc = [w \in Workers |-> "idle"]
      /\ snapshot = [r \in Reapers |-> {}] /\ resends = 0
      /\ sent = [p \in Workers \cup Reapers |-> NoCommand]
  BY DEF ResendInit, Init, StoreInit, ProducerInit, WorkerInit, ReaperInit
<1>3. ClaimsInv
  <2>1. ASSUME NEW w \in Workers PROVE CameFrom(w) /\ BuiltFresh(w) /\ ~Acked(w)
    BY <1>2 DEF CameFrom, BuiltFresh, Rewriting, Acked
  <2>2. ClaimsDated
    BY <1>2 DEF ClaimsDated
  <2>3. \A r \in Reapers : Scanned(r) = {}
    BY <1>2 DEF Scanned
  <2> HIDE DEF CameFrom, BuiltFresh, Acked, Scanned
  <2> QED BY <2>1, <2>2, <2>3 DEF ClaimsInv, ScannedStale
<1>4. ASSUME NEW j \in Jobs PROVE Balanced(j)
  <2>1. \A S : Occurrences(tasks, S) = 0 /\ Occurrences(processing, S) = 0
    <3>1. \A S : {i \in DOMAIN <<>> : <<>>[i] \in S} = {}
      OBVIOUS
    <3> QED BY <1>2, <3>1, FS_EmptySet DEF Occurrences
  <2>2. CopyCount(j) = 0 /\ Allowed(j) = 0
    BY <1>2, <2>1 DEF CopyCount, Allowed, Submitted
  <2>3. \A w \in Workers : ~Blank(w) /\ \A p : ~TakesCopy(w, p)
    BY <1>2 DEF Blank, TakesCopy, Responsible, Executing
  <2>4. Blanks(j) = {}
    <3> HIDE DEF Blank
    <3> QED BY <2>3 DEF Blanks
  <2>5. \A p \in TextsOf(j) : Takers(j)[p] = {} /\ CopiesOf(j)[p] = 0
    <3>1. \A p \in TextsOf(j) : ~ClaimTakes(p)
      BY <1>2 DEF ClaimTakes, TextsOf
    <3> HIDE DEF TakesCopy, ClaimTakes
    <3> QED BY <2>1, <2>3, <3>1 DEF Takers, CopiesOf
  <2>6. Cardinality({}) = 0
    BY FS_EmptySet
  <2>7. PICK D : D = {}
    OBVIOUS
  <2>8. \A p \in TextsOf(j) : Takers(j)[p] \ D = {}
    BY <2>5
  <2> HIDE DEF Takers, Blanks, CopiesOf, CopyCount, Allowed, TextsOf
  <2>9. Settles(D, TextsOf(j), Blanks(j), Takers(j), CopiesOf(j), CopyCount(j), Allowed(j))
    BY <2>2, <2>4, <2>5, <2>6, <2>7, <2>8 DEF Settles
  <2> QED BY <2>9 DEF Balanced, Balance
<1> QED BY <1>1, <1>3, <1>4 DEF CopiesInv

(* The inductive step of what is said of the claims *)
LEMMA ClaimsInvStep ==
  ASSUME Preempt = FALSE, ResendInv, ClaimsInv, [ResendNext]_resendVars
  PROVE  ClaimsInv'
<1>1. ResendInv'
  BY ResendInvStep
<1>2. CASE UNCHANGED resendVars
  <2>1. UNCHANGED <<claims, pc, task, remembered, reading, snapshot, sent>>
    BY <1>2 DEF resendVars, store, worker, reaper, wire
  <2> HIDE DEF ClaimsInv
  <2> QED BY <2>1, ClaimsStay
<1>3. CASE ProducerNext /\ UNCHANGED <<worker, reaper, wire>>
  <2>1. claims' = claims
    BY <1>3 DEF ProducerNext, Enqueue, EnqueueFails, SaveQueuedStatus, PushNewTask,
                CountSubmitted, store
  <2>2. UNCHANGED <<claims, pc, task, remembered, reading, snapshot, sent>>
    BY <1>3, <2>1 DEF worker, reaper, wire
  <2> HIDE DEF ClaimsInv
  <2> QED BY <2>2, ClaimsStay
<1>4. ASSUME NEW j \in Jobs, ResendPush(j) PROVE ClaimsInv'
  <2>1. UNCHANGED <<claims, pc, task, remembered, reading, snapshot, sent>>
    BY <1>4 DEF ResendPush, worker, reaper
  <2> HIDE DEF ClaimsInv
  <2> QED BY <2>1, ClaimsStay
<1> HIDE DEF ClaimsInv, ResendInv
<1>5. ASSUME NEW w \in Workers, WorkerStep(w) \/ Crash(w), UNCHANGED <<stage, reaper, resends>>,
             Sending(w, [pc |-> pc[w], task |-> task[w], remembered |-> remembered[w],
                         clock |-> clock, reading |-> reading[w]])
      PROVE  ClaimsInv'
  BY <1>1, <1>5, WorkerStepClaims
<1>6. ASSUME NEW r \in Reapers, Scan(r) \/ ReaperStep(r) \/ ScanFails(r),
             UNCHANGED <<stage, worker, resends>>,
             Sending(r, [snapshot |-> snapshot[r], rpc |-> rpc[r]])
      PROVE  ClaimsInv'
  BY <1>6, ReaperStepClaims
<1>7. ASSUME NEW w \in Workers, ResendRequeue(w) \/ ResendClaim(w) \/ ResendByWorker(w)
      PROVE  ClaimsInv'
  BY <1>1, <1>7, ResentClaims
<1>8. ASSUME NEW r \in Reapers, ResendByReaper(r) PROVE ClaimsInv'
  BY <1>8, ResentScanClaims
<1> HIDE DEF ResendPush, ResendRequeue, ResendClaim, ResendByWorker, ResendByReaper, Sending,
             WorkerStep, Crash, Scan, ReaperStep, ScanFails, ProducerNext
<1>9. ResendQueueNext => ClaimsInv'
  BY <1>3, <1>5, <1>6 DEF ResendQueueNext
<1> QED BY <1>2, <1>4, <1>7, <1>8, <1>9 DEF ResendNext

(* The inductive step of the balance *)
LEMMA BalanceStep ==
  ASSUME CopiesInv, [ResendNext]_resendVars, ResendInv', NEW j \in Jobs
  PROVE  Balanced(j)'
<1>1. ResendInv /\ TypeOK /\ TypeOK' /\ ClaimsInv /\ resends \in Nat /\ Balanced(j)
  BY DEF CopiesInv, ResendInv, IInv
<1>2. CASE UNCHANGED resendVars
  <2>1. UNCHANGED <<tasks, processing, claims, pc, task, remembered, stage, resends>>
    BY <1>2 DEF resendVars, store, worker, wire
  <2>2. RolesKept(j)
    <3>1. ClaimsDropped
      BY <2>1 DEF ClaimsDropped
    <3>2. \A v \in Workers : pc'[v] = pc[v] /\ task'[v] = task[v] /\ remembered'[v] = remembered[v]
      BY <2>1
    <3> HIDE DEF GoesOn, ClaimsDropped
    <3> QED BY <1>1, <3>1, <3>2, DroppedClaimsKeepRoles
  <2>3. resends' \in Nat /\ resends <= resends'
    <3>1. \A n \in Nat : n <= n
      OBVIOUS
    <3> QED BY <1>1, <2>1, <3>1
  <2> HIDE DEF RolesKept, Balanced, TypeOK
  <2> QED BY <1>1, <2>1, <2>2, <2>3, SameListsBalance
<1> HIDE DEF ClaimsInv, ResendInv, CopiesInv, TypeOK, Balanced
<1>3. CASE ProducerNext /\ UNCHANGED <<worker, reaper, wire>>
  <2>1. PICK i \in Jobs : Enqueue(i) \/ EnqueueFails(i)
    BY <1>3 DEF ProducerNext
  <2>2. UNCHANGED <<worker, reaper, resends>>
    BY <1>3 DEF wire
  <2> HIDE DEF Enqueue, EnqueueFails
  <2> QED BY <1>1, <2>1, <2>2, ProducerStepBalance
<1>4. ASSUME NEW i \in Jobs, ResendPush(i) PROVE Balanced(j)'
  BY <1>1, <1>4, ResentPushBalance
<1>5. ASSUME NEW w \in Workers, WorkerStep(w) \/ Crash(w), UNCHANGED <<stage, reaper, resends>>
      PROVE  Balanced(j)'
  BY <1>1, <1>5, WorkerStepBalance
<1>6. ASSUME NEW r \in Reapers, Scan(r) \/ ReaperStep(r) \/ ScanFails(r),
             UNCHANGED <<stage, worker, resends>>
      PROVE  Balanced(j)'
  BY <1>1, <1>6, ReaperStepBalance
<1>7. ASSUME NEW w \in Workers, ResendRequeue(w) \/ ResendClaim(w) \/ ResendByWorker(w)
      PROVE  Balanced(j)'
  BY <1>1, <1>7, ResentWorkerBalance
<1>8. ASSUME NEW r \in Reapers, ResendByReaper(r) PROVE Balanced(j)'
  BY <1>1, <1>8, ResentScriptBalance
<1> HIDE DEF ResendPush, ResendRequeue, ResendClaim, ResendByWorker, ResendByReaper, Sending,
             WorkerStep, Crash, Scan, ReaperStep, ScanFails, ProducerNext
<1>9. ResendQueueNext => Balanced(j)'
  BY <1>3, <1>5, <1>6 DEF ResendQueueNext
<1> QED BY <1>2, <1>4, <1>7, <1>8, <1>9 DEF ResendNext

(* The inductive step of both *)
LEMMA CopiesInvStep ==
  ASSUME Preempt = FALSE
  PROVE  CopiesInv /\ [ResendNext]_resendVars => CopiesInv'
<1> SUFFICES ASSUME CopiesInv, [ResendNext]_resendVars PROVE CopiesInv'
  OBVIOUS
<1>1. ResendInv /\ ClaimsInv /\ resends \in Nat
  BY DEF CopiesInv
<1>2. ResendInv'
  BY <1>1, ResendInvStep
<1>3. ClaimsInv'
  <2> HIDE DEF ClaimsInv, ResendInv
  <2> QED BY <1>1, ClaimsInvStep
<1>4. resends' \in Nat
  <2>1. resends' = resends \/ resends' = resends + 1
    BY DEF ResendNext, ResendQueueNext, ResendPush, ResendRequeue, ResendClaim, ResendByWorker,
           ResendByReaper, ResendOnce, resendVars, wire
  <2> QED BY <1>1, <2>1
<1>5. \A j \in Jobs : Balanced(j)'
  BY <1>2, BalanceStep
<1> QED BY <1>2, <1>3, <1>4, <1>5 DEF CopiesInv

(* A job that is balanced has no more copies than it is allowed. *)
LEMMA CopiesInvImplies == CopiesInv => CopiesBounded
<1> SUFFICES ASSUME CopiesInv, NEW j \in Jobs
             PROVE  Cardinality(PendingOf(j)) + Cardinality(InProcessing(j)) <= 1 + resends
  BY DEF CopiesBounded
<1>1. TypeOK /\ resends \in Nat /\ Balanced(j)
  BY DEF CopiesInv, ResendInv, IInv
<1>2. tasks \in Seq(Payload) /\ processing \in Seq(Payload)
  BY <1>1 DEF TypeOK, StoreTypeOK
<1>3. PICK a, b, k, l :
        /\ a = Occurrences(tasks, TextsOf(j)) /\ b = Occurrences(processing, TextsOf(j))
        /\ k = Allowed(j) /\ l = resends
  OBVIOUS
<1>4. a \in Nat /\ b \in Nat /\ l \in Nat /\ (k = l \/ k = l + 1)
  <2>1. a \in Nat /\ b \in Nat
    BY <1>2, <1>3, OccurrencesType
  <2> QED BY <1>1, <1>3, <2>1 DEF Allowed
<1>5. PICK D : D \in SUBSET Tokens /\ a + b + Cardinality(D) <= k
  BY <1>1, <1>3 DEF Balanced, Balance, Settles, CopyCount
<1>6. Cardinality(D) \in Nat
  BY <1>5, TokensCount
<1>7. a + b <= 1 + l
  BY <1>4, <1>5, <1>6
<1>8. Cardinality(PendingOf(j)) = a /\ Cardinality(InProcessing(j)) = b
  <2>1. /\ PendingOf(j) = {i \in DOMAIN tasks : tasks[i] \in TextsOf(j)}
        /\ InProcessing(j) = {i \in DOMAIN processing : processing[i] \in TextsOf(j)}
    BY <1>2 DEF PendingOf, InProcessing, TextsOf
  <2> QED BY <1>3, <2>1 DEF Occurrences
<1> QED BY <1>3, <1>7, <1>8

(***************************************************************************)
(* With a timeout that exceeds every execution, a client that executes     *)
(* commands twice leaves at most one copy of a job more for each of them,  *)
(* with any number of jobs, workers and reapers and after any crashes and  *)
(* failed calls: a copy that is removed on behalf of another is made good  *)
(* by the one that nobody is left to take.                                 *)
(***************************************************************************)
THEOREM CopiesStayBounded ==
  ASSUME Preempt = FALSE
  PROVE  ResendSpec => []CopiesBounded
<1>1. CopiesInv /\ [ResendNext]_resendVars => CopiesInv'
  BY CopiesInvStep, Zenon
<1> QED BY <1>1, CopiesInvInit, CopiesInvImplies, PTL DEF ResendSpec

============================================================================
