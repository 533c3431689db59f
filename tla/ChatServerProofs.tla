-------------------------- MODULE ChatServerProofs --------------------------
(***************************************************************************)
(* Theorems about ChatServer, for any number of requests, any bounds and   *)
(* any shape of the model: all threads use one model, published once, the  *)
(* books of the runtime balance, its events are in order, and the numbers  *)
(* of an answer agree with each other and with those of the older loop.    *)
(***************************************************************************)
EXTENDS ChatServer, EstimatorProofs

Locked == {"recheck", "fetch_tokenizer", "fetch_model", "prepare", "publish",
           "release"}
Loading == {"fetch_tokenizer", "fetch_model", "prepare", "publish"}

AllPcs == ChatPcs \cup GenerationPcs \cup LoadPcs

(***************************************************************************)
(* OneModel is not inductive: it needs that only the holder of the lock    *)
(* loads, that nobody loads once the model is published, and that it is    *)
(* ready when it is.                                                       *)
(***************************************************************************)
LoaderInv ==
  /\ pc \in [Requests -> AllPcs]
  /\ LoaderTypeOK
  /\ \A r \in Requests : pc[r] \in Locked <=> lock = r
  /\ \A r \in Requests : pc[r] \in Loading => ~loaded
  /\ \A r \in Requests : pc[r] = "publish" => model.ready
  /\ \A r \in Requests : pc[r] \in {"release", "get"} => loaded
  /\ loaded => model.ready
  /\ OneModel

(* The steps that leave the loader's attributes alone. *)
LEMMA OtherStepKeepsLoader ==
  ASSUME LoaderInv, NEW r \in Requests, NEW to \in AllPcs,
         pc' = [pc EXCEPT ![r] = to], pc[r] \notin LoadPcs,
         to \in GenerationPcs => pc[r] \in GenerationPcs,
         to \notin LoadPcs \/ to = "check",
         UNCHANGED loader
  PROVE  LoaderInv'
<1>1. pc' \in [Requests -> AllPcs] /\ LoaderTypeOK'
  BY DEF LoaderInv, LoaderTypeOK, loader
<1>2. \A q \in Requests : pc'[q] = IF q = r THEN to ELSE pc[q]
  BY DEF LoaderInv
<1>3. to \notin Locked /\ pc[r] \notin Locked /\ to \notin {"publish", "release", "get"}
  BY DEF Locked, LoadPcs
<1>4. to \notin Loading
  BY DEF Loading, LoadPcs
<1> QED
  BY <1>1, <1>2, <1>3, <1>4 DEF LoaderInv, OneModel, loader

(* The steps of load() and get(), and an exception in it. *)
LEMMA LoadKeepsLoader ==
  ASSUME LoaderInv, NEW r \in Requests, LoadStep(r) \/ LoadRaises(r)
  PROVE  LoaderInv'
<1> USE NobodyIsNoRequest DEF LoaderInv, LoaderTypeOK, OneModel, Goto, AllPcs,
        ChatPcs, GenerationPcs, LoadPcs, Locked, Loading, Handle, loader
<1>1. CASE Check(r)
  BY <1>1 DEF Check
<1>2. CASE Acquire(r)
  BY <1>2 DEF Acquire
<1>3. CASE Recheck(r)
  BY <1>3 DEF Recheck
<1>4. CASE FetchTokenizer(r)
  BY <1>4 DEF FetchTokenizer
<1>5. CASE FetchModel(r)
  BY <1>5 DEF FetchModel
<1>6. CASE Prepare(r)
  BY <1>6 DEF Prepare
<1>7. CASE Publish(r)
  BY <1>7 DEF Publish
<1>8. CASE Release(r)
  BY <1>8 DEF Release
<1>9. CASE Get(r)
  BY <1>9 DEF Get
<1>10. CASE LoadRaises(r)
  BY <1>10 DEF LoadRaises
<1> QED
  BY <1>1, <1>2, <1>3, <1>4, <1>5, <1>6, <1>7, <1>8, <1>9, <1>10 DEF LoadStep

(* Every step keeps the invariant of the loader. *)
LEMMA LoaderInvStep == LoaderInv /\ [Next]_vars => LoaderInv'
<1> SUFFICES ASSUME LoaderInv, [Next]_vars PROVE LoaderInv'
  OBVIOUS
<1>1. CASE UNCHANGED vars
  BY <1>1 DEF vars, loader, LoaderInv, LoaderTypeOK, OneModel
<1>2. ASSUME NEW r \in Requests, Accept(r) \/ RequestStep(r) \/ RequestRaises(r)
      PROVE  LoaderInv'
  <2>1. CASE LoadStep(r) \/ LoadRaises(r)
    BY <2>1, LoadKeepsLoader
  <2>2. CASE ~(LoadStep(r) \/ LoadRaises(r))
    <3>1. PICK to \in AllPcs :
            /\ pc' = [pc EXCEPT ![r] = to]
            /\ pc[r] \notin LoadPcs
            /\ to \in GenerationPcs => pc[r] \in GenerationPcs
            /\ to \notin LoadPcs \/ to = "check"
            /\ UNCHANGED loader
      BY <1>2, <2>2 DEF RequestStep, GenerationStep, RequestRaises,
         InferenceRaises, Accept, Register, Dispatch, Finish, Fail, Leave,
         Prefill, ReportCreated, Decode, EndDecode, ReportUpdated, Goto,
         AllPcs, ChatPcs, GenerationPcs, LoadPcs
    <3> QED BY <3>1, OtherStepKeepsLoader
  <2> QED BY <2>1, <2>2
<1> QED BY <1>1, <1>2 DEF Next

(* Initially nothing is loaded and nobody loads. *)
LEMMA LoaderInvInit == Init => LoaderInv
<1> SUFFICES ASSUME Init PROVE LoaderInv
  OBVIOUS
<1>1. \A r \in Requests : pc[r] = "new" /\ lock # r
  BY NobodyIsNoRequest DEF Init, LoaderInit
<1>2. pc \in [Requests -> AllPcs]
  BY DEF Init, AllPcs, ChatPcs
<1>3. LoaderTypeOK
  <2>1. handle \in [Requests -> Handle]
    BY DEF Init, LoaderInit, Handle
  <2> QED BY <2>1 DEF Init, LoaderInit, LoaderTypeOK
<1>4. ~loaded
  BY DEF Init, LoaderInit
<1> QED
  BY <1>1, <1>2, <1>3, <1>4
  DEF LoaderInv, OneModel, GenerationPcs, Locked, Loading

(* All threads generate with one prepared model, whatever fails to load. *)
THEOREM ModelShared == Spec => []OneModel
<1>1. LoaderInv => OneModel
  BY DEF LoaderInv
<1> QED BY LoaderInvInit, LoaderInvStep, <1>1, PTL DEF Spec

(* A published model is never replaced, changed or withdrawn. *)
THEOREM ModelStays == Spec => LoadedForGood
<1>1. LoaderInv /\ [Next]_vars
        => [loaded => loaded' /\ UNCHANGED <<tokenizer, model>>]_vars
  <2> SUFFICES ASSUME LoaderInv, Next, loaded
               PROVE  loaded' /\ UNCHANGED <<tokenizer, model>>
    OBVIOUS
  <2>1. PICK r \in Requests : Accept(r) \/ RequestStep(r) \/ RequestRaises(r)
    BY DEF Next
  <2>2. pc[r] \notin Loading
    BY DEF LoaderInv
  <2> QED
    BY <2>1, <2>2 DEF Loading, RequestStep, GenerationStep, RequestRaises,
       InferenceRaises, Accept, Register, Dispatch, Finish, Fail, Leave,
       Prefill, ReportCreated, Decode, EndDecode, ReportUpdated, LoadStep,
       LoadRaises, Check, Acquire, Recheck, FetchTokenizer, FetchModel,
       Prepare, Publish, Release, Get, Goto, loader
<1> QED BY LoaderInvInit, LoaderInvStep, <1>1, PTL DEF Spec, LoadedForGood

----------------------------------------------------------------------------
(***************************************************************************)
(* The books.  A request is in the active set from Register to Finish or   *)
(* Fail, and in the gauge from Accept to Leave; the counters follow the    *)
(* sizes of these two sets.                                                *)
(***************************************************************************)
Inside == {r \in Requests : pc[r] \notin {"new", "done"}}

Books ==
  /\ pc \in [Requests -> AllPcs]
  /\ total \in Nat /\ finished \in Nat /\ errors \in Nat
  /\ active = {r \in Requests : pc[r] \notin {"new", "register", "leave", "done"}}
  /\ IsFiniteSet(active) /\ IsFiniteSet(Inside)
  /\ total = finished + errors + Cardinality(active)
  /\ gauge = Cardinality(Inside)

(* Initially nobody is inside. *)
LEMMA BooksInit == Init => Books
<1> SUFFICES ASSUME Init PROVE Books
  OBVIOUS
<1>1. active = {} /\ Inside = {}
  BY DEF Init, RuntimeInit, Inside
<1>2. IsFiniteSet({}) /\ Cardinality({}) = 0
  BY FS_EmptySet
<1>3. pc \in [Requests -> AllPcs]
  BY DEF Init, AllPcs, ChatPcs
<1>4. active = {r \in Requests : pc[r] \notin {"new", "register", "leave", "done"}}
  BY <1>1 DEF Init
<1> QED
  BY <1>1, <1>2, <1>3, <1>4 DEF Books, Init, RuntimeInit

(* A step of one request within the handler changes neither set. *)
LEMMA StepWithinKeepsBooks ==
  ASSUME Books, NEW r \in Requests, NEW to \in AllPcs,
         pc' = [pc EXCEPT ![r] = to],
         pc[r] \notin {"new", "register", "leave", "done"},
         to \notin {"new", "register", "leave", "done"},
         UNCHANGED <<total, finished, errors, active, gauge>>
  PROVE  Books'
<1>1. \A q \in Requests : pc'[q] = IF q = r THEN to ELSE pc[q]
  BY DEF Books
<1>2. Inside' = Inside
  BY <1>1 DEF Inside
<1>3. active' = {q \in Requests : pc'[q] \notin {"new", "register", "leave", "done"}}
  BY <1>1 DEF Books
<1>4. pc' \in [Requests -> AllPcs]
  BY DEF Books
<1> QED
  BY <1>2, <1>3, <1>4 DEF Books

(* Every step keeps the books. *)
LEMMA BooksStep == Books /\ [Next]_vars => Books'
<1> SUFFICES ASSUME Books, [Next]_vars PROVE Books'
  OBVIOUS
<1>1. CASE UNCHANGED vars
  BY <1>1 DEF vars, runtime, Books, Inside
<1>2. ASSUME NEW r \in Requests, Accept(r) PROVE Books'
  <2>1. /\ pc' = [pc EXCEPT ![r] = "register"] /\ pc[r] = "new"
        /\ gauge' = gauge + 1
        /\ UNCHANGED <<total, finished, errors, active>>
    BY <1>2 DEF Accept, Goto, runtime
  <2>2. \A q \in Requests : pc'[q] = IF q = r THEN "register" ELSE pc[q]
    BY <2>1 DEF Books
  <2>3. Inside' = Inside \cup {r} /\ r \notin Inside
    BY <2>1, <2>2 DEF Inside
  <2>4. IsFiniteSet(Inside') /\ Cardinality(Inside') = Cardinality(Inside) + 1
    BY <2>3, FS_AddElement DEF Books
  <2>5. active' = {q \in Requests : pc'[q] \notin {"new", "register", "leave", "done"}}
    BY <2>1, <2>2 DEF Books
  <2>6. pc' \in [Requests -> AllPcs]
    BY <2>1 DEF Books, AllPcs, ChatPcs
  <2> QED
    BY <2>1, <2>4, <2>5, <2>6 DEF Books
<1>3. ASSUME NEW r \in Requests, Register(r) PROVE Books'
  <2>1. /\ pc' = [pc EXCEPT ![r] = "dispatch"] /\ pc[r] = "register"
        /\ total' = total + 1 /\ active' = active \cup {r}
        /\ UNCHANGED <<finished, errors, gauge>>
    BY <1>3 DEF Register, RequestStarted, Goto
  <2>2. \A q \in Requests : pc'[q] = IF q = r THEN "dispatch" ELSE pc[q]
    BY <2>1 DEF Books
  <2>3. Inside' = Inside
    BY <2>1, <2>2 DEF Inside
  <2>4. r \notin active
    BY <2>1 DEF Books
  <2>5. IsFiniteSet(active') /\ Cardinality(active') = Cardinality(active) + 1
    BY <2>1, <2>4, FS_AddElement DEF Books
  <2>6. active' = {q \in Requests : pc'[q] \notin {"new", "register", "leave", "done"}}
    BY <2>1, <2>2 DEF Books
  <2>7. pc' \in [Requests -> AllPcs]
    BY <2>1 DEF Books, AllPcs, ChatPcs
  <2>8. Cardinality(active) \in Nat
    BY FS_CardinalityType DEF Books
  <2>9. total' = finished' + errors' + Cardinality(active')
    BY <2>1, <2>5, <2>8 DEF Books
  <2>10. total' \in Nat /\ finished' \in Nat /\ errors' \in Nat
    BY <2>1 DEF Books
  <2> QED
    BY <2>1, <2>3, <2>5, <2>6, <2>7, <2>9, <2>10 DEF Books
<1>4. ASSUME NEW r \in Requests, Finish(r) \/ Fail(r) PROVE Books'
  <2>1. /\ pc' = [pc EXCEPT ![r] = "leave"] /\ pc[r] \in {"returned", "raised"}
        /\ active' = active \ {r}
        /\ \/ finished' = finished + 1 /\ errors' = errors
           \/ finished' = finished /\ errors' = errors + 1
        /\ UNCHANGED <<total, gauge>>
    BY <1>4 DEF Finish, Fail, RequestFinished, RequestFailed, Goto
  <2>2. \A q \in Requests : pc'[q] = IF q = r THEN "leave" ELSE pc[q]
    BY <2>1 DEF Books
  <2>3. Inside' = Inside
    BY <2>1, <2>2 DEF Inside
  <2>4. r \in active
    BY <2>1 DEF Books
  <2>5. IsFiniteSet(active') /\ Cardinality(active') = Cardinality(active) - 1
    BY <2>1, <2>4, FS_RemoveElement DEF Books
  <2>6. active' = {q \in Requests : pc'[q] \notin {"new", "register", "leave", "done"}}
    BY <2>1, <2>2 DEF Books
  <2>7. pc' \in [Requests -> AllPcs]
    BY <2>1 DEF Books, AllPcs, ChatPcs
  <2>8. Cardinality(active) \in Nat
    BY FS_CardinalityType DEF Books
  <2>9. total' = finished' + errors' + Cardinality(active')
    BY <2>1, <2>5, <2>8 DEF Books
  <2>10. total' \in Nat /\ finished' \in Nat /\ errors' \in Nat
    BY <2>1 DEF Books
  <2> QED
    BY <2>1, <2>3, <2>5, <2>6, <2>7, <2>9, <2>10 DEF Books
<1>5. ASSUME NEW r \in Requests, Leave(r) PROVE Books'
  <2>1. /\ pc' = [pc EXCEPT ![r] = "done"] /\ pc[r] = "leave"
        /\ gauge' = gauge - 1
        /\ UNCHANGED <<total, finished, errors, active>>
    BY <1>5 DEF Leave, Goto, runtime
  <2>2. \A q \in Requests : pc'[q] = IF q = r THEN "done" ELSE pc[q]
    BY <2>1 DEF Books
  <2>3. Inside' = Inside \ {r} /\ r \in Inside
    BY <2>1, <2>2 DEF Inside
  <2>4. IsFiniteSet(Inside') /\ Cardinality(Inside') = Cardinality(Inside) - 1
    BY <2>3, FS_RemoveElement DEF Books
  <2>5. active' = {q \in Requests : pc'[q] \notin {"new", "register", "leave", "done"}}
    BY <2>1, <2>2 DEF Books
  <2>6. pc' \in [Requests -> AllPcs]
    BY <2>1 DEF Books, AllPcs, ChatPcs
  <2> QED
    BY <2>1, <2>4, <2>5, <2>6 DEF Books
<1>6. ASSUME NEW r \in Requests,
             Dispatch(r) \/ (GenerationStep(r) /\ UNCHANGED gauge) \/ RequestRaises(r)
      PROVE  Books'
  <2> DEFINE Moves(to) ==
        /\ pc' = [pc EXCEPT ![r] = to]
        /\ pc[r] \notin {"new", "register", "leave", "done"}
        /\ to \notin {"new", "register", "leave", "done"}
        /\ UNCHANGED <<total, finished, errors, active, gauge>>
  <2>1. CASE (LoadStep(r) \/ LoadRaises(r)) /\ UNCHANGED <<runtime, gauge>>
    <3>1. \E to \in AllPcs : Moves(to)
      BY <2>1 DEF LoadStep, LoadRaises, Check, Acquire, Recheck,
         FetchTokenizer, FetchModel, Prepare, Publish, Release, Get, Goto,
         runtime, AllPcs, ChatPcs, GenerationPcs, LoadPcs
    <3> QED BY <3>1, StepWithinKeepsBooks
  <2>2. CASE Dispatch(r) \/ ((EndDecode(r) \/ InferenceRaises(r)) /\ UNCHANGED gauge)
    <3>1. \E to \in AllPcs : Moves(to)
      BY <2>2 DEF Dispatch, EndDecode, InferenceRaises, Goto, runtime, AllPcs,
         ChatPcs, GenerationPcs, LoadPcs
    <3> QED BY <3>1, StepWithinKeepsBooks
  <2>3. CASE (Prefill(r) \/ Decode(r)) /\ UNCHANGED gauge
    <3>1. UNCHANGED <<total, finished, errors, active>>
      BY <2>3 DEF Prefill, Decode, ApplyPolicy, PolicyApplied
    <3>2. \E to \in {"report_created", "decode", "report_updated"} :
            pc' = [pc EXCEPT ![r] = to] /\ pc[r] \in {"prefill", "decode"}
      BY <2>3 DEF Prefill, Decode, Goto
    <3>3. \E to \in AllPcs : Moves(to)
      BY <2>3, <3>1, <3>2 DEF AllPcs, GenerationPcs
    <3> QED BY <3>3, StepWithinKeepsBooks
  <2>4. CASE (ReportCreated(r) \/ ReportUpdated(r)) /\ UNCHANGED gauge
    <3>1. UNCHANGED <<total, finished, errors, active>>
      BY <2>4 DEF ReportCreated, ReportUpdated, UpdateState
    <3>2. \E to \in {"decode", "returned"} :
            /\ pc' = [pc EXCEPT ![r] = to]
            /\ pc[r] \in {"report_created", "report_updated"}
      BY <2>4 DEF ReportCreated, ReportUpdated, Goto
    <3>3. \E to \in AllPcs : Moves(to)
      BY <2>4, <3>1, <3>2 DEF AllPcs, GenerationPcs, ChatPcs
    <3> QED BY <3>3, StepWithinKeepsBooks
  <2> QED
    BY <1>6, <2>1, <2>2, <2>3, <2>4 DEF GenerationStep, RequestRaises
<1>7. ASSUME Next PROVE Books'
  <2>1. PICK r \in Requests : Accept(r) \/ RequestStep(r) \/ RequestRaises(r)
    BY <1>7 DEF Next
  <2> DEFINE Within ==
        Dispatch(r) \/ (GenerationStep(r) /\ UNCHANGED gauge) \/ RequestRaises(r)
             Ends == Finish(r) \/ Fail(r)
  <2>2. Accept(r) \/ Register(r) \/ Ends \/ Leave(r) \/ Within
    BY <2>1 DEF RequestStep
  <2>3. Accept(r) => Books'
    BY <1>2
  <2>4. Register(r) => Books'
    BY <1>3
  <2>5. Ends => Books'
    BY <1>4
  <2>6. Leave(r) => Books'
    BY <1>5
  <2>7. Within => Books'
    BY <1>6
  <2> HIDE DEF Within, Ends
  <2> QED
    BY <2>2, <2>3, <2>4, <2>5, <2>6, <2>7
<1> QED
  BY <1>1, <1>7

(* The counters of the runtime and the gauge balance at every moment. *)
THEOREM BooksBalance == Spec => []Accounting
<1>1. Books => Accounting
  <2> SUFFICES ASSUME Books PROVE gauge >= Cardinality(active)
    BY DEF Books, Accounting
  <2>1. active \subseteq Inside
    BY DEF Books, Inside
  <2>2. Cardinality(active) <= Cardinality(Inside)
    BY <2>1, FS_Subset DEF Books
  <2>3. Cardinality(active) \in Nat /\ Cardinality(Inside) \in Nat
    BY FS_CardinalityType DEF Books
  <2> QED BY <2>2, <2>3 DEF Books
<1> QED BY BooksInit, BooksStep, <1>1, PTL DEF Spec
----------------------------------------------------------------------------
(***************************************************************************)
(* The local variables of generate().  AnswerConsistent and LegacyAgrees   *)
(* speak of answers only; they follow from what holds of every request at  *)
(* every step: the policy is applied once per call of the model, and what  *)
(* is in the cache and what was evicted add up to the calls so far.        *)
(***************************************************************************)
Early == {"new", "register", "dispatch", "prefill"} \cup LoadPcs

(* What an estimate says of the length of a cache *)
LengthTold(format, n, generated) ==
  IF Readable(format) THEN n
  ELSE IF generated = 0 THEN PromptTokens ELSE PromptTokens + generated - 1

(* All tokens are there: the loop has ended. *)
Complete(g) ==
  /\ g.applied = g.produced
  /\ g.produced \in 1..g.limit
  /\ g.produced = g.limit \/ g.produced > 1

(* The result, if the request has one *)
Stage(at, g) ==
  /\ at \in Early => g.produced = 0 /\ g.applied = 0
  /\ at = "report_created" => g.produced = 0 /\ g.applied = 1
  /\ at = "decode" => g.applied = g.produced /\ g.produced \in 1..g.limit
  /\ at = "report_updated" => Complete(g)
  /\ at \notin {"returned", "leave", "done"} => g.reported = 0
  /\ g.reported > 0 =>
       /\ Complete(g)
       /\ g.reported = LengthTold(g.format, g.cached, g.produced)
       /\ g.bytes = SizeOf(g.reported)

Counted(g) ==
  /\ g.applied = 0 => g.evicted = 0
  /\ g.applied > 0 => g.cached <= PromptTokens + g.applied - 1
  /\ g.applied > 0 /\ (Readable(g.format) \/ g.budget = NoBudget) =>
       g.cached + g.evicted = PromptTokens + g.applied - 1
  /\ g.budget = NoBudget => g.evicted = 0

Sees(g) ==
  g.applied > 0 /\ Readable(g.format) =>
    g.cached = IF g.budget \in 0..g.before THEN g.budget ELSE g.before

GenInv ==
  /\ pc \in [Requests -> AllPcs]
  /\ GenerationTypeOK
  /\ \A r \in Requests : Stage(pc[r], gen[r]) /\ Counted(gen[r]) /\ Sees(gen[r])

(* The numbers the bounds allow *)
LEMMA BoundsArePositive ==
  /\ PromptTokens \in Nat \ {0} /\ MaxTokens \in Nat \ {0}
  /\ \A b \in Budgets : b \in Nat \/ b = -1
  /\ \A format \in CacheFormats : format \in Formats
BY PromptTokensIsPositive, MaxTokensIsPositive, BudgetsAreNaturals,
   CacheFormatsAreFormats DEF NoBudget

(* A size is a number of bytes. *)
LEMMA SizeType == \A n \in Nat : SizeOf(n) \in Nat
<1>1. /\ Layers \in Nat /\ Heads \in Nat /\ HeadDim \in Nat /\ ElementSize \in Nat
  BY ShapeIsPositive
<1> QED BY <1>1 DEF SizeOf

(* The estimates of a request, within the bounds of the table *)
LEMMA EstimatedIs ==
  ASSUME GenerationTypeOK, NEW r \in Requests,
         NEW n \in CacheLengths, NEW generated \in 0..MaxTokens
  PROVE  LET tokens == LengthTold(gen[r].format, n, generated)
         IN /\ Estimated(r, n, generated) = State(tokens, SizeOf(tokens))
            /\ tokens \in Nat
<1> DEFINE format == gen[r].format
           tokens == LengthTold(format, n, generated)
<1>1. format \in CacheFormats /\ format \in Formats
  BY BoundsArePositive DEF GenerationTypeOK, Run
<1> HIDE DEF format
<1>2. n \in Nat /\ generated \in Nat /\ PromptTokens \in Nat
  BY BoundsArePositive DEF CacheLengths
<1>3. Estimated(r, n, generated) = Estimate(Cache(format, n), PromptTokens, generated)
  <2>1. Estimates[format][n][generated] = Estimate(Cache(format, n), PromptTokens, generated)
    BY <1>1 DEF Estimates
  <2> QED BY <2>1 DEF Estimated, format
<1>4. Estimate(Cache(format, n), PromptTokens, generated) = State(tokens, SizeOf(tokens))
  BY <1>1, <1>2, EstimateExact DEF LengthTold
<1>5. tokens \in Nat
  BY <1>2 DEF LengthTold
<1> QED BY <1>3, <1>4, <1>5 DEF format

(* One application of the policy: what it is told, what it leaves and what *)
(* it counts                                                               *)
LEMMA PolicyEffect ==
  ASSUME GenerationTypeOK, NEW r \in Requests, NEW n \in CacheLengths,
         NEW step \in Nat, NEW generated \in 0..MaxTokens,
         ApplyPolicy(r, n, step, generated)
  PROVE  LET g == gen[r]
             h == gen'[r]
         IN /\ GenerationTypeOK'
            /\ \A q \in Requests : q # r => gen'[q] = gen[q]
            /\ h.limit = g.limit /\ h.budget = g.budget /\ h.format = g.format
            /\ h.reported = g.reported /\ h.bytes = g.bytes
            /\ h.applied = g.applied + 1
            /\ h.produced = IF step = 0 THEN g.produced ELSE g.produced + 1
            /\ h.cached <= n
            /\ Sees(h)
            /\ Readable(g.format) => h.cached + h.evicted = g.evicted + n
            /\ g.budget = NoBudget => h.cached = n /\ h.evicted = g.evicted
            /\ PolicyApplied(r, step, h.before)
<1> DEFINE g == gen[r]
           h == gen'[r]
           before == Estimated(r, n, generated).tokens
           after == TokensAfter(r, n, before)
<1>1. g \in Run
  BY DEF GenerationTypeOK
<1>2. before \in Nat /\ (Readable(g.format) => before = n)
  BY EstimatedIs DEF State, LengthTold
<1>3. /\ g.limit \in 1..MaxTokens /\ g.budget \in Budgets /\ g.format \in CacheFormats
      /\ g.cached \in Nat /\ g.produced \in Nat /\ g.applied \in Nat
      /\ g.evicted \in Nat /\ g.before \in Nat /\ g.reported \in Nat /\ g.bytes \in Nat
  BY <1>1 DEF Run
<1>4. n \in Nat /\ (g.budget \in Nat \/ g.budget = NoBudget) /\ NoBudget = -1
  BY <1>3, BoundsArePositive DEF CacheLengths, NoBudget
<1> HIDE DEF before
<1>5. after \in Nat
  BY <1>2, <1>4 DEF TokensAfter, Evicts
<1>6. EvictedTokens(before, after) \in Nat
  BY <1>2, <1>5 DEF EvictedTokens
<1>7. Kept(r, n) \in Nat /\ Kept(r, n) <= n
  BY <1>4 DEF Kept, Evicts
<1>8. /\ PolicyApplied(r, step, before)
      /\ gen' = [gen EXCEPT ![r] =
           [limit |-> g.limit, budget |-> g.budget, format |-> g.format,
            cached |-> Kept(r, n),
            produced |-> IF step = 0 THEN g.produced ELSE g.produced + 1,
            applied |-> g.applied + 1,
            evicted |-> g.evicted + EvictedTokens(before, after),
            before |-> before, reported |-> g.reported, bytes |-> g.bytes]]
  BY <1>1 DEF ApplyPolicy, before, Run, GenerationTypeOK
<1>9. /\ h = [limit |-> g.limit, budget |-> g.budget, format |-> g.format,
               cached |-> Kept(r, n),
               produced |-> IF step = 0 THEN g.produced ELSE g.produced + 1,
               applied |-> g.applied + 1,
               evicted |-> g.evicted + EvictedTokens(before, after),
               before |-> before, reported |-> g.reported, bytes |-> g.bytes]
      /\ \A q \in Requests : q # r => gen'[q] = gen[q]
  BY <1>8 DEF GenerationTypeOK
<1>10. GenerationTypeOK'
  <2>1. h \in Run
    BY <1>2, <1>3, <1>6, <1>7, <1>9 DEF Run
  <2> QED BY <1>8, <2>1 DEF GenerationTypeOK
<1> HIDE DEF h, g
<1>11. Sees(h)
  BY <1>2, <1>4, <1>9 DEF Sees, Kept, Evicts, g
<1>12. Readable(g.format) => h.cached + h.evicted = g.evicted + n
  <2>1. ASSUME Readable(g.format)
        PROVE  Kept(r, n) + EvictedTokens(n, TokensAfter(r, n, n)) = n
    BY <1>4 DEF Kept, Evicts, EvictedTokens, TokensAfter, g
  <2> QED BY <1>2, <1>3, <1>4, <1>6, <1>7, <1>9, <2>1
<1>13. g.budget = NoBudget => h.cached = n /\ h.evicted = g.evicted
  BY <1>2, <1>3, <1>9 DEF Kept, Evicts, EvictedTokens, TokensAfter, g
<1> QED
  BY <1>7, <1>8, <1>9, <1>10, <1>11, <1>12, <1>13 DEF g, h
(* A step of the handler or the loader changes pc only, and one that raises *)
(* leaves no result.                                                        *)
LEMMA MoveKeepsGen ==
  ASSUME GenInv, NEW r \in Requests, NEW to \in AllPcs,
         pc' = [pc EXCEPT ![r] = to], gen' = gen,
         Stage(pc[r], gen[r]) => Stage(to, gen[r])
  PROVE  GenInv'
<1>1. \A q \in Requests : pc'[q] = IF q = r THEN to ELSE pc[q]
  BY DEF GenInv
<1>2. pc' \in [Requests -> AllPcs]
  BY DEF GenInv
<1>3. \A q \in Requests : Stage(pc'[q], gen'[q])
  BY <1>1 DEF GenInv
<1>4. GenerationTypeOK'
  BY DEF GenInv, GenerationTypeOK
<1> QED BY <1>2, <1>3, <1>4 DEF GenInv

(* A step of generate() changes the variables of its request only. *)
LEMMA RunKeepsGen ==
  ASSUME GenInv, NEW r \in Requests, NEW to \in AllPcs,
         pc' = [pc EXCEPT ![r] = to], GenerationTypeOK',
         \A q \in Requests : q # r => gen'[q] = gen[q],
         Stage(to, gen'[r]), Counted(gen'[r]), Sees(gen'[r])
  PROVE  GenInv'
<1>1. \A q \in Requests : pc'[q] = IF q = r THEN to ELSE pc[q]
  BY DEF GenInv
<1>2. pc' \in [Requests -> AllPcs]
  BY DEF GenInv
<1>3. \A q \in Requests : Stage(pc'[q], gen'[q]) /\ Counted(gen'[q]) /\ Sees(gen'[q])
  BY <1>1 DEF GenInv
<1> QED BY <1>2, <1>3 DEF GenInv

(* The steps that do not generate *)
LEMMA OtherStepKeepsGen ==
  ASSUME GenInv, NEW r \in Requests,
         Accept(r) \/ Register(r) \/ Dispatch(r) \/ Finish(r) \/ Fail(r) \/ Leave(r)
           \/ (LoadStep(r) /\ gen' = gen) \/ (LoadRaises(r) /\ gen' = gen)
           \/ EndDecode(r) \/ InferenceRaises(r)
  PROVE  GenInv'
<1> DEFINE g == gen[r]
<1>1. PICK to \in AllPcs :
        /\ pc' = [pc EXCEPT ![r] = to]
        /\ gen' = gen
        /\ \/ pc[r] \in Early /\ to \in Early \cup {"returned", "raised"}
           \/ to = "raised" /\ pc[r] \notin {"returned", "leave", "done"}
           \/ pc[r] \in {"raised", "returned", "leave"} /\ to \in {"leave", "done"}
           \/ pc[r] = "decode" /\ to = "report_updated" /\ ~MoreTokens(r)
  BY DEF Accept, Register, Dispatch, Finish, Fail, Leave, LoadStep, LoadRaises,
     Check, Acquire, Recheck, FetchTokenizer, FetchModel, Prepare, Publish,
     Release, Get, EndDecode, InferenceRaises, Goto, AllPcs, ChatPcs,
     GenerationPcs, LoadPcs, Early
<1>2. ASSUME Stage(pc[r], g) PROVE Stage(to, g)
  <2>1. g.limit \in Nat /\ g.produced \in Nat
    BY BoundsArePositive DEF GenInv, GenerationTypeOK, Run
  <2>2. CASE pc[r] \in Early /\ to \in Early \cup {"returned", "raised"}
    BY <1>2, <2>2 DEF Stage, Early, LoadPcs
  <2>3. CASE to = "raised" /\ pc[r] \notin {"returned", "leave", "done"}
    BY <1>2, <2>3 DEF Stage, Early, LoadPcs
  <2>4. CASE pc[r] \in {"raised", "returned", "leave"} /\ to \in {"leave", "done"}
    BY <1>2, <2>4 DEF Stage, Early, LoadPcs
  <2>5. CASE pc[r] = "decode" /\ to = "report_updated" /\ ~MoreTokens(r)
    <3>1. g.applied = g.produced /\ g.produced \in 1..g.limit /\ g.reported = 0
      BY <1>2, <2>5 DEF Stage
    <3>2. Complete(g)
      BY <2>1, <2>5, <3>1 DEF Complete, MoreTokens
    <3> QED BY <2>5, <3>1, <3>2 DEF Stage, Early, LoadPcs
  <2> QED BY <1>1, <2>2, <2>3, <2>4, <2>5
<1> QED BY <1>1, <1>2, MoveKeepsGen

(* Prefill: the whole prompt is in the cache when the policy is applied. *)
LEMMA PrefillKeepsGen ==
  ASSUME GenInv, NEW r \in Requests, Prefill(r)
  PROVE  GenInv'
<1> DEFINE g == gen[r]
           h == gen'[r]
<1>1. /\ pc[r] = "prefill"
      /\ pc' = [pc EXCEPT ![r] = "report_created"]
      /\ ApplyPolicy(r, PromptTokens, 0, 0)
  BY DEF Prefill, Goto
<1>2. PromptTokens \in CacheLengths /\ 0 \in 0..MaxTokens /\ 0 \in Nat
  BY BoundsArePositive DEF CacheLengths
<1>3. /\ GenerationTypeOK'
      /\ \A q \in Requests : q # r => gen'[q] = gen[q]
      /\ h.limit = g.limit /\ h.budget = g.budget /\ h.format = g.format
      /\ h.reported = g.reported /\ h.bytes = g.bytes
      /\ h.applied = g.applied + 1
      /\ h.produced = g.produced
      /\ h.cached <= PromptTokens
      /\ Sees(h)
      /\ Readable(g.format) => h.cached + h.evicted = g.evicted + PromptTokens
      /\ g.budget = NoBudget => h.cached = PromptTokens /\ h.evicted = g.evicted
  BY <1>1, <1>2, PolicyEffect DEF GenInv
<1>4. g.produced = 0 /\ g.applied = 0 /\ g.reported = 0 /\ g.evicted = 0
  BY <1>1 DEF GenInv, Stage, Counted, Early
<1>5. PromptTokens \in Nat
  BY BoundsArePositive
<1> HIDE DEF g, h
<1>6. Stage("report_created", h)
  BY <1>3, <1>4 DEF Stage, Early, LoadPcs
<1>7. Counted(h)
  BY <1>3, <1>4, <1>5 DEF Counted
<1>8. "report_created" \in AllPcs
  BY DEF AllPcs, GenerationPcs
<1> QED BY <1>1, <1>3, <1>6, <1>7, <1>8, RunKeepsGen DEF g, h

(* The first token is the first that is counted. *)
LEMMA ReportCreatedKeepsGen ==
  ASSUME GenInv, NEW r \in Requests, ReportCreated(r)
  PROVE  GenInv'
<1> DEFINE g == gen[r]
           h == gen'[r]
<1>1. /\ pc[r] = "report_created"
      /\ pc' = [pc EXCEPT ![r] = "decode"]
      /\ gen' = [gen EXCEPT ![r].produced = 1]
  BY DEF ReportCreated, Goto
<1>2. /\ GenerationTypeOK'
      /\ \A q \in Requests : q # r => gen'[q] = gen[q]
      /\ h = [g EXCEPT !.produced = 1]
      /\ g \in Run
  <2>1. gen \in [Requests -> Run]
    BY DEF GenInv, GenerationTypeOK
  <2>2. [g EXCEPT !.produced = 1] \in Run
    BY <2>1 DEF Run
  <2> QED BY <1>1, <2>1, <2>2 DEF GenerationTypeOK
<1>3. /\ h.limit = g.limit /\ h.budget = g.budget /\ h.format = g.format
      /\ h.cached = g.cached /\ h.applied = g.applied /\ h.evicted = g.evicted
      /\ h.before = g.before /\ h.reported = g.reported /\ h.produced = 1
      /\ g.limit \in 1..MaxTokens
  BY <1>2 DEF Run
<1>4. g.applied = 1 /\ g.reported = 0 /\ Counted(g) /\ Sees(g)
  BY <1>1 DEF GenInv, Stage
<1> HIDE DEF g, h
<1>5. Stage("decode", h)
  BY <1>3, <1>4, BoundsArePositive DEF Stage, Early, LoadPcs
<1>6. Counted(h) /\ Sees(h)
  BY <1>3, <1>4 DEF Counted, Sees
<1>7. "decode" \in AllPcs
  BY DEF AllPcs, GenerationPcs
<1> QED BY <1>1, <1>2, <1>5, <1>6, <1>7, RunKeepsGen DEF h

(* One turn of the loop: one more call, one more token in the cache. *)
LEMMA DecodeKeepsGen ==
  ASSUME GenInv, NEW r \in Requests, Decode(r)
  PROVE  GenInv'
<1> DEFINE g == gen[r]
           h == gen'[r]
<1>1. PICK to \in {"decode", "report_updated"} :
        /\ pc[r] = "decode"
        /\ pc' = [pc EXCEPT ![r] = to]
        /\ ApplyPolicy(r, g.cached + 1, g.produced, g.produced)
        /\ g.produced < g.limit
  BY DEF Decode, Goto, MoreTokens
<1>2. /\ g.limit \in 1..MaxTokens /\ g.budget \in Budgets /\ g.format \in CacheFormats
      /\ g.cached \in Nat /\ g.produced \in Nat /\ g.applied \in Nat /\ g.evicted \in Nat
  BY DEF GenInv, GenerationTypeOK, Run
<1>3. g.applied = g.produced /\ g.produced \in 1..g.limit /\ g.reported = 0 /\ Counted(g)
  BY <1>1 DEF GenInv, Stage
<1> HIDE DEF g
<1>4. g.cached + 1 \in CacheLengths /\ g.produced \in 0..MaxTokens /\ g.produced # 0
  BY <1>1, <1>2, <1>3, BoundsArePositive DEF Counted, CacheLengths
<1>5. /\ GenerationTypeOK'
      /\ \A q \in Requests : q # r => gen'[q] = gen[q]
      /\ h.limit = g.limit /\ h.budget = g.budget /\ h.format = g.format
      /\ h.reported = g.reported /\ h.bytes = g.bytes
      /\ h.applied = g.applied + 1
      /\ h.produced = g.produced + 1
      /\ h.cached <= g.cached + 1
      /\ Sees(h)
      /\ Readable(g.format) => h.cached + h.evicted = g.evicted + (g.cached + 1)
      /\ g.budget = NoBudget => h.cached = g.cached + 1 /\ h.evicted = g.evicted
  BY <1>1, <1>2, <1>4, PolicyEffect DEF GenInv, g
<1>6. h.cached \in Nat
  BY <1>5 DEF GenerationTypeOK, Run
<1> HIDE DEF h
<1>7. Stage(to, h)
  <2>1. h.applied = h.produced /\ h.produced \in 1..h.limit /\ h.produced > 1
    BY <1>1, <1>2, <1>3, <1>5
  <2>2. h.reported = 0
    BY <1>3, <1>5
  <2> QED BY <2>1, <2>2 DEF Stage, Complete, Early, LoadPcs
<1>8. Counted(h)
  BY <1>2, <1>3, <1>5, <1>6, BoundsArePositive DEF Counted
<1>9. to \in AllPcs
  BY DEF AllPcs, GenerationPcs
<1> QED BY <1>1, <1>5, <1>7, <1>8, <1>9, RunKeepsGen DEF h

(* The result: what is left of the cache, and its size. *)
LEMMA ReportUpdatedKeepsGen ==
  ASSUME GenInv, NEW r \in Requests, ReportUpdated(r)
  PROVE  GenInv'
<1> DEFINE g == gen[r]
           h == gen'[r]
           final == Estimated(r, g.cached, g.produced)
           tokens == LengthTold(g.format, g.cached, g.produced)
<1>1. /\ pc[r] = "report_updated"
      /\ pc' = [pc EXCEPT ![r] = "returned"]
      /\ gen' = [gen EXCEPT ![r].reported = final.tokens, ![r].bytes = final.bytes]
  BY DEF ReportUpdated, Goto
<1>2. g \in Run /\ gen \in [Requests -> Run]
  BY DEF GenInv, GenerationTypeOK
<1>3. /\ g.limit \in 1..MaxTokens /\ g.cached \in Nat /\ g.produced \in Nat
      /\ g.applied \in Nat
  BY <1>2 DEF Run
<1>4. Complete(g) /\ Counted(g) /\ Sees(g)
  BY <1>1 DEF GenInv, Stage
<1>5. g.cached \in CacheLengths /\ g.produced \in 0..MaxTokens
  <2> HIDE DEF g
  <2> QED BY <1>3, <1>4, BoundsArePositive DEF Counted, Complete, CacheLengths
<1>6. final = State(tokens, SizeOf(tokens)) /\ tokens \in Nat
  BY <1>5, EstimatedIs DEF GenInv
<1>7. final.tokens = tokens /\ final.bytes = SizeOf(tokens) /\ SizeOf(tokens) \in Nat
  BY <1>6, SizeType DEF State
<1> HIDE DEF final, tokens
<1>8. /\ h = [g EXCEPT !.reported = tokens, !.bytes = SizeOf(tokens)]
      /\ h \in Run
      /\ gen' = [gen EXCEPT ![r] = h]
  <2>1. gen'[r] = [g EXCEPT !.reported = tokens, !.bytes = SizeOf(tokens)]
    BY <1>1, <1>2, <1>7
  <2>2. [g EXCEPT !.reported = tokens, !.bytes = SizeOf(tokens)] \in Run
    BY <1>2, <1>6, <1>7 DEF Run
  <2> QED BY <1>1, <1>2, <2>1, <2>2
<1>9. /\ h.limit = g.limit /\ h.budget = g.budget /\ h.format = g.format
      /\ h.cached = g.cached /\ h.applied = g.applied /\ h.evicted = g.evicted
      /\ h.before = g.before /\ h.produced = g.produced
      /\ h.reported = tokens /\ h.bytes = SizeOf(tokens)
  BY <1>2, <1>8 DEF Run
<1>10. GenerationTypeOK' /\ \A q \in Requests : q # r => gen'[q] = gen[q]
  BY <1>2, <1>8 DEF GenerationTypeOK
<1> HIDE DEF g, h
<1>11. Stage("returned", h)
  BY <1>4, <1>9 DEF Stage, Complete, Early, LoadPcs, tokens
<1>12. Counted(h) /\ Sees(h)
  BY <1>4, <1>9 DEF Counted, Sees
<1>13. "returned" \in AllPcs
  BY DEF AllPcs, ChatPcs
<1> QED BY <1>1, <1>10, <1>11, <1>12, <1>13, RunKeepsGen DEF h

(* Every step keeps the invariant of the generating threads. *)
LEMMA GenInvStep == GenInv /\ [Next]_vars => GenInv'
<1> SUFFICES ASSUME GenInv, [Next]_vars PROVE GenInv'
  OBVIOUS
<1>1. CASE UNCHANGED vars
  BY <1>1 DEF vars, GenInv, GenerationTypeOK
<1>2. ASSUME NEW r \in Requests, Accept(r) \/ RequestStep(r) \/ RequestRaises(r)
      PROVE  GenInv'
  BY <1>2, OtherStepKeepsGen, PrefillKeepsGen, ReportCreatedKeepsGen,
     DecodeKeepsGen, ReportUpdatedKeepsGen
  DEF RequestStep, RequestRaises, GenerationStep
<1> QED BY <1>1, <1>2 DEF Next

(* Initially nothing was produced. *)
LEMMA GenInvInit == Init => GenInv
<1> SUFFICES ASSUME Init PROVE GenInv
  OBVIOUS
<1>1. PICK format \in CacheFormats :
        gen \in [Requests -> {NewRun(n, b, format) : n \in 1..MaxTokens, b \in Budgets}]
  BY DEF Init, GenerationInit
<1>2. ASSUME NEW r \in Requests
      PROVE  gen[r] \in Run /\ Stage(pc[r], gen[r]) /\ Counted(gen[r]) /\ Sees(gen[r])
  <2>1. PICK n \in 1..MaxTokens, b \in Budgets : gen[r] = NewRun(n, b, format)
    BY <1>1
  <2>2. pc[r] = "new"
    BY DEF Init
  <2>3. gen[r] \in Run
    BY <2>1 DEF NewRun, Run
  <2>4. Stage("new", NewRun(n, b, format))
    BY DEF Stage, NewRun
  <2>5. Counted(NewRun(n, b, format)) /\ Sees(NewRun(n, b, format))
    BY DEF Counted, Sees, NewRun
  <2> QED BY <2>1, <2>2, <2>3, <2>4, <2>5
<1>3. GenerationTypeOK
  BY <1>1, <1>2 DEF GenerationTypeOK
<1>4. pc \in [Requests -> AllPcs]
  BY DEF Init, AllPcs, ChatPcs
<1> QED BY <1>2, <1>3, <1>4 DEF GenInv
(* What the policy was told last is the length of the cache it left, plus   *)
(* what it evicted, for every prompt, budget and format of the cache.       *)
THEOREM PolicyIsTold == Spec => []PolicySeesCache
<1>1. GenInv => PolicySeesCache
  BY DEF GenInv, PolicySeesCache, Sees
<1> QED BY GenInvInit, GenInvStep, <1>1, PTL DEF Spec

(* The numbers of every answer agree with each other, whatever the policy   *)
(* evicts and in whatever format the cache comes.                           *)
THEOREM AnswersConsistent == Spec => []AnswerConsistent
<1>1. GenInv => AnswerConsistent
  <2> SUFFICES ASSUME GenInv, NEW r \in Requests, Answered(r)
               PROVE  LET g == gen[r] IN
                      /\ g.produced \in 1..g.limit
                      /\ g.applied = g.produced
                      /\ Measured(r) =>
                           /\ g.reported + g.evicted = PromptTokens + g.produced - 1
                           /\ g.cached = g.reported
                           /\ g.bytes = SizeOf(g.cached)
    BY DEF AnswerConsistent
  <2> DEFINE g == gen[r]
  <2>1. /\ g.limit \in 1..MaxTokens /\ g.cached \in Nat /\ g.produced \in Nat
        /\ g.applied \in Nat /\ g.evicted \in Nat /\ g.reported \in Nat
    BY DEF GenInv, GenerationTypeOK, Run
  <2>2. Stage(pc[r], g) /\ Counted(g) /\ g.reported > 0
    BY DEF GenInv, Answered
  <2>3. Measured(r) = (Readable(g.format) \/ g.budget = NoBudget)
    BY DEF Measured
  <2> HIDE DEF g
  <2>4. /\ Complete(g)
        /\ g.reported = LengthTold(g.format, g.cached, g.produced)
        /\ g.bytes = SizeOf(g.reported)
    BY <2>2 DEF Stage
  <2>5. g.produced \in 1..g.limit /\ g.applied = g.produced /\ g.applied > 0
    BY <2>1, <2>4 DEF Complete
  <2>6. ASSUME Measured(r)
        PROVE  g.reported + g.evicted = PromptTokens + g.produced - 1 /\ g.cached = g.reported
    <3>1. g.cached + g.evicted = PromptTokens + g.produced - 1
      BY <2>2, <2>3, <2>5, <2>6 DEF Counted
    <3>2. g.cached = g.reported
      <4>1. CASE Readable(g.format)
        BY <2>4, <4>1 DEF LengthTold
      <4>2. CASE ~Readable(g.format)
        <5>1. g.evicted = 0
          BY <2>2, <2>3, <2>6, <4>2 DEF Counted
        <5> QED BY <2>1, <2>4, <2>5, <3>1, <4>2, <5>1, BoundsArePositive DEF LengthTold
      <4> QED BY <4>1, <4>2
    <3> QED BY <3>1, <3>2
  <2> QED BY <2>4, <2>5, <2>6 DEF g
<1> QED BY GenInvInit, GenInvStep, <1>1, PTL DEF Spec

(* The older loop, given the same tokens, gives the same answer, and its    *)
(* estimator tells the same length and, where it reads any, the same size.  *)
THEOREM LegacyAlwaysAgrees == Spec => []LegacyAgrees
<1>1. GenInv => LegacyAgrees
  <2> SUFFICES ASSUME GenInv, NEW r \in Requests, Answered(r), gen[r].budget = NoBudget
               PROVE  LET g == gen[r]
                          older == OlderEstimates[g.format][g.cached]
                      IN /\ Loop(g.limit, g.produced) = g.produced
                         /\ older.tokens = g.reported
                         /\ g.format \in {"tuple", "convertible"} => older.bytes = g.bytes
    BY DEF LegacyAgrees
  <2> DEFINE g == gen[r]
             older == OlderEstimates[g.format][g.cached]
  <2>1. /\ g.limit \in 1..MaxTokens /\ g.cached \in Nat /\ g.produced \in Nat
        /\ g.applied \in Nat /\ g.evicted \in Nat /\ g.reported \in Nat
        /\ g.format \in CacheFormats
    BY DEF GenInv, GenerationTypeOK, Run
  <2>2. Stage(pc[r], g) /\ Counted(g) /\ g.reported > 0 /\ g.budget = NoBudget
    BY DEF GenInv, Answered
  <2> HIDE DEF g
  <2>3. /\ Complete(g)
        /\ g.reported = LengthTold(g.format, g.cached, g.produced)
        /\ g.bytes = SizeOf(g.reported)
    BY <2>2 DEF Stage
  <2>4. Loop(g.limit, g.produced) = g.produced
    <3>1. /\ g.limit \in Nat \ {0}
          /\ g.produced \in 1..g.limit
          /\ g.produced = g.limit \/ g.produced \in 2..g.limit
      BY <2>1, <2>3, BoundsArePositive DEF Complete
    <3> QED BY <2>1, <3>1, LoopStops
  <2>5. g.cached = PromptTokens + g.produced - 1 /\ g.cached = g.reported
    <3>1. g.applied > 0 /\ g.applied = g.produced
      BY <2>1, <2>3 DEF Complete
    <3>2. g.evicted = 0 /\ g.cached + g.evicted = PromptTokens + g.produced - 1
      BY <2>2, <3>1 DEF Counted
    <3>3. g.cached = PromptTokens + g.produced - 1
      BY <2>1, <3>2
    <3> QED BY <2>1, <2>3, <3>1, <3>3 DEF LengthTold
  <2>6. g.cached \in CacheLengths
    BY <2>1, <2>3, <2>5, BoundsArePositive DEF CacheLengths, Complete
  <2>7. older = EstimateKvCache(Cache(g.format, g.cached))
    BY <2>1, <2>6 DEF OlderEstimates
  <2>8. /\ older.tokens = g.cached
        /\ g.format \in {"tuple", "convertible"} => older.bytes = SizeOf(g.cached)
    BY <2>1, <2>7, BoundsArePositive, OlderEstimateExact
  <2> QED BY <2>3, <2>4, <2>5, <2>8 DEF g
<1> QED BY GenInvInit, GenInvStep, <1>1, PTL DEF Spec

----------------------------------------------------------------------------
(***************************************************************************)
(* The ring of events.  EventsOrdered is not inductive: it needs a bound   *)
(* on the events a request has logged so far, from where its thread is.    *)
(***************************************************************************)
LEMMA RingElements ==
  ASSUME NEW s \in Seq(Event), NEW e \in Event, Len(s) <= MaxEvents
  PROVE  \E d \in {0, 1} :
           /\ Ring(s, e) \in Seq(Event)
           /\ Len(Ring(s, e)) = Len(s) + 1 - d
           /\ Len(Ring(s, e)) \in 1..MaxEvents
           /\ Ring(s, e)[Len(Ring(s, e))] = e
           /\ \A i \in 1..(Len(s) - d) : Ring(s, e)[i] = s[i + d]
<1>0. MaxEvents \in Nat \ {0}
  BY MaxEventsIsPositive
<1>1. CASE Len(s) = MaxEvents
  <2> DEFINE t == Tail(s)
  <2>1. /\ t \in Seq(Event) /\ Len(t) = Len(s) - 1 /\ Len(s) \in Nat \ {0}
        /\ \A i \in 1..Len(s) - 1 : t[i] = s[i + 1]
    BY <1>0, <1>1
  <2>2. Ring(s, e) = Append(t, e)
    BY <1>1 DEF Ring
  <2> HIDE DEF t
  <2>3. /\ Append(t, e) \in Seq(Event) /\ Len(Append(t, e)) = Len(t) + 1
        /\ Append(t, e)[Len(t) + 1] = e
        /\ \A i \in 1..Len(t) : Append(t, e)[i] = t[i]
    BY <2>1
  <2> QED BY <1>0, <1>1, <2>1, <2>2, <2>3
<1>2. CASE Len(s) # MaxEvents
  <2>1. Ring(s, e) = Append(s, e)
    BY <1>2 DEF Ring
  <2>2. /\ Append(s, e) \in Seq(Event) /\ Len(Append(s, e)) = Len(s) + 1
        /\ Append(s, e)[Len(s) + 1] = e
        /\ \A i \in 1..Len(s) : Append(s, e)[i] = s[i]
    OBVIOUS
  <2>3. Len(s) \in Nat
    OBVIOUS
  <2> QED BY <1>0, <1>2, <2>1, <2>2, <2>3
<1> QED BY <1>1, <1>2

(* All events of a request that has come this far have a smaller rank. *)
Reached(at, g) ==
  IF at \in {"new", "register"} THEN 0
  ELSE IF at \in Early THEN 1
  ELSE IF at = "report_created" THEN 2
  ELSE IF at = "decode" THEN g.produced + 2
  ELSE IF at = "report_updated" THEN MaxTokens + 2
  ELSE IF at \in {"returned", "raised"} THEN MaxTokens + 3
  ELSE MaxTokens + 4

EventsBelow ==
  \A i \in DOMAIN events :
    Rank(events[i]) < Reached(pc[events[i].request], gen[events[i].request])

RingTypeOK ==
  /\ lastState \in Event \cup {None}
  /\ lastPolicy \in Event \cup {None}
  /\ events \in Seq(Event) /\ Len(events) <= MaxEvents

RingInv == RingTypeOK /\ LastEventsFresh /\ EventsOrdered /\ EventsBelow

(* A step that logs event e *)
Logs(e) ==
  /\ events' = Ring(events, e)
  /\ lastPolicy' = IF e.kind = "policy_applied" THEN e ELSE lastPolicy
  /\ lastState' = IF e.kind \in {"cache_created", "cache_updated"} THEN e ELSE lastState

(* How far the requests come in a step of request r: the others stay where *)
(* they are.                                                               *)
Advances(r) ==
  /\ \A q \in Requests : q # r => pc'[q] = pc[q] /\ gen'[q] = gen[q]
  /\ Reached(pc[r], gen[r]) \in Int /\ Reached(pc'[r], gen'[r]) \in Int
  /\ Reached(pc[r], gen[r]) <= Reached(pc'[r], gen'[r])

(* Ranks are numbers. *)
LEMMA RankType == \A e \in Event : Rank(e) \in Nat
<1> SUFFICES ASSUME NEW e \in Event PROVE Rank(e) \in Nat
  OBVIOUS
<1>1. e.kind \in Kinds /\ e.step \in Nat
  BY DEF Event
<1> QED BY <1>1, BoundsArePositive DEF Rank, Kinds

(* A step that logs nothing *)
LEMMA QuietKeepsRing ==
  ASSUME RingInv, NEW r \in Requests, Advances(r),
         UNCHANGED <<events, lastPolicy, lastState>>
  PROVE  RingInv'
<1>1. EventsBelow'
  <2> SUFFICES ASSUME NEW i \in DOMAIN events
               PROVE  Rank(events[i]) < Reached(pc'[events[i].request], gen'[events[i].request])
    BY DEF EventsBelow
  <2>1. events[i] \in Event
    BY DEF RingInv, RingTypeOK
  <2>2. Rank(events[i]) \in Nat /\ events[i].request \in Requests
    BY <2>1, RankType DEF Event
  <2>3. Rank(events[i]) < Reached(pc[events[i].request], gen[events[i].request])
    BY DEF RingInv, EventsBelow
  <2> QED BY <2>2, <2>3 DEF Advances
<1> QED BY <1>1 DEF RingInv, RingTypeOK, LastEventsFresh, EventsOrdered, IsLast

(* A step that logs the next event of request r *)
LEMMA LogKeepsRing ==
  ASSUME RingInv, NEW r \in Requests, Advances(r), NEW e \in Event, Logs(e),
         e.request = r,
         Reached(pc[r], gen[r]) <= Rank(e), Rank(e) < Reached(pc'[r], gen'[r])
  PROVE  RingInv'
<1> DEFINE t == events'
           n == Len(events')
<1>1. PICK d \in {0, 1} :
        /\ t \in Seq(Event) /\ n = Len(events) + 1 - d /\ n \in 1..MaxEvents
        /\ t[n] = e
        /\ \A i \in 1..(Len(events) - d) : t[i] = events[i + d]
  <2>1. events \in Seq(Event) /\ Len(events) <= MaxEvents /\ t = Ring(events, e)
          /\ n = Len(t)
    BY DEF Logs, RingInv, RingTypeOK
  <2> HIDE DEF t, n
  <2>2. \E d \in {0, 1} :
          /\ Ring(events, e) \in Seq(Event)
          /\ Len(Ring(events, e)) = Len(events) + 1 - d
          /\ Len(Ring(events, e)) \in 1..MaxEvents
          /\ Ring(events, e)[Len(Ring(events, e))] = e
          /\ \A i \in 1..(Len(events) - d) : Ring(events, e)[i] = events[i + d]
    BY <2>1, RingElements
  <2> QED BY <2>1, <2>2
<1>2. \A i \in 1..n : i = n \/ (i + d \in DOMAIN events /\ t[i] = events[i + d] /\ i < n)
  <2>1. events \in Seq(Event)
    BY DEF RingInv, RingTypeOK
  <2> HIDE DEF t
  <2> QED BY <1>1, <2>1
<1>3. DOMAIN t = 1..n
  BY <1>1
<1> HIDE DEF t, n
<1>4. \A i \in DOMAIN events : events[i] \in Event /\ Rank(events[i]) \in Nat
  BY RankType DEF RingInv, RingTypeOK
<1>5. ASSUME NEW i \in DOMAIN events
      PROVE  /\ Rank(events[i]) < Reached(pc'[events[i].request], gen'[events[i].request])
             /\ events[i].request = r => Rank(events[i]) < Rank(e)
  <2>1. Rank(events[i]) < Reached(pc[events[i].request], gen[events[i].request])
    BY DEF RingInv, EventsBelow
  <2>2. events[i].request \in Requests /\ Rank(events[i]) \in Nat /\ Rank(e) \in Nat
    BY <1>4, RankType DEF Event
  <2> QED BY <2>1, <2>2 DEF Advances
<1>6. EventsBelow'
  <2> SUFFICES ASSUME NEW i \in 1..n
               PROVE  Rank(t[i]) < Reached(pc'[t[i].request], gen'[t[i].request])
    BY <1>3 DEF EventsBelow, t, Rank
  <2> QED BY <1>1, <1>2, <1>5
<1>7. EventsOrdered'
  <2> SUFFICES ASSUME NEW i \in 1..n, NEW k \in 1..n, i < k, t[i].request = t[k].request
               PROVE  Rank(t[i]) < Rank(t[k])
    BY <1>3 DEF EventsOrdered, t, Rank
  <2>1. i + d \in DOMAIN events /\ t[i] = events[i + d]
    BY <1>1, <1>2
  <2>2. CASE k = n
    BY <1>1, <1>5, <2>1, <2>2
  <2>3. CASE k # n
    <3>1. k + d \in DOMAIN events /\ t[k] = events[k + d] /\ i + d < k + d
      BY <1>1, <1>2, <2>3
    <3> QED BY <2>1, <3>1 DEF RingInv, EventsOrdered
  <2> QED BY <2>2, <2>3
<1>8. LastEventsFresh'
  <2>1. ASSUME NEW kinds, NEW i \in 1..n, t[i].kind \in kinds,
               \A k \in 1..n : k > i => t[k].kind \notin kinds
        PROVE  \/ i = n /\ e.kind \in kinds /\ t[i] = e
               \/ /\ e.kind \notin kinds
                  /\ i + d \in DOMAIN events /\ t[i] = events[i + d]
                  /\ IsLast(i + d, kinds)
    <3>1. CASE i = n
      BY <1>1, <2>1, <3>1
    <3>2. CASE i # n
      <4>1. i + d \in DOMAIN events /\ t[i] = events[i + d] /\ i < n
        BY <1>2, <3>2
      <4>2. e.kind \notin kinds
        BY <1>1, <2>1, <4>1
      <4>3. ASSUME NEW k \in DOMAIN events, k > i + d PROVE events[k].kind \notin kinds
        <5>1. events \in Seq(Event)
          BY DEF RingInv, RingTypeOK
        <5>2. k - d \in 1..(Len(events) - d) /\ k - d \in 1..n /\ k - d > i
          BY <1>1, <4>3, <5>1
        <5>3. t[k - d] = events[k]
          BY <1>1, <5>2, <5>1
        <5> QED BY <2>1, <5>2, <5>3
      <4> QED BY <2>1, <4>1, <4>2, <4>3 DEF IsLast
    <3> QED BY <3>1, <3>2
  <2> SUFFICES ASSUME NEW i \in 1..n
        PROVE  /\ IsLast(i, {"policy_applied"})' => lastPolicy' = t[i]
               /\ IsLast(i, {"cache_created", "cache_updated"})' => lastState' = t[i]
    BY <1>3 DEF LastEventsFresh, t
  <2>2. ASSUME IsLast(i, {"policy_applied"})' PROVE lastPolicy' = t[i]
    <3>1. /\ t[i].kind \in {"policy_applied"}
          /\ \A k \in 1..n : k > i => t[k].kind \notin {"policy_applied"}
      BY <1>3, <2>2 DEF IsLast, t
    <3> QED BY <2>1, <3>1 DEF RingInv, LastEventsFresh, Logs
  <2>3. ASSUME IsLast(i, {"cache_created", "cache_updated"})' PROVE lastState' = t[i]
    <3>1. /\ t[i].kind \in {"cache_created", "cache_updated"}
          /\ \A k \in 1..n : k > i => t[k].kind \notin {"cache_created", "cache_updated"}
      BY <1>3, <2>3 DEF IsLast, t
    <3> QED BY <2>1, <3>1 DEF RingInv, LastEventsFresh, Logs
  <2> QED BY <2>2, <2>3
<1>9. RingTypeOK'
  BY <1>1 DEF RingInv, RingTypeOK, Logs, t, n
<1> QED BY <1>6, <1>7, <1>8, <1>9 DEF RingInv
(* A step that logs nothing brings its request further, or leaves it.      *)
LEMMA QuietStepKeepsRing ==
  ASSUME GenInv, RingInv, NEW r \in Requests,
         Accept(r) \/ Dispatch(r) \/ Leave(r)
           \/ (LoadStep(r) /\ UNCHANGED <<runtime, gen>>)
           \/ (LoadRaises(r) /\ UNCHANGED <<runtime, gen>>)
           \/ EndDecode(r) \/ InferenceRaises(r)
  PROVE  RingInv'
<1>1. PICK to \in AllPcs :
        /\ pc' = [pc EXCEPT ![r] = to]
        /\ gen' = gen
        /\ UNCHANGED runtime
        /\ \/ pc[r] = "new" /\ to = "register"
           \/ pc[r] \in Early \ {"new", "register"} /\ to \in Early \ {"new", "register"}
           \/ pc[r] \in Early \ {"new", "register"} /\ to \in {"returned", "raised"}
           \/ pc[r] \in GenerationPcs /\ to = "raised"
           \/ pc[r] = "decode" /\ to = "report_updated"
           \/ pc[r] = "leave" /\ to = "done"
  BY DEF Accept, Dispatch, Leave, LoadStep, LoadRaises, Check, Acquire,
     Recheck, FetchTokenizer, FetchModel, Prepare, Publish, Release, Get,
     EndDecode, InferenceRaises, Goto, AllPcs, ChatPcs, GenerationPcs,
     LoadPcs, Early
<1>2. pc \in [Requests -> AllPcs]
  BY DEF GenInv
<1>3. pc'[r] = to /\ \A q \in Requests : q # r => pc'[q] = pc[q]
  BY <1>1, <1>2
<1> DEFINE g == gen[r]
<1>4. /\ g.produced \in Nat /\ g.limit \in 1..MaxTokens
      /\ pc[r] = "decode" => g.produced <= MaxTokens
  <2>1. g.produced \in Nat /\ g.limit \in 1..MaxTokens /\ Stage(pc[r], g)
    BY DEF GenInv, GenerationTypeOK, Run
  <2> HIDE DEF g
  <2> QED BY <2>1, BoundsArePositive DEF Stage
<1> HIDE DEF g
<1>5. Reached(pc[r], g) \in Int /\ Reached(to, g) \in Int /\ Reached(pc[r], g) <= Reached(to, g)
  BY <1>1, <1>4, BoundsArePositive DEF Reached, Early, LoadPcs, GenerationPcs
<1>6. Advances(r)
  BY <1>1, <1>3, <1>5 DEF Advances, g
<1> QED BY <1>1, <1>6, QuietKeepsRing DEF runtime

(* A step that logs the event of a request that is due *)
LEMMA DueKeepsRing ==
  ASSUME RingInv, NEW r \in Requests, NEW e \in Event, Logs(e), e.request = r,
         \A q \in Requests : q # r => pc'[q] = pc[q] /\ gen'[q] = gen[q],
         Reached(pc[r], gen[r]) = Rank(e),
         Reached(pc'[r], gen'[r]) \in Int,
         Rank(e) < Reached(pc'[r], gen'[r])
  PROVE  RingInv'
<1>1. Rank(e) \in Nat
  BY RankType
<1>2. Advances(r)
  BY <1>1 DEF Advances
<1> QED BY <1>1, <1>2, LogKeepsRing

(* The other threads wait. *)
OthersWait(r) == \A q \in Requests : q # r => pc'[q] = pc[q]

(* The steps of the handler that log *)
LEMMA HandlerKeepsRing ==
  ASSUME GenInv, RingInv, NEW r \in Requests, Register(r) \/ Finish(r) \/ Fail(r)
  PROVE  RingInv'
<1> DEFINE Of(kind) == [kind |-> kind, request |-> r, step |-> 0, tokens |-> 0]
<1>1. \A kind \in Kinds : Of(kind) \in Event
  BY DEF Event
<1>2. CASE Register(r)
  <2>1. /\ pc[r] = "register" /\ pc'[r] = "dispatch" /\ OthersWait(r) /\ gen' = gen
        /\ Logs(Of("request_started"))
    BY <1>2 DEF Register, Goto, GenInv, OthersWait, RequestStarted, Log, Logs
  <2>2. Rank(Of("request_started")) = 0 /\ Of("request_started").request = r
    BY DEF Rank
  <2>3. Reached(pc[r], gen[r]) = 0 /\ Reached(pc'[r], gen'[r]) = 1
    BY <2>1 DEF Reached, Early
  <2>4. Of("request_started") \in Event
    BY <1>1 DEF Kinds
  <2> HIDE DEF Of
  <2> QED BY <2>1, <2>2, <2>3, <2>4, DueKeepsRing DEF OthersWait
<1>3. ASSUME NEW kind \in {"request_finished", "request_failed"},
             pc[r] \in {"returned", "raised"}, pc'[r] = "leave" /\ OthersWait(r),
             gen' = gen, Logs(Of(kind))
      PROVE  RingInv'
  <2>1. Rank(Of(kind)) = MaxTokens + 3 /\ Of(kind).request = r
    BY DEF Rank
  <2>2. Reached(pc[r], gen[r]) = MaxTokens + 3 /\ Reached(pc'[r], gen'[r]) = MaxTokens + 4
    BY <1>3 DEF Reached, Early, LoadPcs
  <2>3. Of(kind) \in Event
    BY <1>1 DEF Kinds
  <2> HIDE DEF Of
  <2> QED BY <1>3, <2>1, <2>2, <2>3, BoundsArePositive, DueKeepsRing DEF OthersWait
<1>4. CASE Finish(r)
  <2>1. /\ pc[r] = "returned" /\ pc'[r] = "leave" /\ OthersWait(r) /\ gen' = gen
        /\ Logs(Of("request_finished"))
    BY <1>4 DEF Finish, Goto, GenInv, OthersWait, RequestFinished, Log, Logs
  <2> HIDE DEF Of
  <2> QED BY <2>1, <1>3
<1>5. CASE Fail(r)
  <2>1. /\ pc[r] = "raised" /\ pc'[r] = "leave" /\ OthersWait(r) /\ gen' = gen
        /\ Logs(Of("request_failed"))
    BY <1>5 DEF Fail, Goto, GenInv, OthersWait, RequestFailed, Log, Logs
  <2> HIDE DEF Of
  <2> QED BY <2>1, <1>3
<1> QED BY <1>2, <1>4, <1>5

(* The policy event of the prefill *)
LEMMA PrefillKeepsRing ==
  ASSUME GenInv, RingInv, NEW r \in Requests, Prefill(r)
  PROVE  RingInv'
<1> DEFINE e == [kind |-> "policy_applied", request |-> r, step |-> 0,
                 tokens |-> gen'[r].before]
<1>1. /\ pc[r] = "prefill" /\ pc'[r] = "report_created" /\ OthersWait(r)
      /\ ApplyPolicy(r, PromptTokens, 0, 0)
  BY DEF Prefill, Goto, GenInv, OthersWait
<1>2. PromptTokens \in CacheLengths /\ 0 \in 0..MaxTokens /\ 0 \in Nat
  BY BoundsArePositive DEF CacheLengths
<1>3. /\ GenerationTypeOK' /\ \A q \in Requests : q # r => gen'[q] = gen[q]
      /\ PolicyApplied(r, 0, gen'[r].before)
  BY <1>1, <1>2, PolicyEffect DEF GenInv
<1>4. Logs(e)
  BY <1>3 DEF PolicyApplied, Log, Logs
<1>5. e \in Event /\ e.request = r /\ Rank(e) = 1
  BY <1>3 DEF Event, Kinds, Rank, GenerationTypeOK, Run
<1>6. Reached(pc[r], gen[r]) = 1 /\ Reached(pc'[r], gen'[r]) = 2
  BY <1>1 DEF Reached, Early, LoadPcs
<1> HIDE DEF e
<1> QED BY <1>1, <1>3, <1>4, <1>5, <1>6, DueKeepsRing DEF OthersWait

(* The event of the cache after the prefill *)
LEMMA ReportCreatedKeepsRing ==
  ASSUME GenInv, RingInv, NEW r \in Requests, ReportCreated(r)
  PROVE  RingInv'
<1> DEFINE tokens == Estimated(r, gen[r].cached, 0).tokens
           e == [kind |-> "cache_created", request |-> r, step |-> 0, tokens |-> tokens]
<1>1. /\ pc[r] = "report_created" /\ pc'[r] = "decode" /\ OthersWait(r)
      /\ UpdateState(r, "cache_created", tokens)
      /\ gen' = [gen EXCEPT ![r].produced = 1]
  BY DEF ReportCreated, Goto, GenInv, OthersWait
<1>2. tokens \in Nat
  <2>1. gen[r].cached \in Nat /\ gen[r].applied = 1 /\ Counted(gen[r])
    BY <1>1 DEF GenInv, GenerationTypeOK, Run, Stage
  <2>2. gen[r].cached \in CacheLengths /\ 0 \in 0..MaxTokens
    BY <2>1, BoundsArePositive DEF Counted, CacheLengths
  <2> QED BY <2>2, EstimatedIs DEF GenInv, State
<1> HIDE DEF tokens
<1>3. gen'[r].produced = 1 /\ \A q \in Requests : q # r => gen'[q] = gen[q]
  BY <1>1 DEF GenInv, GenerationTypeOK, Run
<1>4. Logs(e)
  BY <1>1 DEF UpdateState, Log, Logs
<1>5. e \in Event /\ e.request = r /\ Rank(e) = 2
  BY <1>2 DEF Event, Kinds, Rank
<1>6. Reached(pc[r], gen[r]) = 2 /\ Reached(pc'[r], gen'[r]) = 3
  BY <1>1, <1>3 DEF Reached, Early, LoadPcs
<1> HIDE DEF e
<1> QED BY <1>1, <1>3, <1>4, <1>5, <1>6, DueKeepsRing DEF OthersWait

(* The policy event of a turn of the loop, numbered by the tokens so far *)
LEMMA DecodeKeepsRing ==
  ASSUME GenInv, RingInv, NEW r \in Requests, Decode(r)
  PROVE  RingInv'
<1> DEFINE g == gen[r]
           h == gen'[r]
           e == [kind |-> "policy_applied", request |-> r, step |-> g.produced,
                 tokens |-> h.before]
<1>1. PICK to \in {"decode", "report_updated"} :
        /\ pc[r] = "decode" /\ pc'[r] = to /\ OthersWait(r)
        /\ ApplyPolicy(r, g.cached + 1, g.produced, g.produced)
        /\ g.produced < g.limit
  BY DEF Decode, Goto, GenInv, OthersWait, MoreTokens
<1>2. /\ g.limit \in 1..MaxTokens /\ g.cached \in Nat /\ g.produced \in Nat
      /\ g.applied \in Nat /\ Counted(g) /\ g.applied = g.produced /\ g.produced \in 1..g.limit
  BY <1>1 DEF GenInv, GenerationTypeOK, Run, Stage
<1>3. g.cached + 1 \in CacheLengths /\ g.produced \in 1..MaxTokens - 1
  <2> HIDE DEF g
  <2> QED BY <1>1, <1>2, BoundsArePositive DEF Counted, CacheLengths
<1>4. /\ GenerationTypeOK' /\ \A q \in Requests : q # r => gen'[q] = gen[q]
      /\ PolicyApplied(r, g.produced, h.before)
      /\ h.produced = g.produced + 1
  <2>1. g.produced \in 0..MaxTokens /\ g.produced # 0
    <3> HIDE DEF g
    <3> QED BY <1>3, BoundsArePositive
  <2> QED BY <1>1, <1>2, <1>3, <2>1, PolicyEffect DEF GenInv
<1>5. Logs(e)
  BY <1>4 DEF PolicyApplied, Log, Logs
<1>6. e \in Event /\ e.request = r /\ Rank(e) = g.produced + 2
  <2>1. h.before \in Nat
    BY <1>4 DEF GenerationTypeOK, Run
  <2>2. g.produced # 0
    BY <1>3
  <2> HIDE DEF g, h
  <2> QED BY <1>2, <2>1, <2>2 DEF Event, Kinds, Rank
<1> HIDE DEF g, h, e
<1>7. Reached(pc[r], g) = g.produced + 2
  BY <1>1 DEF Reached, Early, LoadPcs
<1>8. Reached(pc'[r], h) \in Int /\ g.produced + 2 < Reached(pc'[r], h)
  BY <1>1, <1>2, <1>3, <1>4, BoundsArePositive DEF Reached, Early, LoadPcs
<1> QED BY <1>1, <1>4, <1>5, <1>6, <1>7, <1>8, DueKeepsRing DEF OthersWait, g, h

(* The event of the cache at the end *)
LEMMA ReportUpdatedKeepsRing ==
  ASSUME GenInv, GenInv', RingInv, NEW r \in Requests, ReportUpdated(r)
  PROVE  RingInv'
<1> DEFINE final == Estimated(r, gen[r].cached, gen[r].produced)
           tokens == final.tokens
           e == [kind |-> "cache_updated", request |-> r, step |-> 0, tokens |-> tokens]
<1>1. /\ pc[r] = "report_updated" /\ pc'[r] = "returned" /\ OthersWait(r)
      /\ UpdateState(r, "cache_updated", tokens)
      /\ gen' = [gen EXCEPT ![r].reported = tokens, ![r].bytes = final.bytes]
  BY DEF ReportUpdated, Goto, GenInv, OthersWait
<1>2. gen'[r].reported = tokens /\ \A q \in Requests : q # r => gen'[q] = gen[q]
  BY <1>1 DEF GenInv, GenerationTypeOK, Run
<1>3. tokens \in Nat
  BY <1>2 DEF GenInv, GenerationTypeOK, Run
<1> HIDE DEF tokens, final
<1>4. Logs(e)
  BY <1>1 DEF UpdateState, Log, Logs
<1>5. e \in Event /\ e.request = r /\ Rank(e) = MaxTokens + 2
  BY <1>3 DEF Event, Kinds, Rank
<1>6. Reached(pc[r], gen[r]) = MaxTokens + 2 /\ Reached(pc'[r], gen'[r]) = MaxTokens + 3
  BY <1>1 DEF Reached, Early, LoadPcs
<1> HIDE DEF e
<1>7. \A q \in Requests : q # r => pc'[q] = pc[q] /\ gen'[q] = gen[q]
  BY <1>1, <1>2 DEF OthersWait
<1>8. Reached(pc'[r], gen'[r]) \in Int /\ Rank(e) < Reached(pc'[r], gen'[r])
  BY <1>5, <1>6, BoundsArePositive
<1>9. Reached(pc[r], gen[r]) = Rank(e)
  BY <1>5, <1>6
<1> QED BY <1>4, <1>5, <1>7, <1>8, <1>9, DueKeepsRing

(* Every step keeps the invariant of the ring. *)
LEMMA RingInvStep == GenInv /\ GenInv' /\ RingInv /\ [Next]_vars => RingInv'
<1> SUFFICES ASSUME GenInv, GenInv', RingInv, [Next]_vars PROVE RingInv'
  OBVIOUS
<1>1. CASE UNCHANGED vars
  BY <1>1 DEF vars, runtime, RingInv, RingTypeOK, LastEventsFresh, EventsOrdered,
     EventsBelow, IsLast
<1>2. ASSUME NEW r \in Requests, Accept(r) \/ RequestStep(r) \/ RequestRaises(r)
      PROVE  RingInv'
  BY <1>2, QuietStepKeepsRing, HandlerKeepsRing, PrefillKeepsRing,
     ReportCreatedKeepsRing, DecodeKeepsRing, ReportUpdatedKeepsRing
  DEF RequestStep, RequestRaises, GenerationStep
<1> QED BY <1>1, <1>2 DEF Next

(* Initially nothing is logged. *)
LEMMA RingInvInit == Init => RingInv
<1> SUFFICES ASSUME Init PROVE RingInv
  OBVIOUS
<1>1. events = <<>> /\ lastState = None /\ lastPolicy = None
  BY DEF Init, RuntimeInit
<1>2. RingTypeOK
  BY <1>1, MaxEventsIsPositive DEF RingTypeOK
<1> QED BY <1>1, <1>2 DEF RingInv, LastEventsFresh, EventsOrdered, EventsBelow

(* The two last events of the runtime are the latest of their kind in the   *)
(* ring, for any number of threads and any length of the ring.              *)
THEOREM LastEventsAlwaysFresh == Spec => []LastEventsFresh
<1>1. RingInv => LastEventsFresh
  BY DEF RingInv
<1> QED BY GenInvInit, GenInvStep, RingInvInit, RingInvStep, <1>1, PTL DEF Spec

(* The events of a request are in the ring in the order of its life, and at *)
(* most once each.                                                          *)
THEOREM EventsAlwaysOrdered == Spec => []EventsOrdered
<1>1. RingInv => EventsOrdered
  BY DEF RingInv
<1> QED BY GenInvInit, GenInvStep, RingInvInit, RingInvStep, <1>1, PTL DEF Spec

(* Every variable keeps its shape. *)
THEOREM ChatTypes == Spec => []ChatTypeOK
<1>1. LoaderInv /\ Books /\ GenInv /\ RingInv => ChatTypeOK
  <2> SUFFICES ASSUME LoaderInv, Books, GenInv, RingInv PROVE ChatTypeOK
    OBVIOUS
  <2>1. pc \in [Requests -> ChatPcs \cup GenerationPcs \cup LoadPcs]
    BY DEF GenInv, AllPcs
  <2>2. Cardinality(Inside) \in Nat
    BY FS_CardinalityType DEF Books
  <2>3. active \in SUBSET Requests
    BY DEF Books
  <2> QED
    BY <2>1, <2>2, <2>3 DEF ChatTypeOK, LoaderInv, Books, GenInv, RingInv,
       RingTypeOK, RuntimeTypeOK
<1> QED
  BY LoaderInvInit, LoaderInvStep, BooksInit, BooksStep, GenInvInit, GenInvStep,
     RingInvInit, RingInvStep, <1>1, PTL DEF Spec

============================================================================
