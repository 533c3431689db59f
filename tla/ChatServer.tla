---------------------------- MODULE ChatServer ----------------------------
(***************************************************************************)
(* The synchronous half of kvcache-serve: POST /chat of app/api/chat.py.   *)
(* The handler of a request runs on the event loop up to the await of      *)
(* asyncio.to_thread and from there on; generate() runs in a thread.  Both *)
(* are interleaved with the other requests on the runtime and the loader.  *)
(***************************************************************************)
EXTENDS Generation

VARIABLE gauge   \* LLM_ACTIVE_REQUESTS

vars == <<pc, loader, runtime, gen, gauge>>

ChatPcs == {"new", "register", "dispatch", "returned", "raised", "leave", "done"}
GenerationPcs == {"prefill", "report_created", "decode", "report_updated"}

Init ==
  /\ pc = [r \in Requests |-> "new"]
  /\ LoaderInit /\ RuntimeInit /\ GenerationInit
  /\ gauge = 0

(* A request with a prompt and a known policy is counted ... *)
Accept(r) ==
  /\ Goto(r, "new", "register")
  /\ gauge' = gauge + 1
  /\ UNCHANGED <<loader, runtime, gen>>

(* ... and registered. *)
Register(r) ==
  /\ Goto(r, "register", "dispatch")
  /\ RequestStarted(r)
  /\ UNCHANGED <<loader, gen, gauge>>

(* to_thread: the model, or the mock which returns without using anything *)
Dispatch(r) ==
  /\ \E to \in {"check", "returned"} : Goto(r, "dispatch", to)
  /\ UNCHANGED <<loader, runtime, gen, gauge>>

(* The rest of the try block.  Building the ChatResponse cannot raise: its *)
(* fields are those of the result, which generate() gives their types.     *)
Finish(r) ==
  /\ Goto(r, "returned", "leave")
  /\ RequestFinished(r)
  /\ UNCHANGED <<loader, gen, gauge>>

Fail(r) ==
  /\ Goto(r, "raised", "leave")
  /\ RequestFailed(r)
  /\ UNCHANGED <<loader, gen, gauge>>

(* The finally block *)
Leave(r) ==
  /\ Goto(r, "leave", "done")
  /\ gauge' = gauge - 1
  /\ UNCHANGED <<loader, runtime, gen>>

RequestStep(r) ==
  \/ Register(r) \/ Dispatch(r) \/ Finish(r) \/ Fail(r) \/ Leave(r)
  \/ GenerationStep(r) /\ UNCHANGED gauge

RequestRaises(r) ==
  /\ \/ LoadRaises(r) /\ UNCHANGED <<runtime, gen>>
     \/ InferenceRaises(r)
  /\ UNCHANGED gauge

Next == \E r \in Requests : Accept(r) \/ RequestStep(r) \/ RequestRaises(r)

Spec == Init /\ [][Next]_vars

(* A request that was accepted runs to its end: the event loop and the     *)
(* threads are scheduled, and nothing else keeps a step from being taken.  *)
FairSpec == Spec /\ \A r \in Requests : WF_vars(RequestStep(r))

----------------------------------------------------------------------------
(* Every local variable and shared attribute keeps its shape. *)
ChatTypeOK ==
  /\ pc \in [Requests -> ChatPcs \cup GenerationPcs \cup LoadPcs]
  /\ LoaderTypeOK /\ RuntimeTypeOK /\ GenerationTypeOK
  /\ gauge \in Int

(***************************************************************************)
(* All threads generate with the same model and tokenizer, fully prepared: *)
(* what the two tests around the lock of load() are for.                   *)
(***************************************************************************)
OneModel ==
  \A r \in Requests : pc[r] \in GenerationPcs =>
    /\ loaded /\ model.ready
    /\ handle[r] = [tokenizer |-> tokenizer, model |-> model.id]

(* Once the model is published nobody replaces or changes it. *)
LoadedForGood ==
  [][loaded => loaded' /\ UNCHANGED <<tokenizer, model>>]_vars

(***************************************************************************)
(* At every moment the runtime can be read, each request it has counted is *)
(* active or was counted once as finished or failed, and the gauge of      *)
(* active requests covers the active set.                                  *)
(***************************************************************************)
Accounting ==
  /\ total = finished + errors + Cardinality(active)
  /\ gauge >= Cardinality(active)

(* Where an event stands in the life of its request *)
Rank(e) ==
  CASE e.kind = "request_started" -> 0
    [] e.kind = "policy_applied"  -> IF e.step = 0 THEN 1 ELSE e.step + 2
    [] e.kind = "cache_created"   -> 2
    [] e.kind = "cache_updated"   -> MaxTokens + 2
    [] OTHER                      -> MaxTokens + 3

(***************************************************************************)
(* However the threads interleave and whatever the ring has dropped, the   *)
(* events of one request are there once each and in the order of its life, *)
(* and an event of its end is the last one.                                *)
(***************************************************************************)
EventsOrdered ==
  \A i, k \in DOMAIN events :
    i < k /\ events[i].request = events[k].request =>
      Rank(events[i]) < Rank(events[k])

(* The event at index i is the last of the given kinds in the ring. *)
IsLast(i, kinds) ==
  /\ events[i].kind \in kinds
  /\ \A k \in DOMAIN events : k > i => events[k].kind \notin kinds

(***************************************************************************)
(* last_policy_event and last_kv_cache_state of /runtime/status belong to  *)
(* the latest such event in recent_events, read under the same lock.       *)
(***************************************************************************)
LastEventsFresh ==
  \A i \in DOMAIN events :
    /\ IsLast(i, {"policy_applied"}) => lastPolicy = events[i]
    /\ IsLast(i, {"cache_created", "cache_updated"}) => lastState = events[i]

(* generate() of the Transformers backend has returned for this request. *)
Answered(r) == pc[r] \in {"returned", "leave", "done"} /\ gen[r].reported > 0

(* The length of the cache can be told: an opaque one is estimated from the *)
(* configuration, which knows nothing of evictions.                         *)
Measured(r) == Readable(gen[r].format) \/ gen[r].budget = NoBudget

(***************************************************************************)
(* The numbers of an answer agree with each other: at least one and at     *)
(* most max_tokens tokens, the policy applied once per call of the model,  *)
(* a cache of every token but the last and those that were evicted, and    *)
(* its size in bytes, from whatever format of the cache they were read.    *)
(***************************************************************************)
AnswerConsistent ==
  \A r \in Requests :
    LET g == gen[r] IN
    Answered(r) =>
      /\ g.produced \in 1..g.limit
      /\ g.applied = g.produced
      /\ Measured(r) =>
           /\ g.reported + g.evicted = PromptTokens + g.produced - 1
           /\ g.cached = g.reported
           /\ g.bytes = SizeOf(g.cached)

(***************************************************************************)
(* The older generator, given the same tokens by the model, would have     *)
(* stopped at the same one, and reported the same cache (its size only if  *)
(* the cache can be converted to tuples).                                  *)
(***************************************************************************)
LegacyAgrees ==
  \A r \in Requests :
    LET g == gen[r]
        older == OlderEstimates[g.format][g.cached]
    IN Answered(r) /\ g.budget = NoBudget =>
         /\ Loop(g.limit, g.produced) = g.produced
         /\ older.tokens = g.reported
         /\ g.format \in {"tuple", "convertible"} => older.bytes = g.bytes

(* What the policy was told before the last call is the real length of the  *)
(* cache, less what it evicted then (while tensors can be read).            *)
PolicySeesCache ==
  \A r \in Requests :
    LET g == gen[r] IN
    g.applied > 0 /\ Readable(g.format) =>
      g.cached = IF g.budget \in 0..g.before THEN g.budget ELSE g.before

(* Every accepted request is answered and leaves the books for good, even  *)
(* when loading fails for others that hold the lock.                       *)
EveryoneLeaves ==
  \A r \in Requests : pc[r] = "register" ~> [](pc[r] = "done" /\ r \notin active)

============================================================================
