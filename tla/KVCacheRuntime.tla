--------------------------- MODULE KVCacheRuntime ---------------------------
(***************************************************************************)
(* app/kvcache/runtime.py: counters, active requests, the last states and  *)
(* a bounded ring of events.  Every method holds the same lock from its    *)
(* first to its last access, so each is one step, and get_status(), which  *)
(* holds it too, reads a state between two steps.                          *)
(***************************************************************************)
EXTENDS ModelLoader, FiniteSets, Sequences

CONSTANTS
  MaxTokens,  \* the largest max_tokens of a request
  MaxEvents,  \* maxlen of the deque
  None        \* last_state and last_policy_event before the first one

ASSUME MaxTokensIsPositive == MaxTokens \in Nat \ {0}
ASSUME MaxEventsIsPositive == MaxEvents \in Nat \ {0}

VARIABLES
  total,       \* total_requests
  finished,    \* finished_requests
  errors,      \* error_requests
  active,      \* active_request_ids
  lastState,   \* last_state, as the event recorded with it
  lastPolicy,  \* last_policy_event
  events       \* the ring

runtime == <<total, finished, errors, active, lastState, lastPolicy, events>>

Kinds == {"request_started", "policy_applied", "cache_created",
          "cache_updated", "request_finished", "request_failed"}

(* tokens: tokens_before of a policy event, cached_tokens of a cache event *)
Event == [kind : Kinds, request : Requests, step : Nat, tokens : Nat]

RuntimeTypeOK ==
  /\ total \in Nat /\ finished \in Nat /\ errors \in Nat
  /\ active \in SUBSET Requests
  /\ lastState \in Event \cup {None}
  /\ lastPolicy \in Event \cup {None}
  /\ events \in Seq(Event) /\ Len(events) <= MaxEvents

RuntimeInit ==
  /\ total = 0 /\ finished = 0 /\ errors = 0
  /\ active = {}
  /\ lastState = None
  /\ lastPolicy = None
  /\ events = <<>>

(* Slips: nothing is ever dropped; a full ring refuses the new event. *)
RingUnbounded(s, e) == Append(s, e)
RingKeepingOldest(s, e) == IF Len(s) = MaxEvents THEN s ELSE Append(s, e)

(* deque(maxlen=...): appending to a full ring drops its oldest event *)
Ring(s, e) ==
  IF Len(s) = MaxEvents THEN Append(Tail(s), e) ELSE Append(s, e)

Log(kind, r, step, tokens) ==
  events' = Ring(events, [kind |-> kind, request |-> r, step |-> step,
                          tokens |-> tokens])

RequestStarted(r) ==
  /\ total' = total + 1
  /\ active' = active \cup {r}
  /\ Log("request_started", r, 0, 0)
  /\ UNCHANGED <<finished, errors, lastState, lastPolicy>>

RequestFinished(r) ==
  /\ finished' = finished + 1
  /\ active' = active \ {r}
  /\ Log("request_finished", r, 0, 0)
  /\ UNCHANGED <<total, errors, lastState, lastPolicy>>

(* Slip: a failed request stays active. *)
RequestFailedActive(r) ==
  /\ errors' = errors + 1
  /\ Log("request_failed", r, 0, 0)
  /\ UNCHANGED <<total, finished, active, lastState, lastPolicy>>

RequestFailed(r) ==
  /\ errors' = errors + 1
  /\ active' = active \ {r}
  /\ Log("request_failed", r, 0, 0)
  /\ UNCHANGED <<total, finished, lastState, lastPolicy>>

UpdateState(r, kind, cached) ==
  /\ Log(kind, r, 0, cached)
  /\ lastState' = [kind |-> kind, request |-> r, step |-> 0, tokens |-> cached]
  /\ UNCHANGED <<total, finished, errors, active, lastPolicy>>

PolicyApplied(r, step, before) ==
  /\ Log("policy_applied", r, step, before)
  /\ lastPolicy' = [kind |-> "policy_applied", request |-> r, step |-> step,
                    tokens |-> before]
  /\ UNCHANGED <<total, finished, errors, active, lastState>>

============================================================================
