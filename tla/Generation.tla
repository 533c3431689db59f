---------------------------- MODULE Generation ----------------------------
(***************************************************************************)
(* generate() of app/inference/transformers_backend.py: prefill, then one  *)
(* token at a time, the KV cache policy after each call of the model.  The *)
(* tensors are external: a call of the model appends one entry per input   *)
(* token to the cache and gives a token, which may be the end of sequence. *)
(* So are policies that evict, for which policy.py defines the interface.  *)
(***************************************************************************)
EXTENDS KVCacheRuntime, Estimator

CONSTANTS
  PromptTokens,   \* length of a tokenized prompt
  CacheFormats,   \* the formats of the cache object, one per installation
  Budgets         \* what policies keep at most; NoBudget for the NoOp policy

NoBudget == -1

ASSUME PromptTokensIsPositive == PromptTokens \in Nat \ {0}
ASSUME CacheFormatsAreFormats == CacheFormats \subseteq Formats
ASSUME BudgetsAreNaturals == Budgets \subseteq Nat \cup {NoBudget}

VARIABLE gen   \* the local variables of generate(), per request

Run == [limit : 1..MaxTokens,   \* max_new_tokens
        budget : Budgets,       \* of its policy
        format : CacheFormats,  \* of past_key_values
        cached : Nat,           \* entries in past_key_values
        produced : Nat,         \* len(generated_token_ids)
        applied : Nat,          \* policy_applied_count
        evicted : Nat,          \* policy_evicted_tokens
        before : Nat,           \* tokens_before of the last policy result
        reported : Nat,         \* kv_cache_tokens of the result
        bytes : Nat]            \* kv_cache_memory_bytes of the result

GenerationTypeOK == gen \in [Requests -> Run]

NewRun(limit, budget, format) ==
  [limit |-> limit, budget |-> budget, format |-> format, cached |-> 0,
   produced |-> 0, applied |-> 0, evicted |-> 0, before |-> 0,
   reported |-> 0, bytes |-> 0]

GenerationInit ==
  \E format \in CacheFormats :
    gen \in [Requests -> {NewRun(n, b, format) : n \in 1..MaxTokens, b \in Budgets}]

(* What the estimators make of a cache: functions, to be computed only once *)
CacheLengths == 0..(PromptTokens + MaxTokens)

Estimates ==
  [format \in CacheFormats |-> [n \in CacheLengths |-> [generated \in 0..MaxTokens |->
     Estimate(Cache(format, n), PromptTokens, generated)]]]

OlderEstimates ==
  [format \in CacheFormats |-> [n \in CacheLengths |->
     EstimateKvCache(Cache(format, n))]]

(* The cache of a request with n entries *)
Estimated(r, n, generated) == Estimates[gen[r].format][n][generated]

----------------------------------------------------------------------------
(* What policies leave of the n entries of a cache that they are told to be *)
(* before: one that evicts keeps its budget, the NoOp policy everything.    *)
Evicts(r, n) == gen[r].budget # NoBudget /\ gen[r].budget < n

Kept(r, n) == IF Evicts(r, n) THEN gen[r].budget ELSE n

(* tokens_after: the NoOp policy gives back the number it was told. *)
TokensAfter(r, n, before) == IF Evicts(r, n) THEN gen[r].budget ELSE before

(* build_result(): evicted_tokens *)
EvictedTokens(before, after) == IF before > after THEN before - after ELSE 0

(* Slip: only the evictions of the last call are kept. *)
ApplyPolicyForgetful(r, n, step, generated) ==
  LET before == Estimated(r, n, generated).tokens
  IN /\ PolicyApplied(r, step, before)
     /\ gen' = [gen EXCEPT
          ![r].cached = Kept(r, n),
          ![r].applied = @ + 1,
          ![r].evicted = EvictedTokens(before, TokensAfter(r, n, before)),
          ![r].before = before,
          ![r].produced = IF step = 0 THEN @ ELSE @ + 1]

(* The policy after a call of the model that leaves n entries *)
ApplyPolicy(r, n, step, generated) ==
  LET before == Estimated(r, n, generated).tokens
  IN /\ PolicyApplied(r, step, before)
     /\ gen' = [gen EXCEPT
          ![r].cached = Kept(r, n),
          ![r].applied = @ + 1,
          ![r].evicted = @ + EvictedTokens(before, TokensAfter(r, n, before)),
          ![r].before = before,
          ![r].produced = IF step = 0 THEN @ ELSE @ + 1]

Prefill(r) ==
  /\ Goto(r, "prefill", "report_created")
  /\ ApplyPolicy(r, PromptTokens, 0, 0)
  /\ UNCHANGED loader

(* The state of the cache, then the first token, taken from the prefill *)
ReportCreated(r) ==
  /\ Goto(r, "report_created", "decode")
  /\ UpdateState(r, "cache_created", Estimated(r, gen[r].cached, 0).tokens)
  /\ gen' = [gen EXCEPT ![r].produced = 1]
  /\ UNCHANGED loader

(* range(1, max_new_tokens): decode_step is the number of tokens so far *)
MoreTokens(r) == gen[r].produced < gen[r].limit

(* Slip: the steps are counted from zero again. *)
DecodeFromZero(r) ==
  /\ MoreTokens(r)
  /\ \E next \in {"decode", "report_updated"} : Goto(r, "decode", next)
  /\ ApplyPolicy(r, gen[r].cached + 1, gen[r].produced - 1, gen[r].produced)
  /\ UNCHANGED loader

(* One turn of the loop; the new token may be the end of sequence. *)
Decode(r) ==
  /\ MoreTokens(r)
  /\ \E next \in {"decode", "report_updated"} : Goto(r, "decode", next)
  /\ ApplyPolicy(r, gen[r].cached + 1, gen[r].produced, gen[r].produced)
  /\ UNCHANGED loader

EndDecode(r) ==
  /\ ~MoreTokens(r)
  /\ Goto(r, "decode", "report_updated")
  /\ UNCHANGED <<loader, runtime, gen>>

ReportUpdated(r) ==
  LET final == Estimated(r, gen[r].cached, gen[r].produced) IN
  /\ Goto(r, "report_updated", "returned")
  /\ UpdateState(r, "cache_updated", final.tokens)
  /\ gen' = [gen EXCEPT ![r].reported = final.tokens, ![r].bytes = final.bytes]
  /\ UNCHANGED loader

(* Tokenizer, model, policy or estimator raises before the step records *)
(* anything; what it did to local variables is gone with them.          *)
InferenceRaises(r) ==
  /\ Failures
  /\ pc[r] \in {"prefill", "report_created", "decode", "report_updated"}
  /\ pc' = [pc EXCEPT ![r] = "raised"]
  /\ UNCHANGED <<loader, runtime, gen>>

GenerationStep(r) ==
  \/ LoadStep(r) /\ UNCHANGED <<runtime, gen>>
  \/ Prefill(r) \/ ReportCreated(r) \/ Decode(r) \/ EndDecode(r) \/ ReportUpdated(r)

============================================================================
