------------------------------ MODULE Estimator ------------------------------
(***************************************************************************)
(* app/kvcache/estimator.py: the length and the size of a KV cache, read   *)
(* from its tensors wherever the installed transformers library keeps      *)
(* them, or else computed from the configuration of the model; and         *)
(* estimate_kv_cache() of the older app/inference/generator.py.            *)
(***************************************************************************)
EXTENDS Integers, Sequences, SequencesExt

CONSTANTS
  Layers, Heads, HeadDim,   \* of the model
  ElementSize               \* bytes per element, of its tensors and by its dtype

ASSUME ShapeIsPositive ==
  {Layers, Heads, HeadDim, ElementSize} \subseteq Nat \ {0}

(* A tensor is its shape.  What is no tensor has the shape <<>>. *)
Tensor(n) == <<1, Heads, n, HeadDim>>

IsTensor(t) == t # <<>>

(* numel() * element_size() *)
Bytes(t) == ElementSize * FoldLeft(LAMBDA a, b : a * b, 1, t)

(***************************************************************************)
(* A cache of n tokens, as releases of transformers build it: a tuple with *)
(* a pair of tensors per layer, an object with two lists of tensors, which *)
(* may be convertible to the tuple, or an object with a list of layers.    *)
(* legacy is what to_legacy_cache() finds; <<>> is what is not there.      *)
(***************************************************************************)
Formats == {"tuple", "convertible", "lists", "layers", "opaque"}

Readable(format) == format # "opaque"

Repeated(x) == [l \in 1..Layers |-> x]

Cache(format, n) ==
  LET t == Tensor(n) IN
  [legacy |-> IF format \in {"tuple", "convertible"} THEN Repeated(<<t, t>>) ELSE <<>>,
   keys   |-> IF format \in {"convertible", "lists"} THEN Repeated(t) ELSE <<>>,
   values |-> IF format \in {"convertible", "lists"} THEN Repeated(t) ELSE <<>>,
   layers |-> IF format = "layers" THEN Repeated([keys |-> t, values |-> t]) ELSE <<>>,
   length |-> IF format = "tuple" THEN 0 ELSE n]   \* get_seq_length()

----------------------------------------------------------------------------
(* The layers that are a pair of tensors, in their order; one that is too    *)
(* short is passed over.                                                    *)
TensorPairs(s) ==
  FoldLeft(LAMBDA pairs, p : IF Len(p) >= 2 /\ IsTensor(p[1]) /\ IsTensor(p[2])
                             THEN Append(pairs, <<p[1], p[2]>>) ELSE pairs,
           <<>>, s)

LegacyPairs(c) == TensorPairs(c.legacy)

ListPairs(c) ==
  TensorPairs([l \in DOMAIN c.keys \cap DOMAIN c.values |-> <<c.keys[l], c.values[l]>>])

LayerPairs(c) ==
  TensorPairs([l \in DOMAIN c.layers |-> <<c.layers[l].keys, c.layers[l].values>>])

(* extract_kv_pairs(): the first format that gives any *)
ExtractKvPairs(c) ==
  CASE LegacyPairs(c) # <<>>                             -> LegacyPairs(c)
    [] LegacyPairs(c) = <<>> /\ ListPairs(c) # <<>>      -> ListPairs(c)
    [] LegacyPairs(c) = <<>> /\ ListPairs(c) = <<>>      -> LayerPairs(c)

SumBytes(pairs) == FoldLeft(LAMBDA a, p : a + Bytes(p[1]) + Bytes(p[2]), 0, pairs)

State(tokens, bytes) == [tokens |-> tokens, bytes |-> bytes]

(* estimate_from_config(): the last token produced is not in the cache yet; *)
(* head_dim is hidden_size // num_heads                                     *)
EstimateFromConfig(prompt, generated) ==
  LET tokens == IF generated <= 0 THEN prompt ELSE prompt + generated - 1
      hidden == Heads * HeadDim
  IN State(tokens, Layers * 2 * Heads * tokens * (hidden \div Heads) * ElementSize)

(* The second to last dimension of a tensor with at least three *)
SequenceLength(t) == IF Len(t) >= 3 THEN t[Len(t) - 1] ELSE 0

(* Slip: the tensors are never looked at. *)
EstimateBlindly(c, prompt, generated) == EstimateFromConfig(prompt, generated)

(* estimate(); the cache is never None, as the model is called with use_cache *)
Estimate(c, prompt, generated) ==
  LET pairs == ExtractKvPairs(c) IN
  IF pairs = <<>> THEN EstimateFromConfig(prompt, generated)
  ELSE State(SequenceLength(pairs[1][1]), SumBytes(pairs))

----------------------------------------------------------------------------
(* estimate_kv_cache() of the older generator: the length by its method or *)
(* from the first tensor, the bytes from the tuple only                    *)
EstimateKvCache(c) ==
  State(IF c.length = 0 /\ c.legacy # <<>> THEN SequenceLength(c.legacy[1][1])
        ELSE c.length,
        SumBytes(c.legacy))

(* Slip: one turn too many. *)
LoopTooLong(limit, end) ==
  LET produced[n \in 1..(limit + 1)] ==
        IF n = limit + 1 \/ (n > 1 /\ n = end) THEN n ELSE produced[n + 1]
  IN produced[1]

(* generate() of the older generator: the tokens it produces if the one at  *)
(* end, the first excepted, is the end of sequence: one from the prefill,   *)
(* then up to max_new_tokens - 1 turns of its loop                          *)
Loop(limit, end) ==
  LET produced[n \in 1..limit] ==
        IF n = limit \/ (n > 1 /\ n = end) THEN n ELSE produced[n + 1]
  IN produced[1]

(* The size of a cache of n tokens, whatever it is read from *)
SizeOf(n) == 2 * Layers * Heads * n * HeadDim * ElementSize

============================================================================
