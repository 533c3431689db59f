-------------------------- MODULE EstimatorProofs --------------------------
(***************************************************************************)
(* What the estimators make of a cache of n tokens, for every shape of the *)
(* model and every format the cache may come in.                           *)
(***************************************************************************)
EXTENDS Estimator, LibraryLemmas

(* The size of a tensor is the product of its four dimensions and the size *)
(* of an element.                                                          *)
LEMMA BytesOfFour ==
  ASSUME NEW a \in Nat, NEW b \in Nat, NEW c \in Nat, NEW d \in Nat
  PROVE  Bytes(<<a, b, c, d>>) = ElementSize * (a * b * c * d)
<1> DEFINE t == <<a, b, c, d>>
           S == SUBSET (1..4)
           Pick(k, s) == IF k \in s THEN t[k] ELSE 1
           E(F) == [s \in S |-> IF s = {} THEN 1
                                ELSE LET m == Max(s) IN F[s \ {m}] * t[m]]
           W == [s \in S |-> Pick(1, s) * Pick(2, s) * Pick(3, s) * Pick(4, s)]
           iter == CHOOSE F : F = E(F)
<1>1. DOMAIN t = 1..4 /\ t[1] = a /\ t[2] = b /\ t[3] = c /\ t[4] = d
  OBVIOUS
<1>2. Bytes(t) = ElementSize * iter[1..4]
  BY <1>1 DEF Bytes, FoldLeft, MapThenFoldSet
<1>3. W[{}] = 1
  OBVIOUS
<1>4. ASSUME NEW s \in S, s # {} PROVE W[s] = W[s \ {Max(s)}] * t[Max(s)]
  <2> DEFINE m == Max(s)
  <2>1. m \in s
    BY <1>4, MaxOfIndices
  <2> HIDE DEF m
  <2> DEFINE p == Pick(1, s)  q == Pick(2, s)  u == Pick(3, s)  v == Pick(4, s)
  <2>2. p \in Nat /\ q \in Nat /\ u \in Nat /\ v \in Nat
    OBVIOUS
  <2>3. W[s] = p * q * u * v
    OBVIOUS
  <2>4. CASE m = 1
    <3>1. p = t[m] /\ W[s \ {m}] = 1 * q * u * v
      BY <2>1, <2>4
    <3> HIDE DEF p, q, u, v, W, t
    <3> QED BY <2>2, <2>3, <3>1 DEF m
  <2>5. CASE m = 2
    <3>1. q = t[m] /\ W[s \ {m}] = p * 1 * u * v
      BY <2>1, <2>5
    <3> HIDE DEF p, q, u, v, W, t
    <3> QED BY <2>2, <2>3, <3>1 DEF m
  <2>6. CASE m = 3
    <3>1. u = t[m] /\ W[s \ {m}] = p * q * 1 * v
      BY <2>1, <2>6
    <3> HIDE DEF p, q, u, v, W, t
    <3> QED BY <2>2, <2>3, <3>1 DEF m
  <2>7. CASE m = 4
    <3>1. v = t[m] /\ W[s \ {m}] = p * q * u * 1
      BY <2>1, <2>7
    <3> HIDE DEF p, q, u, v, W, t
    <3> QED BY <2>2, <2>3, <3>1 DEF m
  <2> QED BY <2>1, <2>4, <2>5, <2>6, <2>7
<1>5. W = E(W)
  <2>1. W = [s \in S |-> W[s]]
    OBVIOUS
  <2> HIDE DEF W
  <2>2. \A s \in S : W[s] = E(W)[s]
    BY <1>3, <1>4
  <2> HIDE DEF t, S
  <2> QED BY <2>1, <2>2
<1> HIDE DEF W
<1>6. iter = E(iter)
  BY <1>5
<1> HIDE DEF iter
<1>7. /\ iter[{}] = 1
      /\ \A s \in S : s # {} => iter[s] = iter[s \ {Max(s)}] * t[Max(s)]
  <2>1. \A s \in S : iter[s] = E(iter)[s]
    BY <1>6
  <2> QED BY <2>1
<1> HIDE DEF t
<1>8. iter[1..4] = W[1..4]
  <2>1. iter[{}] = W[{}]
    BY <1>3, <1>7
  <2>2. \A s \in SUBSET (1..4) :
          s # {} /\ iter[s \ {Max(s)}] = W[s \ {Max(s)}] => iter[s] = W[s]
    BY <1>4, <1>7
  <2> QED BY <2>1, <2>2, FoldDetermined
<1>9. W[1..4] = a * b * c * d
  BY <1>1 DEF W
<1> QED BY <1>2, <1>8, <1>9 DEF t

(* A list of k times the same value, and one more *)
LEMMA OneMore ==
  ASSUME NEW k \in Nat, NEW x
  PROVE  Append([i \in 1..k |-> x], x) = [i \in 1..k + 1 |-> x]
<1> DEFINE s == [i \in 1..k |-> x]
           r == [i \in 1..k + 1 |-> x]
<1>1. s \in Seq({x}) /\ r \in Seq({x}) /\ Len(s) = k /\ Len(r) = k + 1
  OBVIOUS
<1>2. \A i \in 1..k + 1 : r[i] = x
  OBVIOUS
<1>3. \A i \in 1..k : s[i] = x
  OBVIOUS
<1> HIDE DEF s, r
<1>4. /\ Append(s, x) \in Seq({x})
      /\ Len(Append(s, x)) = k + 1
      /\ \A i \in 1..k + 1 : Append(s, x)[i] = x
  BY <1>1, <1>3
<1> DEFINE a == Append(s, x)
<1> HIDE DEF a
<1>5. a = r
  BY <1>1, <1>2, <1>4, SeqEqual DEF a
<1> QED BY <1>5 DEF a, s, r

(* Every layer that is a pair of tensors is kept, whole and in its place. *)
LEMMA PairsOfLayers ==
  ASSUME NEW n \in Nat, NEW t, IsTensor(t)
  PROVE  TensorPairs([l \in 1..n |-> <<t, t>>]) = [l \in 1..n |-> <<t, t>>]
<1> DEFINE x == <<t, t>>
           list == [l \in 1..n |-> x]
           S == SUBSET (1..n)
           Kept(pairs, p) ==
             IF Len(p) >= 2 /\ IsTensor(p[1]) /\ IsTensor(p[2])
             THEN Append(pairs, <<p[1], p[2]>>) ELSE pairs
           E(F) == [s \in S |-> IF s = {} THEN <<>>
                                ELSE LET m == Max(s) IN Kept(F[s \ {m}], list[m])]
           W == [s \in S |-> [i \in 1..Cardinality(s) |-> x]]
           iter == CHOOSE F : F = E(F)
<1>1. DOMAIN list = 1..n /\ \A l \in 1..n : list[l] = x
  OBVIOUS
<1>2. TensorPairs(list) = iter[1..n]
  BY <1>1 DEF TensorPairs, FoldLeft, MapThenFoldSet
<1>3. \A pairs : Kept(pairs, x) = Append(pairs, x)
  <2>1. Len(x) = 2 /\ x[1] = t /\ x[2] = t
    OBVIOUS
  <2> QED BY <2>1
<1>4. \A s \in S : IsFiniteSet(s) /\ Cardinality(s) \in Nat
  <2>1. IsFiniteSet(1..n)
    BY FS_Interval
  <2> QED BY <2>1, FS_Subset, FS_CardinalityType
<1> HIDE DEF x, list
<1>5. W[{}] = <<>>
  <2>1. Cardinality({}) = 0
    BY FS_EmptySet
  <2> QED BY <2>1
<1>6. ASSUME NEW s \in S, s # {} PROVE W[s] = Kept(W[s \ {Max(s)}], list[Max(s)])
  <2> DEFINE m == Max(s)
  <2>1. m \in s
    BY <1>6, MaxOfIndices
  <2> HIDE DEF m
  <2> DEFINE k == Cardinality(s \ {m})
  <2>2. k \in Nat /\ k + 1 = Cardinality(s) /\ s \ {m} \in S
    BY <1>4, <2>1, FS_RemoveElement
  <2>3. W[s \ {m}] = [i \in 1..k |-> x] /\ W[s] = [i \in 1..k + 1 |-> x]
    BY <2>2
  <2> HIDE DEF k, W
  <2>4. Append(W[s \ {m}], x) = W[s]
    BY <2>2, <2>3, OneMore
  <2>5. list[m] = x
    BY <1>1, <2>1
  <2> QED BY <1>3, <2>4, <2>5 DEF m
<1>7. W = E(W)
  <2>1. W = [s \in S |-> W[s]]
    OBVIOUS
  <2> HIDE DEF W, Kept
  <2>2. \A s \in S : W[s] = E(W)[s]
    BY <1>5, <1>6
  <2> HIDE DEF S
  <2> QED BY <2>1, <2>2
<1> HIDE DEF W, Kept
<1>8. iter = E(iter)
  BY <1>7
<1> HIDE DEF iter
<1>9. /\ iter[{}] = <<>>
      /\ \A s \in S : s # {} => iter[s] = Kept(iter[s \ {Max(s)}], list[Max(s)])
  <2>1. \A s \in S : iter[s] = E(iter)[s]
    BY <1>8
  <2> QED BY <2>1
<1>10. iter[1..n] = W[1..n]
  <2>1. iter[{}] = W[{}]
    BY <1>5, <1>9
  <2>2. \A s \in SUBSET (1..n) :
          s # {} /\ iter[s \ {Max(s)}] = W[s \ {Max(s)}] => iter[s] = W[s]
    BY <1>6, <1>9
  <2> QED BY <2>1, <2>2, FoldDetermined
<1>11. W[1..n] = [l \in 1..n |-> x]
  <2>1. Cardinality(1..n) = n
    BY FS_Interval
  <2> QED BY <2>1 DEF W
<1> QED BY <1>2, <1>10, <1>11 DEF x, list

(* The sizes of the layers add up. *)
LEMMA BytesOfLayers ==
  ASSUME NEW n \in Nat, NEW t, Bytes(t) \in Nat
  PROVE  SumBytes([l \in 1..n |-> <<t, t>>]) = n * (2 * Bytes(t))
<1> DEFINE x == <<t, t>>
           b == Bytes(t)
           list == [l \in 1..n |-> x]
           S == SUBSET (1..n)
           Added(a, p) == a + Bytes(p[1]) + Bytes(p[2])
           E(F) == [s \in S |-> IF s = {} THEN 0
                                ELSE LET m == Max(s) IN Added(F[s \ {m}], list[m])]
           W == [s \in S |-> Cardinality(s) * (2 * b)]
           iter == CHOOSE F : F = E(F)
<1>1. DOMAIN list = 1..n /\ \A l \in 1..n : list[l] = x
  OBVIOUS
<1>2. SumBytes(list) = iter[1..n]
  BY <1>1 DEF SumBytes, FoldLeft, MapThenFoldSet
<1>3. \A a : Added(a, x) = a + b + b
  OBVIOUS
<1>4. \A s \in S : IsFiniteSet(s) /\ Cardinality(s) \in Nat
  <2>1. IsFiniteSet(1..n)
    BY FS_Interval
  <2> QED BY <2>1, FS_Subset, FS_CardinalityType
<1> HIDE DEF x, list, b
<1>5. W[{}] = 0
  <2>1. Cardinality({}) = 0 /\ b \in Nat
    BY FS_EmptySet DEF b
  <2> QED BY <2>1
<1>6. ASSUME NEW s \in S, s # {} PROVE W[s] = Added(W[s \ {Max(s)}], list[Max(s)])
  <2> DEFINE m == Max(s)
  <2>1. m \in s
    BY <1>6, MaxOfIndices
  <2> HIDE DEF m
  <2> DEFINE k == Cardinality(s \ {m})
  <2>2. k \in Nat /\ k + 1 = Cardinality(s) /\ s \ {m} \in S
    BY <1>4, <2>1, FS_RemoveElement
  <2>3. W[s \ {m}] = k * (2 * b) /\ W[s] = (k + 1) * (2 * b)
    BY <2>2
  <2> HIDE DEF k, W
  <2>4. W[s] = W[s \ {m}] + b + b
    BY <2>2, <2>3 DEF b
  <2>5. list[m] = x
    BY <1>1, <2>1
  <2> QED BY <1>3, <2>4, <2>5 DEF m
<1>7. W = E(W)
  <2>1. W = [s \in S |-> W[s]]
    OBVIOUS
  <2> HIDE DEF W, Added
  <2>2. \A s \in S : W[s] = E(W)[s]
    BY <1>5, <1>6
  <2> HIDE DEF S
  <2> QED BY <2>1, <2>2
<1> HIDE DEF W, Added
<1>8. iter = E(iter)
  BY <1>7
<1> HIDE DEF iter
<1>9. /\ iter[{}] = 0
      /\ \A s \in S : s # {} => iter[s] = Added(iter[s \ {Max(s)}], list[Max(s)])
  <2>1. \A s \in S : iter[s] = E(iter)[s]
    BY <1>8
  <2> QED BY <2>1
<1>10. iter[1..n] = W[1..n]
  <2>1. iter[{}] = W[{}]
    BY <1>5, <1>9
  <2>2. \A s \in SUBSET (1..n) :
          s # {} /\ iter[s \ {Max(s)}] = W[s \ {Max(s)}] => iter[s] = W[s]
    BY <1>6, <1>9
  <2> QED BY <2>1, <2>2, FoldDetermined
<1>11. W[1..n] = n * (2 * b)
  <2>1. Cardinality(1..n) = n
    BY FS_Interval
  <2> QED BY <2>1 DEF W
<1> QED BY <1>2, <1>10, <1>11 DEF x, list, b

----------------------------------------------------------------------------
(* The tensors of a cache of n tokens *)
LEMMA TensorOf ==
  ASSUME NEW n \in Nat
  PROVE  /\ IsTensor(Tensor(n))
         /\ SequenceLength(Tensor(n)) = n
         /\ Bytes(Tensor(n)) \in Nat
         /\ Layers * (2 * Bytes(Tensor(n))) = SizeOf(n)
<1> DEFINE t == Tensor(n)
<1>1. Len(t) = 4 /\ t[3] = n
  BY DEF Tensor
<1>2. t # <<>>
  BY <1>1
<1>3. SequenceLength(t) = n
  BY <1>1 DEF SequenceLength
<1>4. /\ Layers \in Nat /\ Heads \in Nat /\ HeadDim \in Nat /\ ElementSize \in Nat
  BY ShapeIsPositive
<1>5. Bytes(t) = ElementSize * (1 * Heads * n * HeadDim)
  BY <1>4, BytesOfFour DEF Tensor
<1>6. /\ Bytes(t) \in Nat
      /\ Layers * (2 * Bytes(t)) = SizeOf(n)
  <2>1. ElementSize * (1 * Heads * n * HeadDim) \in Nat
    BY <1>4
  <2>2. Layers * (2 * (ElementSize * (1 * Heads * n * HeadDim)))
          = 2 * Layers * Heads * n * HeadDim * ElementSize
    BY <1>4
  <2> QED BY <1>5, <2>1, <2>2 DEF SizeOf
<1> QED BY <1>2, <1>3, <1>6 DEF IsTensor

(* A format that is not there gives no pairs, and one that is gives one *)
(* pair of tensors for each layer.                                      *)
LEMMA PairsOfFormat ==
  ASSUME NEW format \in Formats, NEW n \in Nat
  PROVE  LET c == Cache(format, n)
             pairs == Repeated(<<Tensor(n), Tensor(n)>>)
         IN /\ LegacyPairs(c) = IF format \in {"tuple", "convertible"} THEN pairs ELSE <<>>
            /\ ListPairs(c) = IF format \in {"convertible", "lists"} THEN pairs ELSE <<>>
            /\ LayerPairs(c) = IF format = "layers" THEN pairs ELSE <<>>
            /\ pairs # <<>>
<1> DEFINE c == Cache(format, n)
           t == Tensor(n)
           pairs == [l \in 1..Layers |-> <<t, t>>]
<1>1. IsTensor(t) /\ Layers \in Nat \ {0}
  BY TensorOf, ShapeIsPositive
<1>2. TensorPairs(pairs) = pairs
  BY <1>1, PairsOfLayers
<1>3. TensorPairs(<<>>) = <<>>
  <2>1. <<>> = [l \in 1..0 |-> <<t, t>>]
    OBVIOUS
  <2>2. TensorPairs([l \in 1..0 |-> <<t, t>>]) = [l \in 1..0 |-> <<t, t>>]
    BY <1>1, PairsOfLayers
  <2> QED BY <2>1, <2>2
<1>4. pairs # <<>>
  <2>1. 1 \in DOMAIN pairs
    BY <1>1
  <2> QED BY <2>1
<1> HIDE DEF t
<1>5. LegacyPairs(c) = IF format \in {"tuple", "convertible"} THEN pairs ELSE <<>>
  BY <1>2, <1>3 DEF LegacyPairs, Cache, Repeated, t
<1>6. ListPairs(c) = IF format \in {"convertible", "lists"} THEN pairs ELSE <<>>
  <2> DEFINE read == [l \in DOMAIN c.keys \cap DOMAIN c.values |-> <<c.keys[l], c.values[l]>>]
  <2>1. CASE format \in {"convertible", "lists"}
    <3>1. c.keys = [l \in 1..Layers |-> t] /\ c.values = [l \in 1..Layers |-> t]
      BY <2>1 DEF Cache, Repeated, t
    <3> HIDE DEF c
    <3>2. read = pairs
      BY <3>1
    <3> QED BY <2>1, <3>2, <1>2 DEF ListPairs, c
  <2>2. CASE format \notin {"convertible", "lists"}
    <3>1. c.keys = <<>> /\ c.values = <<>>
      BY <2>2 DEF Cache
    <3> HIDE DEF c
    <3>2. read = <<>>
      BY <3>1
    <3> QED BY <2>2, <3>2, <1>3 DEF ListPairs, c
  <2> QED BY <2>1, <2>2
<1>7. LayerPairs(c) = IF format = "layers" THEN pairs ELSE <<>>
  <2> DEFINE read == [l \in DOMAIN c.layers |-> <<c.layers[l].keys, c.layers[l].values>>]
  <2>1. CASE format = "layers"
    <3>1. c.layers = [l \in 1..Layers |-> [keys |-> t, values |-> t]]
      BY <2>1 DEF Cache, Repeated, t
    <3> HIDE DEF c
    <3>2. read = pairs
      BY <3>1
    <3> QED BY <2>1, <3>2, <1>2 DEF LayerPairs, c
  <2>2. CASE format # "layers"
    <3>1. c.layers = <<>>
      BY <2>2 DEF Cache
    <3> HIDE DEF c
    <3>2. read = <<>>
      BY <3>1
    <3> QED BY <2>2, <3>2, <1>3 DEF LayerPairs, c
  <2> QED BY <2>1, <2>2
<1> QED BY <1>4, <1>5, <1>6, <1>7 DEF Repeated, t

(* What estimate_from_config() makes of the numbers of tokens *)
LEMMA ConfigSize ==
  ASSUME NEW prompt \in Nat, NEW generated \in Nat
  PROVE  LET tokens == IF generated = 0 THEN prompt ELSE prompt + generated - 1
         IN EstimateFromConfig(prompt, generated) = State(tokens, SizeOf(tokens))
<1> DEFINE tokens == IF generated = 0 THEN prompt ELSE prompt + generated - 1
<1>1. /\ Layers \in Nat /\ Heads \in Nat \ {0} /\ HeadDim \in Nat /\ ElementSize \in Nat
  BY ShapeIsPositive
<1>2. tokens \in Nat /\ tokens = IF generated <= 0 THEN prompt ELSE prompt + generated - 1
  OBVIOUS
<1> HIDE DEF tokens
<1>3. (Heads * HeadDim) \div Heads = HeadDim
  BY <1>1
<1>4. Layers * 2 * Heads * tokens * HeadDim * ElementSize = SizeOf(tokens)
  BY <1>1, <1>2 DEF SizeOf
<1>5. EstimateFromConfig(prompt, generated) = State(tokens, SizeOf(tokens))
  BY <1>2, <1>3, <1>4 DEF EstimateFromConfig
<1> QED BY <1>5 DEF tokens

(***************************************************************************)
(* estimate() tells the length of the cache, from whatever format its      *)
(* tensors are read, and its size in bytes; if there are none to be read   *)
(* it computes both from the numbers of tokens.                            *)
(***************************************************************************)
THEOREM EstimateExact ==
  ASSUME NEW format \in Formats, NEW n \in Nat,
         NEW prompt \in Nat, NEW generated \in Nat
  PROVE  LET tokens == IF Readable(format) THEN n
                       ELSE IF generated = 0 THEN prompt ELSE prompt + generated - 1
         IN Estimate(Cache(format, n), prompt, generated) = State(tokens, SizeOf(tokens))
<1> DEFINE c == Cache(format, n)
           t == Tensor(n)
           pairs == [l \in 1..Layers |-> <<t, t>>]
<1>1. /\ LegacyPairs(c) = IF format \in {"tuple", "convertible"} THEN pairs ELSE <<>>
      /\ ListPairs(c) = IF format \in {"convertible", "lists"} THEN pairs ELSE <<>>
      /\ LayerPairs(c) = IF format = "layers" THEN pairs ELSE <<>>
      /\ pairs # <<>>
  BY PairsOfFormat DEF Repeated
<1>2. CASE Readable(format)
  <2> HIDE DEF c, pairs
  <2>1. ExtractKvPairs(c) = pairs
    <3>1. CASE format \in {"tuple", "convertible"}
      BY <1>1, <3>1 DEF ExtractKvPairs
    <3>2. CASE format = "lists"
      BY <1>1, <3>2 DEF ExtractKvPairs
    <3>3. CASE format = "layers"
      BY <1>1, <3>3 DEF ExtractKvPairs
    <3> QED BY <1>2, <3>1, <3>2, <3>3 DEF Readable, Formats
  <2>2. pairs[1][1] = t
    BY ShapeIsPositive DEF pairs
  <2>3. SumBytes(pairs) = SizeOf(n)
    <3>1. Layers \in Nat
      BY ShapeIsPositive
    <3>2. SumBytes([l \in 1..Layers |-> <<t, t>>]) = Layers * (2 * Bytes(t))
      BY <3>1, TensorOf, BytesOfLayers
    <3> QED BY <3>2, TensorOf DEF pairs
  <2>4. Estimate(c, prompt, generated) = State(n, SizeOf(n))
    BY <1>1, <2>1, <2>2, <2>3, TensorOf DEF Estimate
  <2> QED BY <1>2, <2>4 DEF c
<1>3. CASE ~Readable(format)
  <2> HIDE DEF c, pairs
  <2>1. ExtractKvPairs(c) = <<>>
    BY <1>1, <1>3 DEF ExtractKvPairs, Readable
  <2>2. Estimate(c, prompt, generated) = EstimateFromConfig(prompt, generated)
    BY <2>1 DEF Estimate
  <2> QED BY <1>3, <2>2, ConfigSize DEF c
<1> QED BY <1>2, <1>3

(***************************************************************************)
(* estimate_kv_cache() of the older generator tells the length of a cache  *)
(* in any format, and the size of one that can be converted to tuples.     *)
(***************************************************************************)
THEOREM OlderEstimateExact ==
  ASSUME NEW format \in Formats, NEW n \in Nat
  PROVE  LET older == EstimateKvCache(Cache(format, n))
         IN /\ older.tokens = n
            /\ format \in {"tuple", "convertible"} => older.bytes = SizeOf(n)
<1> DEFINE c == Cache(format, n)
           t == Tensor(n)
           pairs == [l \in 1..Layers |-> <<t, t>>]
           older == EstimateKvCache(c)
<1>1. /\ c.legacy = IF format \in {"tuple", "convertible"} THEN pairs ELSE <<>>
      /\ c.length = IF format = "tuple" THEN 0 ELSE n
  BY DEF Cache, Repeated
<1>2. pairs # <<>>
  BY PairsOfFormat DEF Repeated
<1>3. pairs[1][1] = t
  BY ShapeIsPositive
<1>4. SumBytes(pairs) = SizeOf(n)
  <2>1. Layers \in Nat
    BY ShapeIsPositive
  <2>2. SumBytes(pairs) = Layers * (2 * Bytes(t))
    BY <2>1, TensorOf, BytesOfLayers
  <2> QED BY <2>2, TensorOf
<1> HIDE DEF c, pairs, t
<1>5. older.tokens = n
  <2>1. SequenceLength(t) = n
    BY TensorOf DEF t
  <2> QED BY <1>1, <1>2, <1>3, <2>1 DEF EstimateKvCache, State
<1>6. format \in {"tuple", "convertible"} => older.bytes = SizeOf(n)
  BY <1>1, <1>4 DEF EstimateKvCache, State
<1> QED BY <1>5, <1>6 DEF c
----------------------------------------------------------------------------
(***************************************************************************)
(* The loop of the older generator stops at the end of sequence, unless it *)
(* is the first token or comes too late, and else at max_new_tokens.       *)
(***************************************************************************)
THEOREM LoopStops ==
  ASSUME NEW limit \in Nat \ {0}, NEW end \in Nat
  PROVE  Loop(limit, end) = IF end \in 2..limit THEN end ELSE limit
<1> DEFINE E(F) == [n \in 1..limit |->
                     IF n = limit \/ (n > 1 /\ n = end) THEN n ELSE F[n + 1]]
           W == [n \in 1..limit |->
                  IF end \in 2..limit /\ n <= end THEN end ELSE limit]
           loop == CHOOSE F : F = E(F)
<1>1. Loop(limit, end) = loop[1]
  BY DEF Loop
<1>2. ASSUME NEW n \in 1..limit
      PROVE  W[n] = IF n = limit \/ (n > 1 /\ n = end) THEN n ELSE W[n + 1]
  <2>1. CASE n = limit
    BY <2>1
  <2>2. CASE n # limit
    <3>1. n + 1 \in 1..limit
      BY <2>2
    <3>2. W[n + 1] = IF end \in 2..limit /\ n + 1 <= end THEN end ELSE limit
      BY <3>1
    <3>3. W[n] = IF end \in 2..limit /\ n <= end THEN end ELSE limit
      OBVIOUS
    <3> HIDE DEF W
    <3> QED BY <2>2, <3>2, <3>3
  <2> QED BY <2>1, <2>2
<1>3. W = E(W)
  <2>1. W = [n \in 1..limit |-> W[n]]
    OBVIOUS
  <2> HIDE DEF W
  <2>2. \A n \in 1..limit : W[n] = E(W)[n]
    BY <1>2
  <2> QED BY <2>1, <2>2
<1>4. W[1] = IF end \in 2..limit THEN end ELSE limit
  OBVIOUS
<1> HIDE DEF W
<1>5. loop = E(loop)
  BY <1>3
<1> HIDE DEF loop
<1>6. \A n \in 1..limit :
        loop[n] = IF n = limit \/ (n > 1 /\ n = end) THEN n ELSE loop[n + 1]
  <2>1. \A n \in 1..limit : loop[n] = E(loop)[n]
    BY <1>5
  <2> QED BY <2>1
<1> DEFINE Bad == {n \in 1..limit : loop[n] # W[n]}
<1>7. Bad = {}
  <2>1. SUFFICES ASSUME Bad # {} PROVE FALSE
    OBVIOUS
  <2>2. PICK n \in Bad : \A k \in Bad : n >= k
    <3>1. Bad \subseteq 1..limit
      OBVIOUS
    <3> HIDE DEF Bad
    <3> QED BY <2>1, <3>1, GreatestIndex
  <2>3. n # limit /\ n + 1 \in 1..limit
    BY <1>2, <1>6
  <2>4. loop[n + 1] = W[n + 1]
    BY <2>2, <2>3
  <2> QED BY <1>2, <1>6, <2>4
<1> QED BY <1>1, <1>4, <1>7

============================================================================
