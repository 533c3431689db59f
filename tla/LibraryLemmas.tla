--------------------------- MODULE LibraryLemmas ---------------------------
(***************************************************************************)
(* Facts about the operators of the community modules that the models are  *)
(* built from: what the list commands of RedisStore (RPUSH, BLMOVE, LREM)  *)
(* do to the set of elements of a list and to how often each occurs, and   *)
(* how a fold over a list is determined.                                   *)
(***************************************************************************)
EXTENDS Integers, SequencesExt, SequenceTheorems, FiniteSetTheorems,
        FunctionTheorems, WellFoundedInduction, TLAPS

(* RPUSH adds its argument and nothing else. *)
LEMMA AppendRange ==
  ASSUME NEW S, NEW s \in Seq(S), NEW e \in S
  PROVE  /\ Append(s, e) \in Seq(S)
         /\ Range(Append(s, e)) = Range(s) \cup {e}
<1>1. /\ Append(s, e) \in Seq(S)
      /\ Len(Append(s, e)) = Len(s) + 1
      /\ \A i \in 1..Len(s) : Append(s, e)[i] = s[i]
      /\ Append(s, e)[Len(s) + 1] = e
  OBVIOUS
<1> DEFINE t == Append(s, e)
<1> HIDE DEF t
<1>2. Range(t) \subseteq Range(s) \cup {e}
  BY <1>1 DEF t, Range
<1>3. ASSUME NEW x \in Range(s) PROVE x \in Range(t)
  <2>1. PICK i \in 1..Len(s) : s[i] = x
    BY DEF Range
  <2>2. i \in DOMAIN t /\ t[i] = x
    BY <1>1, <2>1 DEF t
  <2> QED BY <2>2 DEF Range
<1>4. e \in Range(t)
  <2>1. Len(s) + 1 \in DOMAIN t /\ t[Len(s) + 1] = e
    BY <1>1 DEF t
  <2> QED BY <2>1 DEF Range
<1> QED BY <1>1, <1>2, <1>3, <1>4 DEF t

(* Popping the head of a list loses the head only. *)
LEMMA TailRange ==
  ASSUME NEW S, NEW s \in Seq(S), s # <<>>
  PROVE  /\ Tail(s) \in Seq(S)
         /\ Head(s) \in S
         /\ Range(s) = Range(Tail(s)) \cup {Head(s)}
<1>1. /\ Tail(s) \in Seq(S)
      /\ Head(s) = s[1] /\ Head(s) \in S
      /\ Len(s) \in Nat \ {0}
      /\ Len(Tail(s)) = Len(s) - 1
      /\ \A i \in 1..Len(s) - 1 : Tail(s)[i] = s[i + 1]
  OBVIOUS
<1> DEFINE t == Tail(s)
           h == Head(s)
<1> HIDE DEF t, h
<1>2. ASSUME NEW x \in Range(s), x # h PROVE x \in Range(t)
  <2>1. PICK i \in 1..Len(s) : s[i] = x
    BY DEF Range
  <2>2. i - 1 \in DOMAIN t /\ t[i - 1] = x
    BY <1>1, <1>2, <2>1 DEF t, h
  <2> QED BY <2>2 DEF Range
<1>3. ASSUME NEW x \in Range(t) PROVE x \in Range(s)
  <2>1. PICK i \in 1..Len(t) : t[i] = x
    BY <1>1 DEF Range, t
  <2>2. i + 1 \in DOMAIN s /\ s[i + 1] = x
    BY <1>1, <2>1 DEF t
  <2> QED BY <2>2 DEF Range
<1>4. h \in Range(s)
  BY <1>1 DEF h, Range
<1> QED BY <1>1, <1>2, <1>3, <1>4 DEF t, h

(* Every non-empty set of naturals has a least element. *)
LEMMA LeastOfNats ==
  ASSUME NEW I, I \subseteq Nat, I # {}
  PROVE  \E m \in I : \A y \in I : m <= y
<1> DEFINE lt == {ss \in Nat \X Nat : ss[1] < ss[2]}
<1>1. IsWellFoundedOn(lt, Nat)
  BY NatLessThanWellFounded DEF OpToRel
<1> HIDE DEF lt
<1>2. PICK m \in I : \A y \in I : ~(<<y, m>> \in lt)
  BY <1>1, WFMin
<1>3. ASSUME NEW y \in I PROVE m <= y
  <2>1. y \in Nat /\ m \in Nat
    OBVIOUS
  <2>2. ~(y < m)
    <3>1. y < m => <<y, m>> \in lt
      BY <2>1 DEF lt
    <3> QED BY <3>1, <1>2
  <2> QED BY <2>1, <2>2
<1> QED BY <1>3

(* A non-empty set of naturals contains its Min, which SelectInSeq uses. *)
LEMMA MinOfNats ==
  ASSUME NEW I, I \subseteq Nat, I # {}
  PROVE  Min(I) \in I
BY LeastOfNats DEF Min

(* Every non-empty set of indices has a greatest element. *)
LEMMA GreatestIndex ==
  ASSUME NEW n \in Nat, NEW I, I \subseteq 1..n, I # {}
  PROVE  \E i \in I : \A k \in I : i >= k
<1> DEFINE J == {n - i : i \in I}
<1>1. PICK m \in J : \A y \in J : m <= y
  <2>1. \A i \in I : n - i \in Nat
    OBVIOUS
  <2>2. J \subseteq Nat /\ J # {}
    BY <2>1
  <2> HIDE DEF J
  <2> QED BY <2>2, LeastOfNats
<1>2. PICK i \in I : m = n - i
  OBVIOUS
<1>3. \A k \in I : i >= k
  <2> SUFFICES ASSUME NEW k \in I PROVE i >= k
    OBVIOUS
  <2>1. n - k \in J
    OBVIOUS
  <2>2. m <= n - k
    BY <1>1, <2>1
  <2>3. i \in Nat /\ k \in Nat
    OBVIOUS
  <2> HIDE DEF J
  <2> QED BY <1>2, <2>2, <2>3
<1> QED BY <1>3

(* A non-empty set of indices contains its Max, which FoldLeft takes last. *)
LEMMA MaxOfIndices ==
  ASSUME NEW n \in Nat, NEW I, I \subseteq 1..n, I # {}
  PROVE  Max(I) \in I
BY GreatestIndex DEF Max

(***************************************************************************)
(* FoldLeft works on the sets of indices of its list.  Two functions on    *)
(* such sets that agree on the empty one, and on every other as soon as    *)
(* they agree on what remains without its greatest index, are the same:    *)
(* there is no smallest set on which they differ.                          *)
(***************************************************************************)
LEMMA FoldDetermined ==
  ASSUME NEW n \in Nat, NEW f, NEW g,
         f[{}] = g[{}],
         \A s \in SUBSET (1..n) :
           s # {} /\ f[s \ {Max(s)}] = g[s \ {Max(s)}] => f[s] = g[s]
  PROVE  f[1..n] = g[1..n]
<1> DEFINE Bad == {s \in SUBSET (1..n) : f[s] # g[s]}
           Sizes == {Cardinality(s) : s \in Bad}
<1>1. \A s \in SUBSET (1..n) : IsFiniteSet(s) /\ Cardinality(s) \in Nat
  <2>1. IsFiniteSet(1..n)
    BY FS_Interval
  <2> QED BY <2>1, FS_Subset, FS_CardinalityType
<1>2. SUFFICES ASSUME Bad # {} PROVE FALSE
  OBVIOUS
<1>3. PICK k \in Sizes : \A m \in Sizes : k <= m
  <2>1. Sizes \subseteq Nat /\ Sizes # {}
    BY <1>1, <1>2
  <2> HIDE DEF Sizes
  <2> QED BY <2>1, LeastOfNats
<1>4. PICK s \in Bad : k = Cardinality(s)
  OBVIOUS
<1>5. s # {}
  OBVIOUS
<1> DEFINE m == Max(s)
           t == s \ {m}
<1>6. m \in s
  BY <1>5, MaxOfIndices
<1> HIDE DEF m
<1>7. Cardinality(t) = Cardinality(s) - 1 /\ t \in SUBSET (1..n)
  BY <1>1, <1>6, FS_RemoveElement
<1>8. f[t] # g[t]
  BY <1>5 DEF m
<1>9. Cardinality(t) \in Sizes
  BY <1>7, <1>8
<1>10. Cardinality(s) <= Cardinality(s) - 1
  BY <1>3, <1>4, <1>7, <1>9
<1> QED BY <1>1, <1>10

(* A list with one element taken out: those behind it move up by one. *)
LEMMA RemoveAtElements ==
  ASSUME NEW S, NEW s \in Seq(S), NEW k \in 1..Len(s)
  PROVE  /\ RemoveAt(s, k) \in Seq(S)
         /\ Len(RemoveAt(s, k)) = Len(s) - 1
         /\ \A i \in 1..Len(s) - 1 :
              RemoveAt(s, k)[i] = IF i < k THEN s[i] ELSE s[i + 1]
<1> DEFINE r == RemoveAt(s, k)
           a == SubSeq(s, 1, k - 1)
           b == SubSeq(s, k + 1, Len(s))
<1>1. a \in Seq(S) /\ Len(a) = k - 1 /\ \A i \in 1..k-1 : a[i] = s[i]
  OBVIOUS
<1>2. b \in Seq(S) /\ Len(b) = Len(s) - k /\ \A i \in 1..Len(s)-k : b[i] = s[k + i]
  OBVIOUS
<1>3. r = a \o b
  BY DEF RemoveAt
<1> HIDE DEF a, b, r
<1>4. r \in Seq(S) /\ Len(r) = Len(s) - 1
  BY <1>1, <1>2, <1>3
<1>5. ASSUME NEW i \in 1..Len(s) - 1 PROVE r[i] = IF i < k THEN s[i] ELSE s[i + 1]
  <2>1. r[i] = IF i <= Len(a) THEN a[i] ELSE b[i - Len(a)]
    BY <1>1, <1>2, <1>3, <1>4
  <2>2. CASE i < k
    BY <1>1, <2>1, <2>2
  <2>3. CASE ~(i < k)
    <3>1. i - Len(a) \in 1..Len(s) - k /\ k + (i - Len(a)) = i + 1
      BY <1>1, <2>3
    <3> QED BY <1>1, <1>2, <2>1, <2>3, <3>1
  <2> QED BY <2>2, <2>3
<1> QED BY <1>4, <1>5 DEF r

(* LREM takes out one of the elements it looks for, if there is one. *)
LEMMA RemoveFirstElements ==
  ASSUME NEW S, NEW s \in Seq(S), NEW e, e \in Range(s)
  PROVE  \E k \in 1..Len(s) : s[k] = e /\ RemoveFirst(s, e) = RemoveAt(s, k)
<1>1. \E i \in 1..Len(s) : s[i] = e
  BY DEF Range
<1> DEFINE I == {i \in 1..Len(s) : s[i] = e}
           k == SelectInSeq(s, LAMBDA v : v = e)
<1>2. k = Min(I)
  BY <1>1 DEF SelectInSeq
<1>3. Min(I) \in I
  <2>1. I \subseteq Nat /\ I # {}
    BY <1>1
  <2> HIDE DEF I
  <2> QED BY <2>1, MinOfNats
<1>4. RemoveFirst(s, e) = RemoveAt(s, k)
  BY <1>1 DEF RemoveFirst
<1> HIDE DEF k
<1> QED BY <1>2, <1>3, <1>4

(***************************************************************************)
(* LREM kvcache:processing 1 e, as RemoveFirst models it: the list keeps   *)
(* every other element and gains none.                                     *)
(***************************************************************************)
LEMMA RemoveFirstRange ==
  ASSUME NEW S, NEW s \in Seq(S), NEW e
  PROVE  /\ RemoveFirst(s, e) \in Seq(S)
         /\ Range(RemoveFirst(s, e)) \subseteq Range(s)
         /\ Range(s) \ {e} \subseteq Range(RemoveFirst(s, e))
<1>1. CASE e \notin Range(s)
  <2>1. ~ \E i \in 1..Len(s) : s[i] = e
    BY <1>1 DEF Range
  <2> QED BY <2>1 DEF RemoveFirst
<1>2. CASE e \in Range(s)
  <2> DEFINE r == RemoveFirst(s, e)
  <2>1. PICK k \in 1..Len(s) : s[k] = e /\ r = RemoveAt(s, k)
    BY <1>2, RemoveFirstElements
  <2> HIDE DEF r
  <2>2. /\ r \in Seq(S)
        /\ Len(r) = Len(s) - 1
        /\ \A i \in 1..Len(r) : r[i] = IF i < k THEN s[i] ELSE s[i + 1]
    BY <2>1, RemoveAtElements
  <2>3. ASSUME NEW x \in Range(r) PROVE x \in Range(s)
    <3>1. PICK i \in 1..Len(r) : r[i] = x
      BY <2>2 DEF Range
    <3>2. i \in 1..Len(s) /\ i + 1 \in 1..Len(s)
      BY <2>2, <3>1
    <3>3. x = s[i] \/ x = s[i + 1]
      BY <2>2, <3>1
    <3> QED BY <3>2, <3>3 DEF Range
  <2>4. ASSUME NEW x \in Range(s), x # e PROVE x \in Range(r)
    <3>1. PICK i \in 1..Len(s) : s[i] = x
      BY DEF Range
    <3>2. CASE i < k
      <4>1. i \in 1..Len(r) /\ r[i] = x
        BY <3>1, <3>2, <2>1, <2>2
      <4> QED BY <4>1, <2>2 DEF Range
    <3>3. CASE i > k
      <4>1. i - 1 \in 1..Len(r) /\ r[i - 1] = x
        BY <3>1, <3>3, <2>1, <2>2
      <4> QED BY <4>1, <2>2 DEF Range
    <3> QED BY <3>1, <3>2, <3>3, <2>1, <2>4
  <2> QED BY <2>2, <2>3, <2>4 DEF r
<1> QED BY <1>1, <1>2

----------------------------------------------------------------------------
(* How often elements of a set occur in a list *)

Occurrences(s, S) == Cardinality({i \in DOMAIN s : s[i] \in S})

(* They are counted by a natural number. *)
LEMMA OccurrencesType ==
  ASSUME NEW T, NEW s \in Seq(T), NEW S
  PROVE  /\ IsFiniteSet({i \in DOMAIN s : s[i] \in S})
         /\ Occurrences(s, S) \in Nat
<1>1. DOMAIN s = 1..Len(s) /\ Len(s) \in Nat
  OBVIOUS
<1>2. IsFiniteSet(1..Len(s))
  BY <1>1, FS_Interval
<1>3. {i \in DOMAIN s : s[i] \in S} \subseteq 1..Len(s)
  BY <1>1
<1>4. IsFiniteSet({i \in DOMAIN s : s[i] \in S})
  BY <1>2, <1>3, FS_Subset
<1> QED BY <1>4, FS_CardinalityType DEF Occurrences

(* An element that is not in the list does not occur in it. *)
LEMMA OccursInRange ==
  ASSUME NEW T, NEW s \in Seq(T), NEW e
  PROVE  e \notin Range(s) => Occurrences(s, {e}) = 0
<1> SUFFICES ASSUME e \notin Range(s) PROVE Occurrences(s, {e}) = 0
  OBVIOUS
<1>1. {i \in DOMAIN s : s[i] \in {e}} = {}
  BY DEF Range
<1> QED BY <1>1, FS_EmptySet DEF Occurrences

(* RPUSH adds one occurrence of what it pushes. *)
LEMMA AppendOccurs ==
  ASSUME NEW T, NEW s \in Seq(T), NEW e \in T, NEW S
  PROVE  Occurrences(Append(s, e), S) =
           IF e \in S THEN Occurrences(s, S) + 1 ELSE Occurrences(s, S)
<1> DEFINE t == Append(s, e)
           A == {i \in DOMAIN s : s[i] \in S}
           B == {i \in DOMAIN t : t[i] \in S}
           n == Len(s) + 1
<1>1. /\ DOMAIN t = 1..n /\ DOMAIN s = 1..Len(s) /\ Len(s) \in Nat
      /\ \A i \in 1..Len(s) : t[i] = s[i]
      /\ t[n] = e
  OBVIOUS
<1> HIDE DEF t
<1>2. n \notin A
  BY <1>1
<1>3. IsFiniteSet(A)
  BY OccurrencesType
<1>4. CASE e \in S
  <2>1. B = A \cup {n}
    BY <1>1, <1>4
  <2>2. Cardinality(B) = Cardinality(A) + 1
    BY <1>2, <1>3, <2>1, FS_AddElement
  <2> QED BY <1>4, <2>2 DEF t, Occurrences
<1>5. CASE e \notin S
  <2>1. B = A
    BY <1>1, <1>5
  <2> QED BY <1>5, <2>1 DEF t, Occurrences
<1> QED BY <1>4, <1>5

(* The list r is s without its k-th element. *)
Without(r, s, k) ==
  /\ Len(r) = Len(s) - 1
  /\ \A i \in 1..Len(s) - 1 : r[i] = IF i < k THEN s[i] ELSE s[i + 1]

(* Such a list has one occurrence less, if that element was counted, and as *)
(* many otherwise.                                                          *)
LEMMA ShiftOccurs ==
  ASSUME NEW T, NEW s \in Seq(T), NEW r \in Seq(T), NEW k \in 1..Len(s),
         Without(r, s, k), NEW S
  PROVE  /\ s[k] \in S => Occurrences(r, S) = Occurrences(s, S) - 1
         /\ s[k] \notin S => Occurrences(r, S) = Occurrences(s, S)
<1> DEFINE A == {i \in DOMAIN s : s[i] \in S}
           B == {i \in DOMAIN r : r[i] \in S}
           C == A \ {k}
           up == [i \in B |-> IF i < k THEN i ELSE i + 1]
<1>1. /\ DOMAIN s = 1..Len(s) /\ DOMAIN r = 1..Len(s) - 1 /\ Len(s) \in Nat /\ k \in Nat
      /\ \A i \in 1..Len(s) - 1 : r[i] = IF i < k THEN s[i] ELSE s[i + 1]
  BY DEF Without
<1>2. B \subseteq Nat
  BY <1>1
<1>3. \A i \in B : up[i] \in C
  BY <1>1
<1>4. \A x, y \in B : up[x] = up[y] => x = y
  BY <1>2, <1>1
<1>5. \A c \in C : \E i \in B : up[i] = c
  <2> SUFFICES ASSUME NEW c \in C PROVE \E i \in B : up[i] = c
    OBVIOUS
  <2>1. c \in 1..Len(s) /\ s[c] \in S /\ c # k
    BY <1>1
  <2>2. CASE c < k
    <3>1. c \in 1..Len(s) - 1 /\ r[c] = s[c]
      BY <1>1, <2>1, <2>2
    <3>2. c \in B
      BY <1>1, <2>1, <3>1
    <3> QED BY <2>2, <3>2
  <2>3. CASE c > k
    <3>1. c - 1 \in 1..Len(s) - 1 /\ ~(c - 1 < k) /\ (c - 1) + 1 = c
      BY <1>1, <2>1, <2>3
    <3>2. r[c - 1] = s[c]
      BY <1>1, <3>1
    <3>3. c - 1 \in B
      BY <1>1, <2>1, <3>1, <3>2
    <3> QED BY <3>1, <3>3
  <2>4. c < k \/ c > k
    BY <1>1, <2>1
  <2> QED BY <2>2, <2>3, <2>4
<1>6. ExistsBijection(B, C)
  <2>1. up \in [B -> C]
    BY <1>3
  <2> HIDE DEF A, B, C, up
  <2>2. up \in Bijection(B, C)
    BY <1>4, <1>5, <2>1, Fun_IsBij
  <2> QED BY <2>2, Fun_ExistsBij
<1>7. IsFiniteSet(A) /\ IsFiniteSet(B)
  BY OccurrencesType
<1> HIDE DEF A, B, up
<1>8. Cardinality(C) = Cardinality(B)
  BY <1>6, <1>7, FS_Bijection
<1>9. Cardinality(C) = IF k \in A THEN Cardinality(A) - 1 ELSE Cardinality(A)
  BY <1>7, FS_RemoveElement
<1>10. k \in A <=> s[k] \in S
  BY <1>1 DEF A
<1> QED BY <1>8, <1>9, <1>10 DEF A, B, Occurrences

(* BLMOVE takes one occurrence of the head away. *)
LEMMA TailOccurs ==
  ASSUME NEW T, NEW s \in Seq(T), s # <<>>, NEW S
  PROVE  Occurrences(Tail(s), S) =
           IF Head(s) \in S THEN Occurrences(s, S) - 1 ELSE Occurrences(s, S)
<1>1. /\ Tail(s) \in Seq(T) /\ Head(s) = s[1] /\ 1 \in 1..Len(s)
      /\ Len(Tail(s)) = Len(s) - 1
      /\ \A i \in 1..Len(s) - 1 : Tail(s)[i] = s[i + 1] /\ ~(i < 1)
  OBVIOUS
<1>2. Without(Tail(s), s, 1)
  BY <1>1 DEF Without
<1>3. PICK u \in Seq(T), k \in 1..Len(s) :
        u = Tail(s) /\ s[k] = Head(s) /\ Without(u, s, k)
  BY <1>1, <1>2
<1>4. /\ s[k] \in S => Occurrences(u, S) = Occurrences(s, S) - 1
      /\ s[k] \notin S => Occurrences(u, S) = Occurrences(s, S)
  BY <1>3, ShiftOccurs
<1> QED BY <1>3, <1>4

(* LREM takes one occurrence of its argument away, if there is one.         *)
LEMMA RemoveFirstOccurs ==
  ASSUME NEW T, NEW s \in Seq(T), NEW e, NEW S
  PROVE  Occurrences(RemoveFirst(s, e), S) =
           IF e \in Range(s) /\ e \in S THEN Occurrences(s, S) - 1
           ELSE Occurrences(s, S)
<1>1. CASE e \notin Range(s)
  <2>1. ~ \E i \in 1..Len(s) : s[i] = e
    BY <1>1 DEF Range
  <2> QED BY <1>1, <2>1 DEF RemoveFirst
<1>2. CASE e \in Range(s)
  <2>1. PICK k \in 1..Len(s) : s[k] = e /\ RemoveFirst(s, e) = RemoveAt(s, k)
    BY <1>2, RemoveFirstElements
  <2> DEFINE r == RemoveAt(s, k)
  <2>2. r \in Seq(T) /\ Without(r, s, k)
    BY RemoveAtElements DEF Without
  <2> HIDE DEF r
  <2>3. /\ s[k] \in S => Occurrences(r, S) = Occurrences(s, S) - 1
        /\ s[k] \notin S => Occurrences(r, S) = Occurrences(s, S)
    BY <2>2, ShiftOccurs
  <2> QED BY <1>2, <2>1, <2>3 DEF r
<1> QED BY <1>1, <1>2

============================================================================
