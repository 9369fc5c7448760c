----------------------------- MODULE SharedFacts -----------------------------
(***************************************************************************)
(* Lemmas that the proofs of several modules cite: about sequences, about  *)
(* natural numbers and finite sets, and about what normalization does to   *)
(* an event.                                                               *)
(***************************************************************************)
EXTENDS EventNormalization, Counters, Sequences, Functions, SequenceTheorems, FiniteSetTheorems,
        WellFoundedInduction, TLAPS

(***************************************************************************)
(* Sequences: what appending to one and taking its head do to its          *)
(* elements.                                                               *)
(***************************************************************************)
LEMMA RangeAppend ==
    ASSUME NEW S, NEW s \in Seq(S), NEW x \in S
    PROVE  Range(Append(s, x)) = Range(s) \cup {x}
BY AppendProperties DEF Range

LEMMA RangeTail ==
    ASSUME NEW S, NEW s \in Seq(S), s # <<>>
    PROVE  Head(s) \in Range(s) /\ Range(Tail(s)) \subseteq Range(s)
BY HeadTailProperties DEF Range

LEMMA RangeHeadTail ==
    ASSUME NEW S, NEW s \in Seq(S), s # <<>>
    PROVE  Range(s) = {Head(s)} \cup Range(Tail(s))
<1>1. ASSUME NEW k \in DOMAIN s PROVE s[k] \in {Head(s)} \cup Range(Tail(s))
  <2>1. k \in 1 .. Len(s) /\ Len(s) \in Nat  OBVIOUS
  <2>2. CASE k = 1  BY <2>2
  <2>3. CASE k # 1
    <3>1. k - 1 \in 1 .. Len(Tail(s)) /\ Tail(s)[k - 1] = s[k]
      BY <2>1, <2>3, HeadTailProperties
    <3>2. DOMAIN Tail(s) = 1 .. Len(Tail(s))  BY HeadTailProperties
    <3>3. QED  BY <3>1, <3>2 DEF Range
  <2>4. QED  BY <2>2, <2>3
<1>2. Range(s) \subseteq {Head(s)} \cup Range(Tail(s))  BY <1>1 DEF Range
<1>3. QED  BY <1>2, RangeTail

(* Moving the head of one sequence to the end of another keeps their elements. *)
LEMMA RangeMove ==
    ASSUME NEW S, NEW s \in Seq(S), NEW t \in Seq(S), t # <<>>
    PROVE  Range(Append(s, Head(t)) \o Tail(t)) = Range(s \o t)
<1>1. Head(t) \in S /\ Tail(t) \in Seq(S)  BY HeadTailProperties
<1>2. Append(s, Head(t)) \in Seq(S)  BY <1>1
<1>3. Range(Append(s, Head(t)) \o Tail(t)) = Range(Append(s, Head(t))) \cup Range(Tail(t))
  <2> DEFINE u == Append(s, Head(t))
             v == Tail(t)
  <2>1. u \in Seq(S) /\ v \in Seq(S)  BY <1>1, <1>2
  <2> HIDE DEF u, v
  <2>2. Range(u \o v) = Range(u) \cup Range(v)  BY <2>1, RangeConcatenation
  <2>3. QED  BY <2>2 DEF u, v
<1>4. Range(Append(s, Head(t))) = Range(s) \cup {Head(t)}  BY <1>1, RangeAppend
<1>5. Range(s \o t) = Range(s) \cup Range(t)  BY RangeConcatenation
<1>6. Range(t) = {Head(t)} \cup Range(Tail(t))  BY RangeHeadTail
<1>7. QED  BY <1>3, <1>4, <1>5, <1>6

(* Replacing the head of a sequence leaves the others. *)
LEMMA HeadReplaced ==
    ASSUME NEW S, NEW s \in Seq(S), s # <<>>, NEW x, NEW r, r = [s EXCEPT ![1] = x]
    PROVE  /\ r \in Seq(S \cup {x}) /\ DOMAIN r = DOMAIN s /\ Len(r) = Len(s)
           /\ r[1] = x /\ Head(r) = x
           /\ \A k \in DOMAIN s \ {1} : r[k] = s[k]
<1>1. /\ DOMAIN s = 1 .. Len(s) /\ Len(s) \in Nat /\ Len(s) >= 1
      /\ DOMAIN r = DOMAIN s /\ r[1] = x /\ \A k \in DOMAIN s \ {1} : r[k] = s[k]
  OBVIOUS
<1>2. \A k \in 1 .. Len(s) : r[k] \in S \cup {x}
  BY <1>1
<1>3. r = [k \in 1 .. Len(s) |-> r[k]]
  BY <1>1
<1>4. r \in Seq(S \cup {x}) /\ Len(r) = Len(s)
  BY <1>1, <1>2, <1>3
<1> QED BY <1>1, <1>4
-----------------------------------------------------------------------------
(***************************************************************************)
(* Induction: a set of numbers has a least one, a set of finite sets one   *)
(* that none of the others is part of.  What is not true of every number,  *)
(* or of every finite set, is not true of such a one.                      *)
(***************************************************************************)
LEMMA LeastNat ==
    ASSUME NEW T \in SUBSET Nat, T # {}
    PROVE  \E m \in T : \A k \in T : m <= k
<1>1. PICK m \in T : \A k \in T : ~ (<<k, m>> \in OpToRel(<, Nat))
  BY WFMin, NatLessThanWellFounded
<1>2. ASSUME NEW k \in T PROVE m <= k
  <2>1. ~ (<<k, m>> \in OpToRel(<, Nat))
    BY <1>1
  <2>2. m \in Nat /\ k \in Nat
    OBVIOUS
  <2> QED BY <2>1, <2>2 DEF OpToRel
<1> QED BY <1>2

LEMMA SmallestSet ==
    ASSUME NEW S, IsFiniteSet(S), NEW P \in SUBSET (SUBSET S), P # {}
    PROVE  \E T \in P : IsFiniteSet(T) /\ \A U \in P : U \subseteq T => U = T
<1>1. \A T \in P : IsFiniteSet(T) /\ T \in FiniteSubsetsOf(S)
  BY FS_Subset DEF FiniteSubsetsOf
<1>2. PICK T \in P : \A U \in P : ~ (<<U, T>> \in StrictSubsetOrdering(S))
  BY <1>1, WFMin, FS_StrictSubsetOrderingWellFounded
<1>3. ASSUME NEW U \in P, U \subseteq T PROVE U = T
  BY <1>1, <1>2, <1>3 DEF StrictSubsetOrdering, FiniteSubsetsOf
<1> QED BY <1>1, <1>3

(***************************************************************************)
(* Folds: what MapThenFoldSet computes over a finite set, taking away one  *)
(* element after the other as c chooses it, exists.                        *)
(***************************************************************************)
Chooses(c, S) == \A s \in SUBSET S : s # {} => c[s] \in s

IsFold(h, S, V, base, G, c) ==
    /\ h \in [SUBSET S -> V]
    /\ \A s \in SUBSET S : h[s] = IF s = {} THEN base ELSE G[<<c[s], h[s \ {c[s]}]>>]

LEMMA FoldExists ==
    ASSUME NEW S, IsFiniteSet(S), NEW V, NEW base \in V, NEW G \in [S \X V -> V],
           NEW c, Chooses(c, S)
    PROVE  \E h : IsFold(h, S, V, base, G, c)
<1> DEFINE Part(n) == {s \in SUBSET S : Cardinality(s) <= n}
           Upto(h, n) == /\ h \in [Part(n) -> V]
                         /\ \A s \in Part(n) :
                               h[s] = IF s = {} THEN base ELSE G[<<c[s], h[s \ {c[s]}]>>]
           Bad == {n \in Nat : ~ \E h : Upto(h, n)}
<1>0. \A s \in SUBSET S : IsFiniteSet(s) /\ Cardinality(s) \in Nat /\ Cardinality(s) <= Cardinality(S)
  BY FS_Subset, FS_CardinalityType
<1>1. 0 \notin Bad
  <2>1. \A s \in Part(0) : s = {}
    BY <1>0, FS_EmptySet
  <2> DEFINE h == [s \in Part(0) |-> base]
  <2>2. Upto(h, 0)
    BY <2>1
  <2> QED BY <2>2
<1>2. ASSUME NEW n \in Nat, n \notin Bad PROVE n + 1 \notin Bad
  <2>1. PICK h : Upto(h, n)
    BY <1>2
  <2> DEFINE k == [s \in Part(n + 1) |-> IF s = {} THEN base ELSE G[<<c[s], h[s \ {c[s]}]>>]]
  <2>2. ASSUME NEW s \in Part(n + 1), s # {}
        PROVE  /\ c[s] \in S /\ s \ {c[s]} \in Part(n) /\ s \ {c[s]} \in Part(n + 1)
               /\ h[s \ {c[s]}] \in V
    <3>1. c[s] \in s
      BY <2>2 DEF Chooses
    <3>2. IsFiniteSet(s) /\ Cardinality(s) \in Nat /\ Cardinality(s \ {c[s]}) = Cardinality(s) - 1
      BY <1>0, <3>1, FS_RemoveElement
    <3>3. c[s] \in S /\ s \ {c[s]} \in Part(n) /\ s \ {c[s]} \in Part(n + 1)
      BY <3>1, <3>2
    <3> QED BY <2>1, <3>3
  <2>3. ASSUME NEW s \in Part(n) PROVE s \in Part(n + 1) /\ k[s] = h[s]
    <3>1. s \in Part(n + 1)
      BY <1>0
    <3>2. h[s] = IF s = {} THEN base ELSE G[<<c[s], h[s \ {c[s]}]>>]
      BY <2>1
    <3> QED BY <3>1, <3>2
  <2>4. ASSUME NEW s \in Part(n + 1)
        PROVE  k[s] = IF s = {} THEN base ELSE G[<<c[s], k[s \ {c[s]}]>>]
    BY <2>2, <2>3
  <2>5. ASSUME NEW s \in Part(n + 1) PROVE k[s] \in V
    <3>1. CASE s = {}
      BY <3>1
    <3>2. CASE s # {}
      <4>1. k[s] = G[<<c[s], h[s \ {c[s]}]>>]
        BY <3>2
      <4>2. <<c[s], h[s \ {c[s]}]>> \in S \X V
        BY <2>2, <3>2
      <4> QED BY <4>1, <4>2
    <3> QED BY <3>1, <3>2
  <2>6. k = [s \in Part(n + 1) |-> k[s]]
    OBVIOUS
  <2> HIDE DEF k, Part
  <2>7. Upto(k, n + 1)
    BY <2>4, <2>5, <2>6
  <2> QED BY <2>7
<1>3. Bad = {}
  <2> SUFFICES ASSUME Bad # {} PROVE FALSE
    OBVIOUS
  <2>1. PICK m \in Bad : \A k \in Bad : m <= k
    BY LeastNat
  <2>2. m \in Nat /\ m # 0
    BY <1>1
  <2>3. m - 1 \in Nat /\ m - 1 \notin Bad
    <3> HIDE DEF Bad
    <3> QED BY <2>1, <2>2
  <2> HIDE DEF Bad
  <2>4. (m - 1) + 1 \notin Bad
    BY <1>2, <2>3
  <2> QED BY <2>2, <2>4
<1>4. Cardinality(S) \in Nat
  BY FS_CardinalityType
<1>5. PICK h : Upto(h, Cardinality(S))
  BY <1>3, <1>4
<1>6. Part(Cardinality(S)) = SUBSET S
  BY <1>0
<1> HIDE DEF Part
<1> QED BY <1>5, <1>6 DEF IsFold

(***************************************************************************)
(* Sums: h maps each part of S to the sum of g over it, as MapThenSumSet   *)
(* computes it.                                                            *)
(***************************************************************************)
Some(s) == CHOOSE x \in s : TRUE

SumsOf(h, g, S) ==
    h = [s \in SUBSET S |-> IF s = {} THEN 0 ELSE g[Some(s)] + h[s \ {Some(s)}]]

(* There are such sums for every finite set. *)
LEMMA SumsExist ==
    ASSUME NEW g, NEW S, IsFiniteSet(S), \A x \in S : g[x] \in Nat
    PROVE  \E h : SumsOf(h, g, S)
<1> DEFINE c == [s \in SUBSET S |-> Some(s)]
           G == [p \in S \X Nat |-> g[p[1]] + p[2]]
<1>1. \A s \in SUBSET S : s # {} => c[s] = Some(s) /\ c[s] \in s
  BY DEF Some
<1>2. G \in [S \X Nat -> Nat] /\ \A x \in S, n \in Nat : G[<<x, n>>] = g[x] + n
  OBVIOUS
<1> HIDE DEF c, G
<1>3. PICK h : IsFold(h, S, Nat, 0, G, c)
  BY <1>1, <1>2, FoldExists DEF Chooses
<1>4. ASSUME NEW s \in SUBSET S
      PROVE  h[s] = IF s = {} THEN 0 ELSE g[Some(s)] + h[s \ {Some(s)}]
  <2>1. CASE s = {}
    BY <1>3, <2>1 DEF IsFold
  <2>2. CASE s # {}
    <3>1. h[s] = G[<<c[s], h[s \ {c[s]}]>>] /\ c[s] = Some(s) /\ c[s] \in S
      BY <1>1, <1>3, <2>2 DEF IsFold
    <3>2. h[s \ {c[s]}] \in Nat
      BY <1>3 DEF IsFold
    <3> QED BY <1>2, <2>2, <3>1, <3>2
  <2> QED BY <2>1, <2>2
<1>5. h = [s \in SUBSET S |-> h[s]]
  BY <1>3 DEF IsFold
<1> QED BY <1>4, <1>5 DEF SumsOf

(* The order in which the elements are added does not matter. *)
LEMMA SumTakesAny ==
    ASSUME NEW h, NEW g, NEW S, IsFiniteSet(S), SumsOf(h, g, S), \A x \in S : g[x] \in Nat,
           NEW s \in SUBSET S
    PROVE  h[s] \in Nat /\ \A x \in s : h[s] = g[x] + h[s \ {x}]
<1> DEFINE Good(t) == h[t] \in Nat /\ \A x \in t : h[t] = g[x] + h[t \ {x}]
           Bad == {t \in SUBSET S : ~Good(t)}
<1>0. ASSUME NEW t \in SUBSET S
      PROVE  h[t] = IF t = {} THEN 0 ELSE g[Some(t)] + h[t \ {Some(t)}]
  BY DEF SumsOf
<1> SUFFICES Bad = {}
  OBVIOUS
<1> SUFFICES ASSUME Bad # {} PROVE FALSE
  OBVIOUS
<1>1. PICK t \in Bad : \A u \in Bad : u \subseteq t => u = t
  <2>1. Bad \in SUBSET SUBSET S
    OBVIOUS
  <2> HIDE DEF Bad
  <2> QED BY <2>1, SmallestSet
<1>2. ASSUME NEW x \in t PROVE Good(t \ {x}) /\ t \ {x} \in SUBSET S
  <2>1. t \ {x} \in SUBSET S /\ t \ {x} # t /\ t \ {x} \subseteq t
    OBVIOUS
  <2>2. t \ {x} \notin Bad
    <3> HIDE DEF Bad
    <3> QED BY <1>1, <2>1
  <2> QED BY <2>1, <2>2
<1>3. t # {}
  <2>1. t \in SUBSET S /\ ~Good(t)
    OBVIOUS
  <2>2. t = {} => h[t] = 0
    BY <1>0, <2>1
  <2>3. t = {} => Good(t)
    BY <2>2
  <2> QED BY <2>1, <2>3
<1> DEFINE p == Some(t)
<1>4. p \in t /\ h[t] = g[p] + h[t \ {p}]
  BY <1>0, <1>3 DEF Some
<1> HIDE DEF p
<1>5. h[t] \in Nat
  BY <1>2, <1>4
<1>6. ASSUME NEW x \in t PROVE h[t] = g[x] + h[t \ {x}]
  <2>1. CASE x = p
    BY <1>4, <2>1
  <2>2. CASE x # p
    <3>1. h[t \ {p}] = g[x] + h[(t \ {p}) \ {x}]
      BY <1>2, <1>4, <2>2
    <3>2. h[t \ {x}] = g[p] + h[(t \ {x}) \ {p}]
      BY <1>2, <1>4, <2>2
    <3>3. (t \ {p}) \ {x} = (t \ {x}) \ {p}
      OBVIOUS
    <3>4. Good((t \ {x}) \ {p})
      <4>1. (t \ {x}) \ {p} \in SUBSET S /\ (t \ {x}) \ {p} # t /\ (t \ {x}) \ {p} \subseteq t
        OBVIOUS
      <4>2. (t \ {x}) \ {p} \notin Bad
        <5> HIDE DEF Bad
        <5> QED BY <1>1, <4>1
      <4> QED BY <4>1, <4>2
    <3>5. g[x] \in Nat /\ g[p] \in Nat /\ h[(t \ {x}) \ {p}] \in Nat
      BY <1>4, <3>4
    <3> DEFINE c == h[(t \ {x}) \ {p}]
    <3>6. h[t \ {p}] = g[x] + c
      BY <3>1, <3>3
    <3>7. h[t \ {x}] = g[p] + c
      BY <3>2
    <3>8. c \in Nat
      BY <3>5
    <3>9. ASSUME NEW i \in Nat, NEW j \in Nat, NEW n \in Nat PROVE i + (j + n) = j + (i + n)
      OBVIOUS
    <3> HIDE DEF c
    <3>10. g[p] + (g[x] + c) = g[x] + (g[p] + c)
      <4> HIDE DEF Bad
      <4> QED BY <3>5, <3>8, <3>9, Zenon
    <3>11. h[t] = g[p] + (g[x] + c)
      BY <1>4, <3>6, Zenon
    <3>12. g[x] + h[t \ {x}] = g[x] + (g[p] + c)
      BY <3>7, Zenon
    <3> QED BY <3>10, <3>11, <3>12, Zenon
  <2> QED BY <2>1, <2>2
<1> QED BY <1>5, <1>6

(* Sums of functions that agree on a set agree on it. *)
LEMMA SumsAgree ==
    ASSUME NEW h, NEW g, NEW S, SumsOf(h, g, S), NEW k, NEW f, NEW T, SumsOf(k, f, T),
           NEW s, IsFiniteSet(s), s \subseteq S, s \subseteq T, \A x \in s : g[x] = f[x]
    PROVE  h[s] = k[s]
<1> DEFINE Bad == {t \in SUBSET s : h[t] # k[t]}
<1> SUFFICES ASSUME Bad # {} PROVE FALSE
  OBVIOUS
<1>1. PICK t \in Bad : \A u \in Bad : u \subseteq t => u = t
  <2>1. Bad \in SUBSET SUBSET s
    OBVIOUS
  <2> HIDE DEF Bad
  <2> QED BY <2>1, SmallestSet
<1>2. /\ h[t] = IF t = {} THEN 0 ELSE g[Some(t)] + h[t \ {Some(t)}]
      /\ k[t] = IF t = {} THEN 0 ELSE f[Some(t)] + k[t \ {Some(t)}]
  BY DEF SumsOf
<1>3. t # {}
  BY <1>2
<1>4. Some(t) \in t /\ t \in SUBSET s
  BY <1>3 DEF Some
<1>5. t \ {Some(t)} \notin Bad
  <2> HIDE DEF Bad
  <2> QED BY <1>1, <1>4
<1> QED BY <1>2, <1>3, <1>4, <1>5

(***************************************************************************)
(* Sums of a function over a finite set.                                   *)
(***************************************************************************)
SumOf(g, S) == MapThenSumSet(LAMBDA x : g[x], S)

LEMMA SumIsOneOf ==
    ASSUME NEW g, NEW S, IsFiniteSet(S), \A x \in S : g[x] \in Nat
    PROVE  \E h : SumsOf(h, g, S) /\ SumOf(g, S) = h[S]
<1> DEFINE sums == CHOOSE h : SumsOf(h, g, S)
<1>1. SumOf(g, S) = sums[S]
  BY DEF SumOf, MapThenSumSet, MapThenFoldSet, SumsOf, Some
<1>2. SumsOf(sums, g, S)
  BY SumsExist, Zenon
<1> QED BY <1>1, <1>2

LEMMA SumOfNone == ASSUME NEW g PROVE SumOf(g, {}) = 0
<1>1. IsFiniteSet({})
  BY FS_EmptySet
<1>2. PICK h : SumsOf(h, g, {}) /\ SumOf(g, {}) = h[{}]
  BY <1>1, SumIsOneOf
<1> QED BY <1>2 DEF SumsOf

(* Functions that agree have the same sum. *)
LEMMA SumsEqual ==
    ASSUME NEW g, NEW f, NEW S, IsFiniteSet(S), \A x \in S : g[x] \in Nat /\ g[x] = f[x]
    PROVE  SumOf(g, S) = SumOf(f, S)
<1>1. PICK h : SumsOf(h, g, S) /\ SumOf(g, S) = h[S]
  BY SumIsOneOf
<1>2. PICK j : SumsOf(j, f, S) /\ SumOf(f, S) = j[S]
  BY SumIsOneOf
<1>3. h[S] = j[S]
  BY <1>1, <1>2, SumsAgree
<1> QED BY <1>1, <1>2, <1>3

LEMMA SumTakes ==
    ASSUME NEW g, NEW S, IsFiniteSet(S), \A x \in S : g[x] \in Nat
    PROVE  SumOf(g, S) \in Nat /\ \A x \in S : SumOf(g, S) = g[x] + SumOf(g, S \ {x})
<1>1. PICK h : SumsOf(h, g, S) /\ SumOf(g, S) = h[S]
  BY SumIsOneOf
<1>2. h[S] \in Nat /\ \A x \in S : h[S] = g[x] + h[S \ {x}]
  BY <1>1, SumTakesAny
<1>3. ASSUME NEW x \in S PROVE h[S \ {x}] = SumOf(g, S \ {x})
  <2> DEFINE s == S \ {x}
  <2>1. IsFiniteSet(s) /\ s \subseteq S /\ \A y \in s : g[y] \in Nat
    BY FS_Subset
  <2> HIDE DEF s
  <2>2. PICK j : SumsOf(j, g, s) /\ SumOf(g, s) = j[s]
    BY <2>1, SumIsOneOf
  <2>3. h[s] = j[s]
    BY <1>1, <2>1, <2>2, SumsAgree
  <2> QED BY <2>2, <2>3 DEF s
<1> QED BY <1>1, <1>2, <1>3

LEMMA SumAdds ==
    ASSUME NEW g, NEW S, IsFiniteSet(S), NEW x, x \notin S, \A y \in S \cup {x} : g[y] \in Nat
    PROVE  SumOf(g, S \cup {x}) = g[x] + SumOf(g, S) /\ SumOf(g, S) \in Nat
<1> DEFINE T == S \cup {x}
<1>1. IsFiniteSet(T) /\ x \in T /\ T \ {x} = S /\ \A y \in T : g[y] \in Nat
  BY FS_AddElement
<1> HIDE DEF T
<1>2. SumOf(g, T) = g[x] + SumOf(g, T \ {x})
  BY <1>1, SumTakes
<1> QED BY <1>1, <1>2, SumTakes DEF T

(* What holds of the empty set, and of each set with one more element, holds of all. *)
LEMMA FiniteInduction ==
    ASSUME NEW S, IsFiniteSet(S), NEW P, {} \in P,
           \A T \in SUBSET S, x \in S : T \in P /\ x \notin T => T \cup {x} \in P
    PROVE  S \in P
<1> DEFINE Bad == {T \in SUBSET S : T \notin P}
<1> SUFFICES ASSUME Bad # {} PROVE FALSE
  OBVIOUS
<1>1. PICK T \in Bad : \A U \in Bad : U \subseteq T => U = T
  <2>1. Bad \in SUBSET SUBSET S
    OBVIOUS
  <2> HIDE DEF Bad
  <2> QED BY <2>1, SmallestSet
<1>2. T # {}
  OBVIOUS
<1>3. PICK x \in T : TRUE
  BY <1>2
<1>4. T \ {x} \in SUBSET S /\ x \in S /\ (T \ {x}) \cup {x} = T /\ T \ {x} # T
  BY <1>3
<1>5. T \ {x} \in P
  BY <1>1, <1>4
<1>6. T \in P
  BY <1>4, <1>5
<1> QED BY <1>6

(* The sum over two sets that have nothing in common. *)
LEMMA SumOfBoth ==
    ASSUME NEW g, NEW A, IsFiniteSet(A), NEW B, IsFiniteSet(B), A \cap B = {},
           \A x \in A \cup B : g[x] \in Nat
    PROVE  SumOf(g, A \cup B) = SumOf(g, A) + SumOf(g, B)
<1> DEFINE P == {T \in SUBSET B : SumOf(g, A \cup T) = SumOf(g, A) + SumOf(g, T)}
<1>1. {} \in P
  <2>1. A \cup {} = A /\ SumOf(g, A) \in Nat /\ SumOf(g, {}) = 0
    BY SumTakes, SumOfNone
  <2> QED BY <2>1
<1>2. ASSUME NEW T \in SUBSET B, NEW x \in B, T \in P, x \notin T PROVE T \cup {x} \in P
  <2>1. IsFiniteSet(T) /\ IsFiniteSet(A \cup T) /\ x \notin A \cup T
        /\ A \cup (T \cup {x}) = (A \cup T) \cup {x} /\ T \cup {x} \in SUBSET B
    BY <1>2, FS_Subset, FS_Union
  <2>2. SumOf(g, (A \cup T) \cup {x}) = g[x] + SumOf(g, A \cup T)
    BY <2>1, SumAdds
  <2>3. SumOf(g, T \cup {x}) = g[x] + SumOf(g, T) /\ SumOf(g, T) \in Nat
    BY <1>2, <2>1, SumAdds
  <2>4. SumOf(g, A) \in Nat /\ g[x] \in Nat
    BY SumTakes
  <2>5. SumOf(g, A \cup T) = SumOf(g, A) + SumOf(g, T)
    BY <1>2
  <2> QED BY <2>1, <2>2, <2>3, <2>4, <2>5
<1>3. B \in P
  <2> HIDE DEF P
  <2> QED BY <1>1, <1>2, FiniteInduction
<1> QED BY <1>3

(* Counting the elements is adding ones. *)
LEMMA SumOfOnes ==
    ASSUME NEW g, NEW S, IsFiniteSet(S), \A x \in S : g[x] = 1
    PROVE  SumOf(g, S) = Cardinality(S)
<1> DEFINE P == {T \in SUBSET S : SumOf(g, T) = Cardinality(T)}
<1>1. {} \in P
  BY SumOfNone, FS_EmptySet
<1>2. ASSUME NEW T \in SUBSET S, NEW x \in S, T \in P, x \notin T PROVE T \cup {x} \in P
  <2>1. IsFiniteSet(T) /\ \A y \in T \cup {x} : g[y] \in Nat
    BY FS_Subset
  <2>2. SumOf(g, T \cup {x}) = g[x] + SumOf(g, T) /\ SumOf(g, T) \in Nat
    BY <1>2, <2>1, SumAdds
  <2>3. Cardinality(T \cup {x}) = Cardinality(T) + 1
    BY <1>2, <2>1, FS_AddElement
  <2>4. SumOf(g, T) = Cardinality(T)
    BY <1>2
  <2> QED BY <2>2, <2>3, <2>4
<1>3. S \in P
  <2> HIDE DEF P
  <2> QED BY <1>1, <1>2, FiniteInduction
<1> QED BY <1>3

LEMMA SumOfZeros ==
    ASSUME NEW g, NEW S, IsFiniteSet(S), \A x \in S : g[x] = 0
    PROVE  SumOf(g, S) = 0
<1> DEFINE P == {T \in SUBSET S : SumOf(g, T) = 0}
<1>1. {} \in P
  BY SumOfNone
<1>2. ASSUME NEW T \in SUBSET S, NEW x \in S, T \in P, x \notin T PROVE T \cup {x} \in P
  <2>1. IsFiniteSet(T) /\ \A y \in T \cup {x} : g[y] \in Nat
    BY FS_Subset
  <2> QED BY <1>2, <2>1, SumAdds
<1>3. S \in P
  <2> HIDE DEF P
  <2> QED BY <1>1, <1>2, FiniteInduction
<1> QED BY <1>3

(* Adding two functions adds their sums. *)
LEMMA SumOfSums ==
    ASSUME NEW f, NEW g, NEW k, NEW S, IsFiniteSet(S),
           \A x \in S : f[x] \in Nat /\ g[x] \in Nat /\ k[x] = f[x] + g[x]
    PROVE  SumOf(k, S) = SumOf(f, S) + SumOf(g, S)
<1> DEFINE P == {T \in SUBSET S : SumOf(k, T) = SumOf(f, T) + SumOf(g, T)}
<1>1. {} \in P
  BY SumOfNone
<1>2. ASSUME NEW T \in SUBSET S, NEW x \in S, T \in P, x \notin T PROVE T \cup {x} \in P
  <2>1. IsFiniteSet(T) /\ \A y \in T \cup {x} : f[y] \in Nat /\ g[y] \in Nat /\ k[y] \in Nat
    BY FS_Subset
  <2>2. SumOf(f, T \cup {x}) = f[x] + SumOf(f, T) /\ SumOf(f, T) \in Nat
    BY <1>2, <2>1, SumAdds
  <2>3. SumOf(g, T \cup {x}) = g[x] + SumOf(g, T) /\ SumOf(g, T) \in Nat
    BY <1>2, <2>1, SumAdds
  <2>4. SumOf(k, T \cup {x}) = k[x] + SumOf(k, T) /\ SumOf(k, T) \in Nat
    BY <1>2, <2>1, SumAdds
  <2>5. SumOf(k, T) = SumOf(f, T) + SumOf(g, T) /\ k[x] = f[x] + g[x] /\ f[x] \in Nat /\ g[x] \in Nat
    BY <1>2
  <2>6. T \cup {x} \in SUBSET S
    OBVIOUS
  <2>7. SumOf(k, T \cup {x}) = SumOf(f, T \cup {x}) + SumOf(g, T \cup {x})
    BY ONLY <2>2, <2>3, <2>4, <2>5
  <2> QED BY <2>6, <2>7
<1>3. S \in P
  <2> HIDE DEF P
  <2> QED BY <1>1, <1>2, FiniteInduction
<1> QED BY <1>3

(* The sum over some sets that have nothing in common, one after the other. *)
LEMMA SumOfParts ==
    ASSUME NEW g, NEW I, IsFiniteSet(I), NEW part,
           \A i \in I : IsFiniteSet(part[i]) /\ \A x \in part[i] : g[x] \in Nat,
           \A i, j \in I : i # j => part[i] \cap part[j] = {},
           NEW s, \A i \in I : s[i] = SumOf(g, part[i])
    PROVE  SumOf(s, I) = SumOf(g, UNION {part[i] : i \in I})
<1> DEFINE All(T) == UNION {part[i] : i \in T}
           P == {T \in SUBSET I : IsFiniteSet(All(T)) /\ SumOf(s, T) = SumOf(g, All(T))}
<1>1. {} \in P
  <2>1. All({}) = {}
    OBVIOUS
  <2> QED BY <2>1, SumOfNone, FS_EmptySet
<1>2. ASSUME NEW T \in SUBSET I, NEW x \in I, T \in P, x \notin T PROVE T \cup {x} \in P
  <2>1. /\ IsFiniteSet(T) /\ All(T \cup {x}) = All(T) \cup part[x] /\ All(T) \cap part[x] = {}
        /\ IsFiniteSet(All(T)) /\ IsFiniteSet(part[x])
        /\ \A y \in All(T) \cup part[x] : g[y] \in Nat
    BY <1>2, FS_Subset
  <2>2. \A i \in T \cup {x} : s[i] \in Nat
    BY <1>2, SumTakes
  <2> HIDE DEF All
  <2>3. SumOf(g, All(T) \cup part[x]) = SumOf(g, All(T)) + SumOf(g, part[x])
    BY <2>1, SumOfBoth
  <2>4. SumOf(s, T \cup {x}) = s[x] + SumOf(s, T) /\ SumOf(s, T) \in Nat
    BY <1>2, <2>1, <2>2, SumAdds
  <2>5. IsFiniteSet(All(T) \cup part[x])
    BY <2>1, FS_Union
  <2>6. SumOf(s, T) = SumOf(g, All(T)) /\ s[x] = SumOf(g, part[x]) /\ s[x] \in Nat
    BY <1>2, <2>2
  <2>7. /\ T \cup {x} \in SUBSET I /\ IsFiniteSet(All(T \cup {x}))
        /\ SumOf(s, T \cup {x}) = SumOf(g, All(T \cup {x}))
    <3>1. SumOf(g, All(T)) + SumOf(g, part[x]) = SumOf(g, part[x]) + SumOf(g, All(T))
      BY ONLY <2>4, <2>6
    <3> QED BY <2>1, <2>3, <2>4, <2>5, <2>6, <3>1
  <2> QED BY <2>7
<1>3. I \in P
  <2> HIDE DEF P
  <2> QED BY <1>1, <1>2, FiniteInduction
<1> QED BY <1>3

(* r and c are the sums of the rows and the columns of a table. *)
IsTable(K, N, row, col, r, c) ==
    /\ \A k \in K, n \in N : row[k][n] \in Nat /\ col[n][k] = row[k][n]
    /\ \A k \in K : r[k] = SumOf(row[k], N)
    /\ \A n \in N : c[n] = SumOf(col[n], K)

(* A table of numbers adds up to the same by rows and by columns. *)
LEMMA SumOfTable ==
    ASSUME NEW K, IsFiniteSet(K), NEW N, IsFiniteSet(N), NEW row, NEW col, NEW r, NEW c,
           IsTable(K, N, row, col, r, c)
    PROVE  SumOf(r, K) = SumOf(c, N)
<1> USE DEF IsTable
<1> DEFINE upto == [T \in SUBSET K |-> [n \in N |-> SumOf(col[n], T)]]
           P == {T \in SUBSET K : SumOf(r, T) = SumOf(upto[T], N)}
<1>0. \A T \in SUBSET K : IsFiniteSet(T) /\ \A n \in N : upto[T][n] = SumOf(col[n], T)
  BY FS_Subset
<1> HIDE DEF upto
<1>9. \A T \in SUBSET K, n \in N : SumOf(col[n], T) \in Nat
  BY <1>0, SumTakes
<1>1. {} \in P
  <2>1. {} \in SUBSET K /\ SumOf(r, {}) = 0 /\ \A n \in N : upto[{}][n] = 0
    BY <1>0, SumOfNone
  <2>2. SumOf(upto[{}], N) = 0
    BY <2>1, SumOfZeros
  <2> QED BY <2>1, <2>2
<1>2. ASSUME NEW T \in SUBSET K, NEW x \in K, T \in P, x \notin T PROVE T \cup {x} \in P
  <2> DEFINE U == T \cup {x}
  <2>1. U \in SUBSET K /\ IsFiniteSet(T)
    BY <1>0
  <2>2. ASSUME NEW n \in N
        PROVE  upto[U][n] = row[x][n] + upto[T][n] /\ row[x][n] \in Nat /\ upto[T][n] \in Nat
    <3>1. SumOf(col[n], T \cup {x}) = col[n][x] + SumOf(col[n], T)
      BY <1>2, <2>1, SumAdds
    <3> QED BY <1>0, <1>9, <2>1, <3>1
  <2>3. \A k \in K : r[k] \in Nat
    BY SumTakes
  <2>4. SumOf(r, T \cup {x}) = r[x] + SumOf(r, T)
    BY <1>2, <2>1, <2>3, SumAdds
  <2> DEFINE was == upto[T]
             is == upto[U]
             new == row[x]
  <2>5. \A n \in N : new[n] \in Nat /\ was[n] \in Nat /\ is[n] = new[n] + was[n]
    BY <2>2
  <2> HIDE DEF was, is, new
  <2>6. SumOf(is, N) = SumOf(new, N) + SumOf(was, N)
    BY <2>5, SumOfSums
  <2> QED BY <1>2, <2>1, <2>4, <2>6 DEF was, is, new
<1>3. K \in P
  <2> HIDE DEF P
  <2> QED BY <1>1, <1>2, FiniteInduction
<1>4. K \in SUBSET K /\ SumOf(r, K) = SumOf(upto[K], N)
  BY <1>3
<1>5. \A n \in N : upto[K][n] \in Nat /\ upto[K][n] = c[n]
  BY <1>0, <1>4, <1>9
<1> DEFINE all == upto[K]
<1>6. \A n \in N : all[n] \in Nat /\ all[n] = c[n]
  BY <1>5
<1> HIDE DEF all
<1>7. SumOf(all, N) = SumOf(c, N)
  BY <1>6, SumsEqual
<1> QED BY <1>4, <1>7 DEF all

(* s are the sums of the classes that S falls into. *)
IsByClass(g, S, class, I, s) ==
    /\ I = {class[x] : x \in S}
    /\ \A i \in I : s[i] = SumOf(g, {x \in S : class[x] = i})

(* Adding up class by class gives the same sum. *)
LEMMA SumByClass ==
    ASSUME NEW g, NEW S, IsFiniteSet(S), \A x \in S : g[x] \in Nat,
           NEW class, NEW I, NEW s, IsByClass(g, S, class, I, s)
    PROVE  SumOf(s, I) = SumOf(g, S)
<1> USE DEF IsByClass
<1> DEFINE part == [i \in I |-> {x \in S : class[x] = i}]
<1>1. IsFiniteSet(I)
  <2> DEFINE f == [x \in S |-> class[x]]
  <2>1. f \in [S -> I] /\ \A x \in S : f[x] = class[x]
    OBVIOUS
  <2> HIDE DEF f
  <2>2. f \in Surjection(S, I)
    BY <2>1 DEF Surjection
  <2> QED BY <2>2, FS_Surjection DEF ExistsSurjection
<1>2. \A i \in I : part[i] = {x \in S : class[x] = i} /\ part[i] \in SUBSET S
  OBVIOUS
<1> HIDE DEF part
<1>3. \A i \in I : IsFiniteSet(part[i]) /\ \A x \in part[i] : g[x] \in Nat
  BY <1>2, FS_Subset
<1>4. \A i, j \in I : i # j => part[i] \cap part[j] = {}
  BY <1>2
<1>5. \A i \in I : s[i] = SumOf(g, part[i])
  BY <1>2
<1>6. UNION {part[i] : i \in I} = S
  <2>1. ASSUME NEW x \in S PROVE class[x] \in I /\ x \in part[class[x]]
    BY <1>2
  <2> QED BY <1>2, <2>1
<1>7. SumOf(s, I) = SumOf(g, UNION {part[i] : i \in I})
  BY <1>1, <1>3, <1>4, <1>5, SumOfParts
<1> QED BY <1>6, <1>7
-----------------------------------------------------------------------------
(***************************************************************************)
(* Go maps from names to counts.                                           *)
(***************************************************************************)
(* A name's count grows by one or not at all. *)
LEMMA CountGrows ==
    ASSUME NEW counts, \A n \in DOMAIN counts : counts[n] \in Nat, NEW name, NEW n
    PROVE  /\ CountOf(counts, n) \in Nat
           /\ CountOf(Incremented(counts, name), n) >= CountOf(counts, n)
           /\ \A m \in DOMAIN Incremented(counts, name) : Incremented(counts, name)[m] \in Nat
<1>1. \A m : CountOf(counts, m) \in Nat
  BY DEF CountOf
<1>2. \A m \in DOMAIN Incremented(counts, name) :
         Incremented(counts, name)[m] = CountOf(counts, m) + (IF m = name THEN 1 ELSE 0)
  BY DEF Incremented
<1>3. DOMAIN Incremented(counts, name) = DOMAIN counts \cup {name}
  BY DEF Incremented
<1>4. \A m \in DOMAIN Incremented(counts, name) : Incremented(counts, name)[m] \in Nat
  BY <1>1, <1>2
<1>5. CASE n \in DOMAIN Incremented(counts, name)
  BY <1>1, <1>2, <1>4, <1>5 DEF CountOf
<1>6. CASE n \notin DOMAIN Incremented(counts, name)
  BY <1>1, <1>3, <1>4, <1>6 DEF CountOf
<1> QED BY <1>1, <1>4, <1>5, <1>6

(* counts counts n things *)
IsCount(counts, n) ==
    /\ IsFiniteSet(DOMAIN counts)
    /\ \A x \in DOMAIN counts : counts[x] \in Nat
    /\ n \in Nat /\ TotalOf(counts) = n

(* The total is one of the sums of the counts. *)
LEMMA TotalIsSum ==
    ASSUME NEW counts, IsFiniteSet(DOMAIN counts), \A x \in DOMAIN counts : counts[x] \in Nat
    PROVE  \E h : SumsOf(h, counts, DOMAIN counts) /\ TotalOf(counts) = h[DOMAIN counts]
<1> DEFINE S == DOMAIN counts
           sums == CHOOSE h : SumsOf(h, counts, S)
<1>1. TotalOf(counts) = sums[S]
  BY DEF TotalOf, MapThenSumSet, MapThenFoldSet, SumsOf, Some
<1>2. SumsOf(sums, counts, S)
  BY SumsExist, Zenon
<1> QED BY <1>1, <1>2

(* counts[x]++ counts one more. *)
LEMMA CountingAddsOne ==
    ASSUME NEW m, NEW n, IsCount(m, n), NEW x
    PROVE  IsCount(Incremented(m, x), n + 1)
<1> DEFINE k == Incremented(m, x)
           D == DOMAIN m
           E == DOMAIN k
<1>1. /\ E = D \cup {x} /\ x \in E /\ E \ {x} = D \ {x} /\ E \ {x} \in SUBSET E
      /\ D \ {x} \in SUBSET D
  BY DEF Incremented
<1>2. \A y \in E : k[y] \in Nat
  BY CountGrows DEF IsCount
<1>3. \A y \in D \ {x} : k[y] = m[y]
  BY DEF Incremented, CountOf, IsCount
<1>4. k[x] = (IF x \in D THEN m[x] ELSE 0) + 1
  BY DEF Incremented, CountOf
<1>5. IsFiniteSet(D) /\ IsFiniteSet(E) /\ IsFiniteSet(D \ {x})
  BY <1>1, FS_AddElement, FS_Subset DEF IsCount
<1>6. n \in Nat /\ TotalOf(m) = n /\ \A y \in D : m[y] \in Nat
  BY DEF IsCount
<1> HIDE DEF k, D, E
<1>7. PICK h : SumsOf(h, m, D) /\ TotalOf(m) = h[D]
  BY <1>5, <1>6, TotalIsSum DEF D
<1>8. PICK j : SumsOf(j, k, E) /\ TotalOf(k) = j[E]
  BY <1>2, <1>5, TotalIsSum DEF E
<1>9. j[E] = k[x] + j[E \ {x}]
  <2>1. E \in SUBSET E
    OBVIOUS
  <2>2. IsFiniteSet(E) /\ SumsOf(j, k, E)
    BY <1>5, <1>8
  <2>3. j[E] \in Nat /\ \A y \in E : j[E] = k[y] + j[E \ {y}]
    BY ONLY <1>2, <2>1, <2>2, SumTakesAny
  <2> QED BY <1>1, <2>3
<1>10. j[E \ {x}] = h[D \ {x}]
  <2> DEFINE s == D \ {x}
  <2>1. s \subseteq D /\ s \subseteq E /\ IsFiniteSet(s) /\ \A y \in s : k[y] = m[y]
    BY <1>1, <1>3, <1>5
  <2>2. SumsOf(h, m, D) /\ SumsOf(j, k, E)
    BY <1>7, <1>8
  <2> HIDE DEF s
  <2>3. j[s] = h[s]
    BY ONLY <2>1, <2>2, SumsAgree
  <2> QED BY <1>1, <2>3 DEF s
<1>11. h[D \ {x}] \in Nat
  BY <1>1, <1>5, <1>6, <1>7, SumTakesAny
<1>12. TotalOf(k) = n + 1
  <2>1. CASE x \in D
    <3>1. h[D] = m[x] + h[D \ {x}]
      BY <1>5, <1>6, <1>7, <2>1, SumTakesAny
    <3>2. m[x] \in Nat /\ k[x] = m[x] + 1
      BY <1>4, <1>6, <2>1
    <3> DEFINE r == h[D \ {x}]
    <3>3. r \in Nat /\ n = m[x] + r /\ TotalOf(k) = k[x] + r
      BY <1>6, <1>7, <1>8, <1>9, <1>10, <1>11, <3>1
    <3> HIDE DEF r
    <3> QED BY <3>2, <3>3
  <2>2. CASE x \notin D
    <3>1. D \ {x} = D
      BY <2>2
    <3>2. k[x] = 1
      BY <1>4, <2>2
    <3>3. TotalOf(k) = k[x] + n
      BY <1>6, <1>7, <1>8, <1>9, <1>10, <3>1
    <3> QED BY <1>6, <3>2, <3>3
  <2> QED BY <2>1, <2>2
<1> QED BY <1>2, <1>5, <1>6, <1>12 DEF IsCount, E, k

(* An empty map counts nothing. *)
LEMMA NothingIsCounted == IsCount(<<>>, 0)
<1>1. DOMAIN <<>> = {} /\ IsFiniteSet({})
  BY FS_EmptySet
<1>2. PICK h : SumsOf(h, <<>>, DOMAIN <<>>) /\ TotalOf(<<>>) = h[DOMAIN <<>>]
  BY <1>1, TotalIsSum
<1>3. h[{}] = 0
  BY <1>1, <1>2 DEF SumsOf
<1> QED BY <1>1, <1>2, <1>3 DEF IsCount

(* A name that is not in the map counts nothing. *)
LEMMA TotalOverMore ==
    ASSUME NEW m, NEW n, IsCount(m, n), NEW N, IsFiniteSet(N), DOMAIN m \subseteq N,
           NEW row, \A x \in N : row[x] = CountOf(m, x)
    PROVE  SumOf(row, N) = n
<1> DEFINE D == DOMAIN m
           R == N \ D
<1>1. /\ IsFiniteSet(D) /\ IsFiniteSet(R) /\ D \cap R = {} /\ D \cup R = N
      /\ \A x \in D : m[x] \in Nat /\ row[x] = m[x]
      /\ \A x \in R : row[x] = 0
      /\ n = SumOf(m, D) /\ n \in Nat
  <2>1. IsFiniteSet(R)
    BY FS_Subset
  <2> QED BY <2>1 DEF IsCount, CountOf, TotalOf, SumOf
<1> HIDE DEF D, R
<1>2. \A x \in D \cup R : row[x] \in Nat
  BY <1>1
<1>3. SumOf(row, D \cup R) = SumOf(row, D) + SumOf(row, R)
  BY <1>1, <1>2, SumOfBoth
<1>4. SumOf(row, R) = 0
  BY <1>1, SumOfZeros
<1>5. SumOf(m, D) = SumOf(row, D)
  BY <1>1, SumsEqual
<1>6. n + 0 = n
  BY <1>1
<1> QED BY <1>1, <1>3, <1>4, <1>5, <1>6
-----------------------------------------------------------------------------
(***************************************************************************)
(* Events: normalizing and enriching one a second time changes nothing,    *)
(* and neither step changes whose event it is.                             *)
(***************************************************************************)
(* The canonical types are the values of NormalizeSourceType. *)
LEMMA CanonicalType ==
    ASSUME NEW raw PROVE NormalizeSourceType(raw) \in CanonicalTypes
BY DEF NormalizeSourceType, CanonicalTypes, KnownTypes, DMZServices

(* A canonical type is its own canonical type (source.go:11-55). *)
LEMMA CanonicalStays ==
    ASSUME NEW type \in CanonicalTypes PROVE NormalizeSourceType(type) = type
BY DEF NormalizeSourceType, CanonicalTypes, KnownTypes, DMZServices

(* Trimming leaves no blanks; the default for an empty word has none either. *)
LEMMA TrimmedIsWord == \A word : Trimmed(word) # Blanks
BY Zenon DEF Trimmed, NoName, Blanks

(* An event with its defaults, those of severity and category given. *)
DefaultSeverity(severity) == IF severity = "" THEN "info" ELSE severity
DefaultCategory(category) == IF category = "" THEN "unknown" ELSE category

Filled(e, now, severity, category) ==
    LET d == [e EXCEPT !.timestamp = IF @ = NoTime THEN now ELSE @,
                       !.received = IF @ = NoTime THEN now ELSE @,
                       !.severity = severity, !.category = category]
    IN [d EXCEPT !.id = IF @ = NoId THEN ComputedId(d) ELSE @]

LEMMA DefaultsFill ==
    ASSUME NEW e, NEW now
    PROVE  EnsureDefaults(e, now)
              = Filled(e, now, DefaultSeverity(e.severity), DefaultCategory(e.category))
BY Zenon DEF EnsureDefaults, Filled, DefaultSeverity, DefaultCategory

(* d is e with its defaults: what they fill in and what they leave *)
HasDefaults(d, e, now) ==
    /\ IsEvent(d)
    /\ now # NoTime => d.timestamp # NoTime /\ d.received # NoTime
    /\ d.id = IF e.id # NoId THEN e.id
              ELSE <<IF e.timestamp = NoTime THEN now ELSE e.timestamp, e.type, e.ip,
                     e.message, e.raw, DefaultCategory(e.category)>>
    /\ d.id # NoId
    /\ d.timestamp = IF e.timestamp = NoTime THEN now ELSE e.timestamp
    /\ d.received = IF e.received = NoTime THEN now ELSE e.received
    /\ d.severity = DefaultSeverity(e.severity) /\ d.category = DefaultCategory(e.category)
    /\ d.type = e.type /\ d.ip = e.ip /\ d.message = e.message /\ d.raw = e.raw
    /\ d.sourcetype = e.sourcetype /\ d.high = e.high /\ d.words = e.words
    /\ d.risk = e.risk /\ d.alert = e.alert /\ d.sensitive = e.sensitive
    /\ d.offset = e.offset

LEMMA DefaultsFields ==
    ASSUME NEW e, IsEvent(e), NEW now, NEW d, d = EnsureDefaults(e, now)
    PROVE  HasDefaults(d, e, now)
<1>1. PICK s, c : /\ d = Filled(e, now, s, c)
                  /\ s = DefaultSeverity(e.severity) /\ c = DefaultCategory(e.category)
  BY DefaultsFill
<1> DEFINE f == [e EXCEPT !.timestamp = IF @ = NoTime THEN now ELSE @,
                          !.received = IF @ = NoTime THEN now ELSE @,
                          !.severity = s, !.category = c]
           own == {"type", "ip", "message", "raw", "sourcetype", "high", "words",
                   "risk", "alert", "sensitive", "offset"}
           filled == {"timestamp", "received", "severity", "category"}
<1>2. DOMAIN e = DOMAIN BlankEvent
      /\ own \cup filled \cup {"id"} \subseteq DOMAIN BlankEvent
      /\ own \subseteq DOMAIN BlankEvent \ filled
  BY DEF IsEvent, BlankEvent
<1>3. /\ f.timestamp = IF e.timestamp = NoTime THEN now ELSE e.timestamp
      /\ f.received = IF e.received = NoTime THEN now ELSE e.received
      /\ f.severity = s /\ f.category = c /\ f.id = e.id
      /\ \A x \in own : f[x] = e[x]
      /\ DOMAIN f = DOMAIN BlankEvent /\ f = [x \in DOMAIN BlankEvent |-> f[x]]
  <2> DEFINE t == IF e.timestamp = NoTime THEN now ELSE e.timestamp
             r == IF e.received = NoTime THEN now ELSE e.received
             names == DOMAIN BlankEvent
  <2>1. f = [e EXCEPT !.timestamp = t, !.received = r, !.severity = s, !.category = c]
    OBVIOUS
  <2>2. /\ DOMAIN e = names /\ filled \cup {"id"} \subseteq names
        /\ own \subseteq names \ filled /\ "id" \notin filled
    BY <1>2
  <2> HIDE DEF f, t, r, own, names
  <2>3. DOMAIN f = names /\ f = [x \in names |-> f[x]]
    BY <2>1, <2>2
  <2>4. f.timestamp = t /\ f.received = r /\ f.severity = s /\ f.category = c
    BY <2>1, <2>2
  <2>5. \A x \in names \ filled : f[x] = e[x]
    BY <2>1, <2>2
  <2>6. f.id = e.id /\ \A x \in own : f[x] = e[x]
    BY <2>2, <2>5
  <2> QED BY <2>3, <2>4, <2>6 DEF t, r, names
<1>4. d = [f EXCEPT !.id = IF @ = NoId THEN ComputedId(f) ELSE @]
  BY <1>1 DEF Filled
<1> HIDE DEF f
<1>5. /\ \A x \in own \cup filled : d[x] = f[x]
      /\ d.id = IF e.id # NoId THEN e.id ELSE ComputedId(f)
      /\ DOMAIN d = DOMAIN BlankEvent /\ d = [x \in DOMAIN BlankEvent |-> d[x]]
  BY <1>2, <1>3, <1>4
<1>6. ComputedId(f) = <<IF e.timestamp = NoTime THEN now ELSE e.timestamp, e.type, e.ip,
                        e.message, e.raw, c>>
  BY <1>3 DEF ComputedId
<1>7. d.id # NoId
  BY <1>5, <1>6 DEF NoId
<1>8. IsEvent(d)
  BY <1>3, <1>5 DEF IsEvent
<1> QED BY <1>1, <1>3, <1>5, <1>6, <1>7, <1>8 DEF HasDefaults

(* An event that has everything is left as it is. *)
LEMMA DefaultsStay ==
    ASSUME NEW e, IsEvent(e), NEW now,
           e.id # NoId, e.timestamp # NoTime, e.received # NoTime,
           e.severity # "", e.category # ""
    PROVE  EnsureDefaults(e, now) = e
<1>1. EnsureDefaults(e, now) = Filled(e, now, e.severity, e.category)
  BY DefaultsFill DEF DefaultSeverity, DefaultCategory
<1> DEFINE names == DOMAIN BlankEvent
<1>2. /\ e = [x \in names |-> e[x]]
      /\ {"id", "timestamp", "received", "severity", "category"} \subseteq names
  BY DEF IsEvent, BlankEvent
<1> HIDE DEF names
<1>3. e = [e EXCEPT !.timestamp = e.timestamp, !.received = e.received,
                    !.severity = e.severity, !.category = e.category]
  BY <1>2
<1>4. e = [e EXCEPT !.id = e.id]
  BY <1>2
<1>5. [e EXCEPT !.timestamp = IF @ = NoTime THEN now ELSE @,
                !.received = IF @ = NoTime THEN now ELSE @,
                !.severity = e.severity, !.category = e.category] = e
  BY <1>3
<1> QED BY <1>1, <1>4, <1>5 DEF Filled

(* an event as it is after the defaults and the trimming, which may have left its
   severity or its category empty *)
Complete(e) ==
    /\ IsEvent(e)
    /\ e.type \in CanonicalTypes
    /\ e.id # NoId /\ e.timestamp # NoTime /\ e.received \notin {NoTime, InvalidTime}
    /\ e.severity # Blanks /\ e.category # Blanks

(* an event to which the rules of its type and the enrichment have nothing to add *)
Settled(e) ==
    /\ Complete(e)
    /\ e.type = "firewall" => /\ e.category = FirewallCategory(e)
                              /\ e.sourcetype = SplunkSourcetypeFor("firewall")
    /\ e.sourcetype = UnknownSourcetype => SplunkSourcetypeFor(e.type) = UnknownSourcetype
    /\ e.hint = IndexHintFor(e)
    /\ IsHighValue(e) => e.high

(* The rules of a source type write a category, a sourcetype and a hint at most. *)
Ruled(e, c, s, h) == [e EXCEPT !.category = c, !.sourcetype = s, !.hint = h]

LEMMA RulesChange ==
    ASSUME NEW e, IsEvent(e), NEW r, r = ApplySourceSpecificNormalization(e)
    PROVE  \E c, s, h : /\ r = Ruled(e, c, s, h)
                        /\ c \in {e.category, FirewallCategory(e)}
                        /\ e.type = "firewall" => /\ c = FirewallCategory(e)
                                                  /\ s = SplunkSourcetypeFor("firewall")
<1> DEFINE names == DOMAIN BlankEvent
<1>1. /\ DOMAIN e = names /\ e = [x \in names |-> e[x]]
      /\ {"category", "sourcetype", "hint"} \subseteq names
  BY DEF IsEvent, BlankEvent
<1>2. CASE e.type = "firewall"
  <2>1. r = Ruled(e, FirewallCategory(e), SplunkSourcetypeFor("firewall"), "ot_security")
    BY <1>2 DEF ApplySourceSpecificNormalization, Ruled
  <2> QED BY <1>2, <2>1
<1>3. CASE e.type # "firewall"
  <2>1. PICK s : r = [e EXCEPT !.sourcetype = s]
    <3>1. r \in {e, WithSourcetype(e)}
      BY <1>3 DEF ApplySourceSpecificNormalization
    <3>2. e = [e EXCEPT !.sourcetype = e.sourcetype]
      BY <1>1
    <3> QED BY <3>1, <3>2 DEF WithSourcetype
  <2> HIDE DEF names
  <2>2. [e EXCEPT !.sourcetype = s] = Ruled(e, e.category, s, e.hint)
    BY <1>1 DEF Ruled
  <2> QED BY <1>3, <2>1, <2>2
<1> QED BY <1>2, <1>3

(* The rules of a source type keep an event complete and its identity. *)
LEMMA RulesKeepEvent ==
    ASSUME NEW e, Complete(e), NEW r, r = ApplySourceSpecificNormalization(e)
    PROVE  /\ Complete(r)
           /\ r.id = e.id /\ r.type = e.type /\ r.ip = e.ip
           /\ r.timestamp = e.timestamp /\ r.received = e.received
           /\ r.words = e.words
           /\ r.type = "firewall" => /\ r.category = FirewallCategory(r)
                                     /\ r.sourcetype = SplunkSourcetypeFor("firewall")
<1> DEFINE names == DOMAIN BlankEvent
           kept == {"id", "type", "ip", "timestamp", "received", "words", "severity", "high"}
<1>1. /\ DOMAIN e = names /\ e = [x \in names |-> e[x]] /\ e.high \in BOOLEAN
      /\ kept \subseteq names \ {"category", "sourcetype", "hint"}
      /\ {"category", "sourcetype", "hint"} \subseteq names
  BY DEF Complete, IsEvent, BlankEvent
<1>2. PICK c, s, h : /\ r = Ruled(e, c, s, h)
                     /\ c \in {e.category, FirewallCategory(e)}
                     /\ e.type = "firewall" => /\ c = FirewallCategory(e)
                                               /\ s = SplunkSourcetypeFor("firewall")
  BY RulesChange DEF Complete
<1>3. FirewallCategory(e) # Blanks
  BY DEF FirewallCategory, Blanks
<1> HIDE DEF names, kept
<1>4. /\ DOMAIN r = names /\ r = [x \in names |-> r[x]]
      /\ \A x \in kept : r[x] = e[x]
      /\ r.category = c
      /\ e.type = "firewall" => r.sourcetype = SplunkSourcetypeFor("firewall")
  BY <1>1, <1>2 DEF Ruled
<1>5. /\ r.id = e.id /\ r.type = e.type /\ r.ip = e.ip /\ r.timestamp = e.timestamp
      /\ r.received = e.received /\ r.words = e.words
      /\ r.severity = e.severity /\ r.high = e.high
  BY <1>4 DEF kept
<1>6. Complete(r)
  BY <1>1, <1>2, <1>3, <1>4, <1>5 DEF Complete, IsEvent, names
<1>7. FirewallCategory(r) = FirewallCategory(e)
  BY <1>5 DEF FirewallCategory
<1> QED BY <1>2, <1>4, <1>5, <1>6, <1>7

(* Enrichment settles an event that has been through the rules of its type. *)
LEMMA EnrichmentSettles ==
    ASSUME NEW e, Complete(e), NEW r, r = EnrichDMZ(e),
           e.type = "firewall" => /\ e.category = FirewallCategory(e)
                                  /\ e.sourcetype = SplunkSourcetypeFor("firewall")
    PROVE  /\ Settled(r)
           /\ r.id = e.id /\ r.type = e.type /\ r.ip = e.ip
           /\ r.timestamp = e.timestamp /\ r.received = e.received
<1> DEFINE w == WithSourcetype(e)
<1>1. /\ Complete(w)
      /\ w = [e EXCEPT !.sourcetype = w.sourcetype]
      /\ w.sourcetype = UnknownSourcetype => SplunkSourcetypeFor(e.type) = UnknownSourcetype
      /\ e.sourcetype # UnknownSourcetype => w.sourcetype = e.sourcetype
      /\ e.sourcetype = UnknownSourcetype => w.sourcetype = SplunkSourcetypeFor(e.type)
  BY DEF Complete, IsEvent, BlankEvent, WithSourcetype
<1>2. r = [w EXCEPT !.hint = IndexHintFor(e), !.high = @ \/ IsHighValue(e)]
  BY DEF EnrichDMZ
<1>3. IsHighValue(e) \in BOOLEAN
  BY DEF IsHighValue
<1> HIDE DEF w
<1>4. /\ Complete(r)
      /\ r.id = e.id /\ r.type = e.type /\ r.ip = e.ip
      /\ r.timestamp = e.timestamp /\ r.received = e.received
      /\ r.category = e.category /\ r.severity = e.severity /\ r.words = e.words
      /\ r.alert = e.alert /\ r.sensitive = e.sensitive
      /\ r.sourcetype = w.sourcetype /\ r.hint = IndexHintFor(e)
      /\ r.high = (e.high \/ IsHighValue(e))
  <2>1. /\ DOMAIN w = DOMAIN BlankEvent /\ DOMAIN r = DOMAIN w
        /\ w = [f \in DOMAIN BlankEvent |-> w[f]]
        /\ r = [f \in DOMAIN BlankEvent |-> r[f]]
    BY <1>1, <1>2 DEF Complete, IsEvent
  <2>2. w.high = e.high /\ e.high \in BOOLEAN
    BY <1>1 DEF Complete, IsEvent, BlankEvent
  <2>3. r.high = (w.high \/ IsHighValue(e)) /\ r.hint = IndexHintFor(e)
    BY <1>2, <2>1 DEF BlankEvent
  <2>4. r.high \in BOOLEAN
    BY <2>2, <2>3, <1>3
  <2>5. /\ r.id = e.id /\ r.type = e.type /\ r.ip = e.ip
        /\ r.timestamp = e.timestamp /\ r.received = e.received
        /\ r.category = e.category /\ r.severity = e.severity /\ r.words = e.words
        /\ r.alert = e.alert /\ r.sensitive = e.sensitive
        /\ r.sourcetype = w.sourcetype
    <3>1. \A f \in DOMAIN BlankEvent \ {"hint", "high"} : r[f] = w[f]
      BY <1>2, <2>1
    <3>2. \A f \in DOMAIN BlankEvent \ {"sourcetype"} : w[f] = e[f]
      BY <1>1 DEF Complete, IsEvent
    <3>3. DOMAIN BlankEvent =
             {"id", "timestamp", "received", "offset", "type", "ip", "name", "severity", "category",
              "message", "raw", "words", "risk", "alert", "sensitive", "sourcetype", "hint",
              "high"}
      BY DEF BlankEvent
    <3> QED BY <3>1, <3>2, <3>3
  <2>6. Complete(r)
    BY <2>1, <2>4, <2>5 DEF Complete, IsEvent
  <2> QED BY <2>2, <2>3, <2>5, <2>6
<1>5. IndexHintFor(r) = IndexHintFor(e) /\ IsHighValue(r) = IsHighValue(e)
  BY <1>4 DEF IndexHintFor, IsHighValue
<1>6. FirewallCategory(r) = FirewallCategory(e)
  BY <1>4 DEF FirewallCategory
<1> QED BY <1>1, <1>4, <1>5, <1>6 DEF Settled

(* A settled event that has a severity and a category stays as it is. *)
LEMMA SettledStays ==
    ASSUME NEW e, Settled(e), e.severity # NoName, e.category # NoName, NEW now
    PROVE  ParseOne(e, now) = e /\ Accepted(e, now) = e
<1>1. NormalizeSourceType(e.type) = e.type
  BY CanonicalStays DEF Settled, Complete
<1>2. [e EXCEPT !.type = NormalizeSourceType(@)] = e
  BY <1>1 DEF Settled, Complete, IsEvent, BlankEvent
<1>3. EnsureDefaults(e, now) = e
  BY DefaultsStay, Zenon DEF Settled, Complete, NoName
<1>4. ParseOne(e, now) = e
  BY <1>2, <1>3 DEF ParseOne
<1>5. [e EXCEPT !.received = IF @ = InvalidTime THEN now ELSE @,
                !.severity = Trimmed(@), !.category = Trimmed(@)] = e
  BY DEF Settled, Complete, IsEvent, BlankEvent, Trimmed
<1>6. ValidateAndNormalize(e, now) = ApplySourceSpecificNormalization(e)
  BY <1>2, <1>3, <1>5 DEF ValidateAndNormalize
<1>7. ASSUME NEW h PROVE EnrichDMZ([e EXCEPT !.hint = h]) = e
  <2>0. WithSourcetype(e) = e
    BY DEF Settled, Complete, IsEvent, BlankEvent, WithSourcetype
  <2> DEFINE f == [e EXCEPT !.hint = h]
  <2>1. WithSourcetype(f) = f
    BY DEF Settled, Complete, IsEvent, BlankEvent, WithSourcetype
  <2>2. IndexHintFor(f) = e.hint
    BY DEF Settled, Complete, IsEvent, BlankEvent, IndexHintFor
  <2>3. IsHighValue(f) = IsHighValue(e)
    BY DEF Settled, Complete, IsEvent, BlankEvent, IsHighValue
  <2>4. (e.high \/ IsHighValue(e)) = e.high
    BY DEF Settled, Complete, IsEvent
  <2>5. [f EXCEPT !.hint = e.hint, !.high = (f.high \/ IsHighValue(f))] = e
    <3>1. f.high = e.high
      BY DEF Settled, Complete, IsEvent, BlankEvent
    <3> QED BY <3>1, <2>3, <2>4 DEF Settled, Complete, IsEvent, BlankEvent
  <2> HIDE DEF f
  <2>6. EnrichDMZ(f) = [f EXCEPT !.hint = e.hint, !.high = (f.high \/ IsHighValue(f))]
    BY <2>1, <2>2 DEF EnrichDMZ
  <2> QED BY <2>5, <2>6 DEF f
<1>8. \E h : ApplySourceSpecificNormalization(e) = [e EXCEPT !.hint = h]
  <2>1. WithSourcetype(e) = e /\ e = [e EXCEPT !.hint = e.hint]
    BY DEF Settled, Complete, IsEvent, BlankEvent, WithSourcetype
  <2>2. CASE e.type = "firewall"
    <3>1. [e EXCEPT !.category = FirewallCategory(e),
                    !.sourcetype = SplunkSourcetypeFor("firewall"),
                    !.hint = "ot_security"] = [e EXCEPT !.hint = "ot_security"]
      BY <2>2 DEF Settled, Complete, IsEvent, BlankEvent
    <3> QED BY <2>2, <3>1 DEF ApplySourceSpecificNormalization
  <2>3. CASE e.type # "firewall"
    BY <2>1, <2>3 DEF ApplySourceSpecificNormalization
  <2> QED BY <2>2, <2>3
<1> QED BY <1>4, <1>6, <1>7, <1>8 DEF Accepted

(* A stored event as it is read back: a severity or category that trimming has left
   empty is filled in. *)
ReadBack(e) ==
    [e EXCEPT !.severity = FirstNonEmpty(@, "info"), !.category = FirstNonEmpty(@, "unknown")]

(* Neither changes the hint or the value of the event. *)
LEMMA ReadBackSettles ==
    ASSUME NEW e, Settled(e), NEW b, b = ReadBack(e)
    PROVE  Settled(b) /\ b.severity # NoName /\ b.category # NoName
<1>1. /\ IsEvent(b)
      /\ b.severity = DefaultSeverity(e.severity) /\ b.category = DefaultCategory(e.category)
      /\ \A f \in DOMAIN BlankEvent \ {"severity", "category"} : b[f] = e[f]
  <2> DEFINE v == FirstNonEmpty(e.severity, "info")
             g == FirstNonEmpty(e.category, "unknown")
  <2>1. v = DefaultSeverity(e.severity) /\ g = DefaultCategory(e.category)
    BY Zenon DEF FirstNonEmpty, DefaultSeverity, DefaultCategory
  <2>2. b = [e EXCEPT !.severity = v, !.category = g]
    BY DEF ReadBack
  <2> HIDE DEF v, g
  <2> QED BY <2>1, <2>2 DEF Settled, Complete, IsEvent, BlankEvent
<1>2. /\ b.severity # NoName /\ b.category # NoName
      /\ b.severity # Blanks /\ b.category # Blanks
      /\ e.severity # NoName => b.severity = e.severity
      /\ e.category # NoName => b.category = e.category
      /\ e.severity = NoName => b.severity = "info"
      /\ e.category = NoName => b.category = "unknown"
  <2>1. "info" # Blanks /\ "unknown" # Blanks
    BY DEF Blanks
  <2> QED BY <1>1, <2>1, "info" # NoName, "unknown" # NoName, Zenon
          DEF DefaultSeverity, DefaultCategory, NoName, Settled, Complete
<1>3. {"id", "timestamp", "received", "type", "words", "alert", "sensitive", "sourcetype",
       "hint", "high"} \subseteq DOMAIN BlankEvent \ {"severity", "category"}
  BY DEF BlankEvent
<1>4. /\ b.id = e.id /\ b.timestamp = e.timestamp /\ b.received = e.received
      /\ b.type = e.type /\ b.words = e.words /\ b.alert = e.alert /\ b.sensitive = e.sensitive
      /\ b.sourcetype = e.sourcetype /\ b.hint = e.hint /\ b.high = e.high
  BY <1>1, <1>3
<1>5. Complete(b)
  BY <1>1, <1>2, <1>4 DEF Settled, Complete
<1> DEFINE Operator == {"operator_action", "operator_read", "operator_write"}
           Runtime  == {"runtime", "system", "network", "communication"}
           Severe   == {"critical", "error"}
<1>6. NoName \notin Operator \cup Runtime \cup Severe \cup {"security"}
  BY Zenon DEF NoName
<1>7. /\ b.category = "security" <=> e.category = "security"
      /\ b.category = "operator_write" <=> e.category = "operator_write"
      /\ b.category \in Operator <=> e.category \in Operator
      /\ b.category \in Runtime <=> e.category \in Runtime
      /\ b.severity \in Severe <=> e.severity \in Severe
  BY <1>2, <1>6
<1> HIDE DEF Operator, Runtime, Severe
<1>8. IndexHintFor(b) = IndexHintFor(e)
  BY <1>4, <1>7 DEF IndexHintFor, Operator, Runtime, Severe
<1>9. IsHighValue(b) = IsHighValue(e)
  BY <1>4, <1>7 DEF IsHighValue, Severe
<1>10. e.type = "firewall" => e.category # NoName /\ FirewallCategory(b) = FirewallCategory(e)
  <2>1. "network" # NoName /\ "security" # NoName
    BY Zenon DEF NoName
  <2> QED BY <1>4, <2>1 DEF Settled, FirewallCategory
<1> QED BY <1>2, <1>4, <1>5, <1>8, <1>9, <1>10 DEF Settled

(* What is read back of a stored event is what the defaults make of it, and it stays
   as it is from then on. *)
LEMMA StoredComesBack ==
    ASSUME NEW e, Settled(e), NEW now PROVE Accepted(ParseOne(e, now), now) = ReadBack(e)
<1>1. Settled(ReadBack(e)) /\ ReadBack(e).severity # NoName /\ ReadBack(e).category # NoName
  BY ReadBackSettles
<1>2. Accepted(ReadBack(e), now) = ReadBack(e)
  BY <1>1, SettledStays
<1>3. [e EXCEPT !.type = NormalizeSourceType(@)] = e
  <2>1. NormalizeSourceType(e.type) = e.type
    BY CanonicalStays DEF Settled, Complete
  <2> QED BY <2>1 DEF Settled, Complete, IsEvent, BlankEvent
<1>4. EnsureDefaults(e, now) = ReadBack(e)
  <2>1. /\ FirstNonEmpty(e.severity, "info") = DefaultSeverity(e.severity)
        /\ FirstNonEmpty(e.category, "unknown") = DefaultCategory(e.category)
    BY Zenon DEF FirstNonEmpty, DefaultSeverity, DefaultCategory
  <2> DEFINE v == DefaultSeverity(e.severity)
             g == DefaultCategory(e.category)
  <2>2. EnsureDefaults(e, now) = Filled(e, now, v, g)
    BY DefaultsFill
  <2>3. ReadBack(e) = [e EXCEPT !.severity = v, !.category = g]
    BY <2>1 DEF ReadBack
  <2> HIDE DEF v, g
  <2>4. Filled(e, now, v, g) = [e EXCEPT !.severity = v, !.category = g]
    BY DEF Filled, Settled, Complete, IsEvent, BlankEvent
  <2> QED BY <2>2, <2>3, <2>4
<1> QED BY <1>2, <1>3, <1>4 DEF ParseOne

(* Whatever an event is when it arrives, what is stored of it is settled:
   nothing of it would change if it came again. *)
LEMMA AcceptedIsSettled ==
    ASSUME NEW e, IsEvent(e), NEW now, now \notin {NoTime, InvalidTime},
           NEW r, r = Accepted(e, now)
    PROVE  /\ Settled(r)
           /\ e.timestamp # NoTime => r.timestamp = e.timestamp
           /\ now \in Nat /\ e.received \in Nat \cup {InvalidTime} => r.received \in Nat
<1> DEFINE t == [e EXCEPT !.type = NormalizeSourceType(@)]
           d == EnsureDefaults(t, now)
           c == [d EXCEPT !.received = IF @ = InvalidTime THEN now ELSE @,
                          !.severity = Trimmed(@), !.category = Trimmed(@)]
           a == ApplySourceSpecificNormalization(c)
<1>1. /\ IsEvent(t) /\ t.type \in CanonicalTypes
      /\ t.timestamp = e.timestamp /\ t.received = e.received
  BY CanonicalType DEF IsEvent, BlankEvent
<1>2. /\ IsEvent(d) /\ d.type \in CanonicalTypes
      /\ d.id # NoId /\ d.timestamp # NoTime /\ d.received # NoTime
  <2>1. d = EnsureDefaults(t, now) /\ now # NoTime
    OBVIOUS
  <2> HIDE DEF t, d, c, a
  <2>2. /\ IsEvent(d) /\ d.type = t.type
        /\ d.id # NoId /\ d.timestamp # NoTime /\ d.received # NoTime
    <3>1. HasDefaults(d, t, now)
      BY <1>1, <2>1, DefaultsFields
    <3> QED BY <2>1, <3>1 DEF HasDefaults
  <2> QED BY <1>1, <2>2
<1>d. /\ t.timestamp # NoTime => d.timestamp = t.timestamp
      /\ d.received = IF t.received = NoTime THEN now ELSE t.received
  <2> HIDE DEF t
  <2> QED BY <1>1 DEF EnsureDefaults, IsEvent, BlankEvent
<1>3. /\ Complete(c) /\ c.timestamp = d.timestamp
      /\ c.received = IF d.received = InvalidTime THEN now ELSE d.received
  <2> HIDE DEF d
  <2>1. /\ DOMAIN c = DOMAIN d /\ c = [f \in DOMAIN BlankEvent |-> c[f]]
        /\ \A f \in DOMAIN d \ {"received", "severity", "category"} : c[f] = d[f]
        /\ c.received = IF d.received = InvalidTime THEN now ELSE d.received
        /\ c.severity = Trimmed(d.severity) /\ c.category = Trimmed(d.category)
    BY <1>2 DEF IsEvent, BlankEvent
  <2>2. c.severity # Blanks /\ c.category # Blanks
    BY <2>1, TrimmedIsWord
  <2> HIDE DEF c
  <2>3. c.high = d.high /\ c.type = d.type /\ c.id = d.id /\ c.timestamp = d.timestamp
    BY <1>2, <2>1 DEF IsEvent, BlankEvent
  <2> QED BY <1>2, <2>1, <2>2, <2>3 DEF Complete, IsEvent
<1>4. /\ Complete(a) /\ a.timestamp = c.timestamp /\ a.received = c.received
      /\ a.type = "firewall" => /\ a.category = FirewallCategory(a)
                                /\ a.sourcetype = SplunkSourcetypeFor("firewall")
  <2> HIDE DEF c
  <2> QED BY <1>3, RulesKeepEvent
<1>5. r = EnrichDMZ(a)
  BY DEF Accepted, ValidateAndNormalize
<1>6. Settled(r) /\ r.timestamp = a.timestamp /\ r.received = a.received
  <2> HIDE DEF a
  <2> QED BY <1>4, <1>5, EnrichmentSettles
<1> HIDE DEF a, c, d, t
<1>7. now \in Nat /\ e.received \in Nat \cup {InvalidTime} => r.received \in Nat
  BY <1>1, <1>d, <1>3, <1>4, <1>6
<1> QED BY <1>1, <1>d, <1>3, <1>4, <1>6, <1>7

(* What makes an event the one it is and its source the one it is. *)
SameIdentity(d, e) ==
    /\ d.id = e.id /\ d.ip = e.ip
    /\ NormalizeSourceType(d.type) = NormalizeSourceType(e.type)

(* EnsureDefaults keeps the id of an event that has one (model.go:139-143). *)
LEMMA DefaultsKeepIdentity ==
    ASSUME NEW e, IsEvent(e), e.id # NoId, NEW now, NEW d, d = EnsureDefaults(e, now)
    PROVE  IsEvent(d) /\ d.id = e.id /\ d.ip = e.ip /\ d.type = e.type
<1>1. HasDefaults(d, e, now)
  BY DefaultsFields
<1> QED BY <1>1 DEF HasDefaults

(* So does parsing, which also makes its type canonical. *)
LEMMA ParsingKeepsIdentity ==
    ASSUME NEW e, IsEvent(e), e.id # NoId, NEW now, NEW d, d = ParseOne(e, now)
    PROVE  IsEvent(d) /\ SameIdentity(d, e) /\ d.id # NoId
<1> DEFINE t == [e EXCEPT !.type = NormalizeSourceType(@)]
<1>1. /\ IsEvent(t) /\ t.id = e.id /\ t.ip = e.ip
      /\ t.type = NormalizeSourceType(e.type)
  BY DEF IsEvent, BlankEvent
<1>2. d = EnsureDefaults(t, now)
  BY DEF ParseOne
<1> HIDE DEF t
<1>3. IsEvent(d) /\ d.id = t.id /\ d.ip = t.ip /\ d.type = t.type
  BY <1>1, <1>2, DefaultsKeepIdentity
<1>4. NormalizeSourceType(d.type) = NormalizeSourceType(e.type)
  BY <1>1, <1>3, CanonicalType, CanonicalStays
<1> QED BY <1>1, <1>3, <1>4 DEF SameIdentity

(* All that ingestOne does to an event before it stores it: of what the defaults leave, it
   writes when the event was received, the severity, and what the rules and the enrichment
   decide on. *)
LEMMA AcceptingKeeps ==
    ASSUME NEW e, IsEvent(e), NEW now, NEW r, r = Accepted(e, now), NEW d, d = ParseOne(e, now)
    PROVE  /\ IsEvent(r)
           /\ \A f \in DOMAIN BlankEvent
                    \ {"received", "severity", "category", "sourcetype", "hint", "high"} :
                 r[f] = d[f]
           /\ r.received = IF d.received = InvalidTime THEN now ELSE d.received
           /\ r.severity = Trimmed(d.severity)
<1> DEFINE names == DOMAIN BlankEvent
           written == {"received", "severity", "category"}
           decided == {"category", "sourcetype", "hint", "high"}
           t == [e EXCEPT !.type = NormalizeSourceType(@)]
           n == IF d.received = InvalidTime THEN now ELSE d.received
           v == Trimmed(d.severity)
           g == Trimmed(d.category)
           c == [d EXCEPT !.received = n, !.severity = v, !.category = g]
           a == ApplySourceSpecificNormalization(c)
<1>1. /\ IsEvent(t) /\ d = EnsureDefaults(t, now)
      /\ written \cup decided \subseteq names
      /\ {"received", "severity"} \subseteq names \ decided
  BY DEF ParseOne, IsEvent, BlankEvent
<1>2. DOMAIN d = names /\ d = [x \in names |-> d[x]] /\ d.high \in BOOLEAN
  <2> HIDE DEF t
  <2>1. HasDefaults(d, t, now)
    BY <1>1, DefaultsFields
  <2> QED BY <2>1 DEF HasDefaults, IsEvent
<1>3. r = EnrichDMZ(a)
  BY DEF Accepted, ValidateAndNormalize, ParseOne
<1> HIDE DEF t, names, n, v, g
<1>4. /\ DOMAIN c = names /\ c = [x \in names |-> c[x]]
      /\ \A f \in names \ written : c[f] = d[f]
      /\ c.received = n /\ c.severity = v
  BY <1>1, <1>2
<1>5. c.high = d.high
  BY <1>1, <1>4
<1> HIDE DEF c
<1>6. IsEvent(c)
  BY <1>2, <1>4, <1>5 DEF IsEvent, names
<1>7. PICK c1, s1, h1 : a = Ruled(c, c1, s1, h1)
  BY <1>6, RulesChange DEF a
<1> HIDE DEF a
<1>8. /\ DOMAIN a = names /\ a = [x \in names |-> a[x]] /\ a.high = c.high
      /\ \A f \in names \ decided : a[f] = c[f]
  BY <1>1, <1>4, <1>7 DEF Ruled
<1> DEFINE s2 == IF a.sourcetype = UnknownSourcetype THEN SplunkSourcetypeFor(a.type)
                 ELSE a.sourcetype
           w == WithSourcetype(a)
           b2 == w.high \/ IsHighValue(a)
           h2 == IndexHintFor(a)
<1>9. w = [a EXCEPT !.sourcetype = s2] /\ b2 \in BOOLEAN /\ r = [w EXCEPT !.hint = h2, !.high = b2]
  BY <1>3 DEF WithSourcetype, EnrichDMZ
<1> HIDE DEF s2, w, b2, h2
<1>10. /\ DOMAIN r = names /\ r = [x \in names |-> r[x]] /\ r.high \in BOOLEAN
       /\ \A f \in names \ decided : r[f] = a[f]
  <2>1. {"sourcetype", "hint", "high"} \subseteq decided
    BY <1>1
  <2>2. DOMAIN w = names /\ \A f \in names \ {"sourcetype"} : w[f] = a[f]
    BY <1>8, <1>9
  <2>3. DOMAIN r = names /\ r = [x \in names |-> r[x]] /\ r.high = b2
    BY <1>1, <1>9, <2>2
  <2>4. \A f \in names \ {"sourcetype", "hint", "high"} : r[f] = a[f]
    BY <1>9, <2>2
  <2> QED BY <1>9, <2>1, <2>3, <2>4
<1>11. IsEvent(r)
  BY <1>10 DEF IsEvent, names
<1> QED BY <1>1, <1>4, <1>8, <1>10, <1>11 DEF names, n, v

(* So it keeps the identity of an event. *)
LEMMA AcceptingKeepsIdentity ==
    ASSUME NEW e, IsEvent(e), e.id # NoId, NEW now, NEW r, r = Accepted(e, now)
    PROVE  SameIdentity(r, e)
<1> DEFINE d == ParseOne(e, now)
<1>1. SameIdentity(d, e)
  BY ParsingKeepsIdentity
<1>2. r.id = d.id /\ r.ip = d.ip /\ r.type = d.type
  <2>1. {"id", "ip", "type"} \subseteq DOMAIN BlankEvent
            \ {"received", "severity", "category", "sourcetype", "hint", "high"}
    BY DEF BlankEvent
  <2> HIDE DEF d
  <2> QED BY <2>1, AcceptingKeeps DEF d
<1> QED BY <1>1, <1>2 DEF SameIdentity
=============================================================================
