-------------------------- MODULE ForwardQueueProofs --------------------------
(***************************************************************************)
(* Proofs about ForwardQueue: how far the reported depth can be from the   *)
(* real one, for any number of pushing goroutines, any capacity and any    *)
(* batch size.                                                             *)
(***************************************************************************)
EXTENDS ForwardQueue, FiniteSetTheorems, TLAPS

(* The two bounds support each other through the size of counting, so they are
   proved as one invariant. *)
DepthInv == TypeOK /\ BacklogIsReported /\ DriftIsBounded

(* The number of pushes not yet counted is a number, and at most that of the pushers. *)
LEMMA CountingSize ==
    TypeOK => /\ IsFiniteSet(counting)
              /\ Cardinality(counting) \in Nat /\ Cardinality(Pushers) \in Nat
              /\ Cardinality(counting) <= Cardinality(Pushers)
<1>1. ASSUME TypeOK PROVE IsFiniteSet(counting) /\ Cardinality(counting) <= Cardinality(Pushers)
  BY <1>1, PushersAssumption, FS_Subset DEF TypeOK
<1>2. QED  BY <1>1, PushersAssumption, FS_CardinalityType

LEMMA InitDepthInv == Init => DepthInv
<1> SUFFICES ASSUME Init PROVE DepthInv
  OBVIOUS
<1>1. TypeOK  BY SizesAssumption DEF Init, TypeOK
<1>2. Cardinality(counting) = 0  BY FS_EmptySet DEF Init
<1>3. QED
  BY <1>1, <1>2, CountingSize DEF Init, DepthInv, BacklogIsReported, DriftIsBounded, Depth

LEMMA NextDepthInv == DepthInv /\ [Next]_vars => DepthInv'
<1> SUFFICES ASSUME DepthInv, [Next]_vars PROVE DepthInv'
  OBVIOUS
<1> USE SizesAssumption
<1> DEFINE n == Cardinality(counting)
           all == Cardinality(Pushers)
<1>0. /\ TypeOK /\ IsFiniteSet(counting) /\ n \in Nat /\ all \in Nat /\ n <= all
      /\ Depth <= queued + n /\ queued + n <= Depth + all
  BY CountingSize DEF DepthInv, BacklogIsReported, DriftIsBounded
<1> HIDE DEF n, all
<1>1. ASSUME NEW g \in Pushers, Send(g) PROVE DepthInv'
  <2>1. n' = n + 1  BY <1>0, <1>1, FS_AddElement DEF Send, n
  <2>2. TypeOK'  BY <1>0, <1>1 DEF Send, TypeOK
  <2>3. QED
    BY <1>0, <1>1, <2>1, <2>2
    DEF Send, TypeOK, DepthInv, BacklogIsReported, DriftIsBounded, Depth, n, all
<1>2. ASSUME NEW g \in Pushers, Count(g) PROVE DepthInv'
  <2>1. n' = n - 1  BY <1>0, <1>2, FS_RemoveElement DEF Count, n
  <2>2. TypeOK'  BY <1>0, <1>2 DEF Count, TypeOK
  <2>3. QED
    BY <1>0, <1>2, <2>1, <2>2
    DEF Count, TypeOK, DepthInv, BacklogIsReported, DriftIsBounded, Depth, n, all
<1>3. CASE Pop
  <2>1. n' = n  BY <1>3 DEF Pop, n
  <2>2. TypeOK'  BY <1>0, <1>3 DEF Pop, TypeOK
  <2>3. QED
    BY <1>0, <1>3, <2>1, <2>2
    DEF Pop, TypeOK, DepthInv, BacklogIsReported, DriftIsBounded, Depth, n, all
<1>4. CASE MarkSuccess
  <2>1. n' = n  BY <1>4 DEF MarkSuccess, n
  <2>2. TypeOK'  BY <1>0, <1>4 DEF MarkSuccess, TypeOK
  (* What the clamp swallows is at most what is still being counted. *)
  <2>3. /\ ch <= queued' + n
        /\ queued' + n <= ch + all
    BY <1>0, <1>4 DEF MarkSuccess, TypeOK, Depth
  <2>4. Depth' = ch  BY <1>0, <1>4 DEF MarkSuccess, TypeOK, Depth
  <2>5. QED
    BY <2>1, <2>2, <2>3, <2>4 DEF DepthInv, BacklogIsReported, DriftIsBounded, n, all
<1>5. CASE PopDone \/ MarkFailure \/ UNCHANGED vars
  <2>1. n' = n /\ Depth' = Depth /\ queued' = queued
    BY <1>5 DEF PopDone, MarkFailure, vars, n, Depth
  <2>2. TypeOK'
    <3>1. CASE PopDone  BY <1>0, <3>1 DEF PopDone, TypeOK
    <3>2. CASE MarkFailure  BY <1>0, <3>2 DEF MarkFailure, TypeOK
    <3>3. CASE UNCHANGED vars  BY <1>0, <3>3 DEF vars, TypeOK
    <3>4. QED  BY <1>5, <3>1, <3>2, <3>3
  <2>3. QED
    BY <1>0, <2>1, <2>2 DEF DepthInv, BacklogIsReported, DriftIsBounded, n, all
<1>6. QED  BY <1>1, <1>2, <1>3, <1>4, <1>5 DEF Next

LEMMA AlwaysDepthInv == Spec => []DepthInv
BY InitDepthInv, NextDepthInv, PTL DEF Spec

(* Whatever the clamp in MarkSuccess swallows, the reported depth covers every
   event that waits and whose push has finished. *)
THEOREM BacklogReported == Spec => []BacklogIsReported
<1>1. DepthInv => BacklogIsReported  BY DEF DepthInv
<1>2. QED  BY <1>1, AlwaysDepthInv, PTL

(* The reported depth is too high by at most the number of goroutines that push
   at the same time. *)
THEOREM DriftBounded == Spec => []DriftIsBounded
<1>1. DepthInv => DriftIsBounded  BY DEF DepthInv
<1>2. QED  BY <1>1, AlwaysDepthInv, PTL

(* The batch of a worker is never longer than it asked for, nor the channel than
   its capacity. *)
THEOREM TypeCorrect == Spec => []TypeOK
<1>1. DepthInv => TypeOK  BY DEF DepthInv
<1>2. QED  BY <1>1, AlwaysDepthInv, PTL
=============================================================================
