---------------------------- MODULE LimiterProofs ---------------------------
(***************************************************************************)
(* Limiter, proved for any keys (infinitely many, too), limits, windows    *)
(* and sizes of the map: no window admits more than its limit, and the map *)
(* stays bounded.                                                          *)
(***************************************************************************)
EXTENDS Limiter, FiniteSetTheorems, TLAPS

(* The limits count what the buckets hold: every admitted attempt that is  *)
(* still within the window is in the key's bucket, whatever was pruned or  *)
(* swept.                                                                  *)
Recorded == \A k \in Keys : Within(granted[k], Window[k]) \subseteq buckets[k]

WindowInv == Recorded /\ WindowRespected

(* The map holds finitely many buckets, though the keys may be infinitely  *)
(* many.                                                                   *)
MapInv == IsFiniteSet(Present(buckets)) /\ MapBounded

----------------------------------------------------------------------------
(* The longest window is one, and no window exceeds it. *)
LEMMA Longest == LongestWindow \in Nat /\ \A k \in Keys : Window[k] \in Nat /\ Window[k] <= LongestWindow
<1>1. \A k \in Keys : Window[k] \in Nat
  BY LimiterAssumption
<1>2. \E n \in {Window[k] : k \in Keys} : \A k \in Keys : Window[k] <= n
  BY LimiterAssumption
<1> QED
  BY <1>1, <1>2 DEF LongestWindow

(* A bucket is finite. *)
LEMMA FiniteStamps ==
  ASSUME NEW S \in SUBSET Stamps
  PROVE  IsFiniteSet(S) /\ Cardinality(S) \in Nat
<1> DEFINE P == (1 .. MaxStamps) \X Ages
<1> DEFINE f == [p \in P |-> [id |-> p[1], age |-> p[2]]]
<1>1. IsFiniteSet(1 .. MaxStamps)
  BY FS_Interval, LimiterAssumption
<1>2. IsFiniteSet(Ages)
  BY FS_Interval, Longest DEF Ages
<1>3. IsFiniteSet(P)
  BY <1>1, <1>2, FS_Product
<1>4. f \in Surjection(P, Stamps)
  <2>1. f \in [P -> Stamps]
    BY DEF Stamps
  <2>2. \A a \in Stamps : \E p \in P : f[p] = a
    <3> SUFFICES ASSUME NEW a \in Stamps PROVE \E p \in P : f[p] = a
      OBVIOUS
    <3>1. <<a.id, a.age>> \in P /\ a = [id |-> a.id, age |-> a.age]
      BY DEF Stamps
    <3>2. f[<<a.id, a.age>>] = a
      BY <3>1
    <3> QED
      BY <3>1, <3>2
  <2> HIDE DEF f, P
  <2> QED
    BY <2>1, <2>2 DEF Surjection
<1> HIDE DEF f, P
<1>5. IsFiniteSet(Stamps)
  BY <1>3, <1>4, FS_Surjection
<1> QED
  BY <1>5, FS_Subset, FS_CardinalityType

(* Time makes a stamp older, and leaves no more of them within a window    *)
(* than there were.                                                        *)
LEMMA Ageing ==
  ASSUME NEW S \in SUBSET Stamps, NEW w \in Nat, w <= LongestWindow
  PROVE  /\ Older(S) \in SUBSET Stamps
         /\ \A b \in Within(Older(S), w) : \E a \in Within(S, w) : b = Aged(a)
         /\ Cardinality(Within(Older(S), w)) <= Cardinality(Within(S, w))
<1>1. ASSUME NEW a \in S PROVE Aged(a) \in Stamps /\ (Aged(a).age < w => a.age < w)
  <2>1. a \in Stamps /\ a.age \in Nat /\ a.age <= LongestWindow + 1 /\ a.id \in 1 .. MaxStamps
    BY Longest DEF Stamps, Ages
  <2>2. CASE a.age > LongestWindow
    BY <2>1, <2>2, Longest DEF Aged
  <2>3. CASE ~(a.age > LongestWindow)
    <3>1. Aged(a) = [id |-> a.id, age |-> a.age + 1]
      BY <2>3 DEF Aged
    <3>2. a.age + 1 \in Ages
      BY <2>1, <2>3, Longest DEF Ages
    <3> QED
      BY <2>1, <3>1, <3>2 DEF Stamps
  <2> QED
    BY <2>2, <2>3
<1>2. Older(S) \in SUBSET Stamps
  BY <1>1 DEF Older
<1>3. \A b \in Within(Older(S), w) : \E a \in Within(S, w) : b = Aged(a)
  BY <1>1 DEF Within, Older
<1>4. Cardinality(Within(Older(S), w)) <= Cardinality(Within(S, w))
  <2> DEFINE A == {a \in Within(S, w) : Aged(a) \in Within(Older(S), w)}
  <2> DEFINE B == Within(Older(S), w)
  <2> DEFINE f == [a \in A |-> Aged(a)]
  <2>1. Within(S, w) \in SUBSET Stamps /\ A \in SUBSET Within(S, w) /\ A \in SUBSET Stamps
    BY DEF Within
  <2>2. f \in [A -> B] /\ \A b \in B : \E a \in A : f[a] = b
    BY <1>3
  <2> HIDE DEF A, B, f
  <2>3. f \in Surjection(A, B)
    BY <2>2 DEF Surjection
  <2>4. IsFiniteSet(A) /\ IsFiniteSet(Within(S, w)) /\ Cardinality(A) \in Nat /\ Cardinality(Within(S, w)) \in Nat
    BY <2>1, FiniteStamps
  <2>5. IsFiniteSet(B) /\ Cardinality(B) <= Cardinality(A)
    BY <2>3, <2>4, FS_Surjection
  <2>6. Cardinality(A) <= Cardinality(Within(S, w)) /\ Cardinality(B) \in Nat
    BY <2>1, <2>4, <2>5, FS_Subset, FS_CardinalityType
  <2>7. Cardinality(B) <= Cardinality(Within(S, w))
    BY <2>4, <2>5, <2>6
  <2> QED
    BY <2>7 DEF B
<1> QED
  BY <1>2, <1>3, <1>4

(* What Allow works on. *)
LEMMA AllowEffect ==
  ASSUME LimiterTypeOK, NEW k \in Keys, Allow(k)
  PROVE  \E now \in Stamps, past \in [Keys -> SUBSET Stamps] :
           /\ now.age = 0
           /\ past = IF Dropped THEN NoBuckets ELSE granted
           /\ Bounded \in [Keys -> SUBSET Stamps] /\ Kept(k) \in SUBSET Stamps
           /\ buckets' \in [Keys -> SUBSET Stamps] /\ granted' \in [Keys -> SUBSET Stamps]
           /\ buckets'[k] = Kept(k) \cup {now}
           /\ granted'[k] = Within(past[k], Window[k]) \cup (IF Allowed(k) THEN {now} ELSE {})
           /\ \A j \in Keys \ {k} : buckets'[j] = Bounded[j] /\ granted'[j] = past[j]
<1> DEFINE i == CHOOSE i \in Free(k) : TRUE
<1> DEFINE now == [id |-> i, age |-> 0]
<1> DEFINE past == IF Dropped THEN NoBuckets ELSE granted
<1>1. NoBuckets \in [Keys -> SUBSET Stamps] /\ Swept \in [Keys -> SUBSET Stamps]
  BY DEF NoBuckets, Swept, LimiterTypeOK
<1>2. Bounded \in [Keys -> SUBSET Stamps] /\ past \in [Keys -> SUBSET Stamps]
  BY <1>1 DEF Bounded, LimiterTypeOK
<1>3. Kept(k) \in SUBSET Stamps /\ Within(past[k], Window[k]) \in SUBSET Stamps
  BY <1>2 DEF Kept, Within
<1>4. i \in 1 .. MaxStamps
  BY DEF Free, Allow
<1>5. now \in Stamps /\ now.age = 0
  BY <1>4, Longest DEF Stamps, Ages
<1>6. /\ buckets' = [Bounded EXCEPT ![k] = Kept(k) \cup {now}]
      /\ granted' = [past EXCEPT ![k] = Within(past[k], Window[k]) \cup (IF Allowed(k) THEN {now} ELSE {})]
  BY DEF Allow
<1> HIDE DEF i, now
<1>7. past = IF Dropped THEN NoBuckets ELSE granted
  OBVIOUS
<1> HIDE DEF past
<1>8. (IF Allowed(k) THEN {now} ELSE {}) \in SUBSET Stamps
  BY <1>5
<1>9. /\ buckets' \in [Keys -> SUBSET Stamps] /\ granted' \in [Keys -> SUBSET Stamps]
      /\ buckets'[k] = Kept(k) \cup {now}
      /\ granted'[k] = Within(past[k], Window[k]) \cup (IF Allowed(k) THEN {now} ELSE {})
      /\ \A j \in Keys \ {k} : buckets'[j] = Bounded[j] /\ granted'[j] = past[j]
  BY <1>2, <1>3, <1>5, <1>6, <1>8
<1> QED
  BY <1>2, <1>3, <1>5, <1>7, <1>9

----------------------------------------------------------------------------
(* Types and windows *)

(* Every step, and none, keeps the types. *)
LEMMA TypeStep == LimiterTypeOK /\ [LimiterNext]_limiterVars => LimiterTypeOK'
<1> SUFFICES ASSUME LimiterTypeOK, [LimiterNext]_limiterVars PROVE LimiterTypeOK'
  OBVIOUS
<1>1. ASSUME NEW k \in Keys, Allow(k) PROVE LimiterTypeOK'
  BY <1>1, AllowEffect DEF LimiterTypeOK
<1>2. ASSUME NEW k \in Keys, Reset(k) PROVE LimiterTypeOK'
  BY <1>2 DEF Reset, LimiterTypeOK
<1>3. CASE Elapse
  <2>1. \A k \in Keys : Older(buckets[k]) \in SUBSET Stamps /\ Older(granted[k]) \in SUBSET Stamps
    BY Ageing, Longest DEF LimiterTypeOK
  <2> QED
    BY <1>3, <2>1 DEF Elapse, LimiterTypeOK
<1>4. CASE UNCHANGED limiterVars
  BY <1>4 DEF limiterVars, LimiterTypeOK
<1> QED
  BY <1>1, <1>2, <1>3, <1>4 DEF LimiterNext

(* Buckets and history hold numbered stamps of bounded age, whatever the   *)
(* methods of Limiter do.                                                  *)
THEOREM LimiterTypeCorrect == LimiterSpec => []LimiterTypeOK
<1>1. LimiterInit => LimiterTypeOK
  BY DEF LimiterInit, LimiterTypeOK, NoBuckets
<1> QED
  BY <1>1, TypeStep, PTL DEF LimiterSpec

(* Bounding the map forgets an admitted attempt that still counts only by  *)
(* dropping the whole map: a swept bucket has outlived every window.       *)
LEMMA BoundingKeeps ==
  ASSUME LimiterTypeOK, Recorded, NEW j \in Keys
  PROVE  LET past == IF Dropped THEN NoBuckets ELSE granted
         IN  Within(past[j], Window[j]) \subseteq Within(Bounded[j], Window[j])
<1>1. ASSUME NEW a \in Within(granted[j], Window[j])
      PROVE  a \in buckets[j] /\ a.age < Window[j] /\ a.age \in Nat /\ ~(a.age > LongestWindow)
  <2>1. a \in buckets[j] /\ a.age < Window[j]
    BY <1>1 DEF Recorded, Within
  <2>2. a.age \in Nat
    BY <2>1, Longest DEF LimiterTypeOK, Stamps, Ages
  <2> QED
    BY <2>1, <2>2, Longest
<1>2. CASE Dropped
  BY <1>2 DEF Dropped, NoBuckets, Within
<1>3. CASE ~Overfull(buckets)
  <2>1. ~Dropped /\ Bounded = buckets
    BY <1>3 DEF Dropped, Bounded
  <2> QED
    BY <1>1, <2>1 DEF Within
<1>4. CASE Overfull(buckets) /\ ~Overfull(Swept)
  <2>1. ~Dropped /\ Bounded = Swept
    BY <1>4 DEF Dropped, Bounded
  <2>2. ASSUME NEW a \in Within(granted[j], Window[j]) PROVE a \in Swept[j] /\ a.age < Window[j]
    BY <1>1, <2>2 DEF Swept
  <2> QED
    BY <2>1, <2>2 DEF Within
<1> QED
  BY <1>2, <1>3, <1>4 DEF Dropped

(* Allow admits no more than the limit. *)
LEMMA WindowAllow ==
  ASSUME LimiterTypeOK, WindowInv, NEW k \in Keys, Allow(k)
  PROVE  WindowInv'
<1>1. PICK now \in Stamps, past \in [Keys -> SUBSET Stamps] :
        /\ now.age = 0
        /\ past = IF Dropped THEN NoBuckets ELSE granted
        /\ Bounded \in [Keys -> SUBSET Stamps] /\ Kept(k) \in SUBSET Stamps
        /\ buckets' \in [Keys -> SUBSET Stamps] /\ granted' \in [Keys -> SUBSET Stamps]
        /\ buckets'[k] = Kept(k) \cup {now}
        /\ granted'[k] = Within(past[k], Window[k]) \cup (IF Allowed(k) THEN {now} ELSE {})
        /\ \A j \in Keys \ {k} : buckets'[j] = Bounded[j] /\ granted'[j] = past[j]
  BY AllowEffect
<1>2. \A j \in Keys : Within(past[j], Window[j]) \subseteq Within(Bounded[j], Window[j])
  BY <1>1, BoundingKeeps DEF WindowInv
<1>3. \A j \in Keys : Within(past[j], Window[j]) \subseteq Within(granted[j], Window[j])
  BY <1>1 DEF NoBuckets, Within
<1>4. \A j \in Keys : Within(granted[j], Window[j]) \in SUBSET Stamps
  BY DEF Within, LimiterTypeOK
<1>5. \A j \in Keys : Limit[j] \in Nat \ {0}
  BY LimiterAssumption
<1>6. Recorded'
  <2> SUFFICES ASSUME NEW j \in Keys PROVE Within(granted'[j], Window[j]) \subseteq buckets'[j]
    BY DEF Recorded
  <2>1. CASE j = k
    BY <1>1, <1>2, <2>1 DEF Within, Kept
  <2>2. CASE j # k
    BY <1>1, <1>2, <2>2 DEF Within
  <2> QED
    BY <2>1, <2>2
<1>7. \A j \in Keys : IsFiniteSet(Within(past[j], Window[j])) /\ Cardinality(Within(past[j], Window[j])) \in Nat
  BY <1>3, <1>4, FiniteStamps
<1>8. \A j \in Keys : Cardinality(Within(past[j], Window[j])) <= Limit[j]
  <2> SUFFICES ASSUME NEW j \in Keys PROVE Cardinality(Within(past[j], Window[j])) <= Limit[j]
    OBVIOUS
  <2>1. Cardinality(Within(past[j], Window[j])) <= Cardinality(Within(granted[j], Window[j]))
    BY <1>3, <1>4, FiniteStamps, FS_Subset
  <2>2. Cardinality(Within(granted[j], Window[j])) \in Nat
    BY <1>4, FiniteStamps
  <2> QED
    BY <1>5, <1>7, <2>1, <2>2 DEF WindowInv, WindowRespected
<1>9. WindowRespected'
  <2> SUFFICES ASSUME NEW j \in Keys PROVE Cardinality(Within(granted'[j], Window[j])) <= Limit[j]
    BY DEF WindowRespected
  <2>1. CASE j # k
    BY <1>1, <1>8, <2>1
  <2>2. CASE j = k /\ ~Allowed(k)
    <3>1. Within(granted'[j], Window[j]) = Within(past[j], Window[j])
      BY <1>1, <2>2 DEF Within
    <3> QED
      BY <1>8, <3>1
  <2>3. CASE j = k /\ Allowed(k)
    <3>1. Within(granted'[j], Window[j]) \subseteq Kept(k) \cup {now}
      BY <1>1, <1>2, <2>3 DEF Within, Kept
    <3>2. IsFiniteSet(Kept(k)) /\ Cardinality(Kept(k)) \in Nat /\ Cardinality(Kept(k)) < Limit[k]
      BY <1>1, <2>3, FiniteStamps DEF Allowed
    <3>3. IsFiniteSet(Kept(k) \cup {now}) /\ Cardinality(Kept(k) \cup {now}) <= Cardinality(Kept(k)) + 1
      <4>1. /\ IsFiniteSet(Kept(k) \cup {now})
            /\ Cardinality(Kept(k) \cup {now}) = Cardinality(Kept(k))
                 \/ Cardinality(Kept(k) \cup {now}) = Cardinality(Kept(k)) + 1
        BY <3>2, FS_AddElement, Zenon
      <4> QED
        BY <3>2, <4>1
    <3>4. Kept(k) \cup {now} \in SUBSET Stamps
      BY <1>1
    <3>5. Cardinality(Kept(k) \cup {now}) \in Nat
      BY <3>4, FiniteStamps
    <3>6. Cardinality(Within(granted'[j], Window[j])) <= Cardinality(Kept(k) \cup {now})
      BY <3>1, <3>3, FS_Subset
    <3>7. Cardinality(Within(granted'[j], Window[j])) \in Nat
      BY <3>1, <3>4, FiniteStamps
    <3> QED
      BY <1>5, <2>3, <3>2, <3>3, <3>5, <3>6, <3>7
  <2> QED
    BY <2>1, <2>2, <2>3
<1> QED
  BY <1>6, <1>9 DEF WindowInv

(* Every step, and none, keeps the windows. *)
LEMMA WindowStep == LimiterTypeOK /\ WindowInv /\ [LimiterNext]_limiterVars => WindowInv'
<1> SUFFICES ASSUME LimiterTypeOK, WindowInv, [LimiterNext]_limiterVars PROVE WindowInv'
  OBVIOUS
<1>1. ASSUME NEW k \in Keys, Reset(k) PROVE WindowInv'
  <2>1. /\ buckets'[k] = {} /\ granted'[k] = {}
        /\ \A j \in Keys \ {k} : buckets'[j] = buckets[j] /\ granted'[j] = granted[j]
    BY <1>1 DEF Reset, LimiterTypeOK
  <2>2. Within(granted'[k], Window[k]) = {} /\ Cardinality({}) = 0 /\ Limit[k] \in Nat
    BY <2>1, FS_EmptySet, LimiterAssumption DEF Within
  <2>3. Recorded'
    BY <2>1, <2>2 DEF WindowInv, Recorded
  <2>4. \A j \in Keys : Cardinality(Within(granted'[j], Window[j])) <= Limit[j]
    BY <2>1, <2>2 DEF WindowInv, WindowRespected
  <2> QED
    BY <2>3, <2>4 DEF WindowInv, WindowRespected
<1>2. CASE Elapse
  <2>1. \A j \in Keys : buckets'[j] = Older(buckets[j]) /\ granted'[j] = Older(granted[j])
    BY <1>2 DEF Elapse
  <2>2. \A j \in Keys :
          /\ \A b \in Within(Older(granted[j]), Window[j]) :
                \E a \in Within(granted[j], Window[j]) : b = Aged(a)
          /\ Cardinality(Within(Older(granted[j]), Window[j])) <= Cardinality(Within(granted[j], Window[j]))
    BY Ageing, Longest DEF LimiterTypeOK
  <2>3. Recorded'
    <3> SUFFICES ASSUME NEW j \in Keys, NEW b \in Within(granted'[j], Window[j]) PROVE b \in buckets'[j]
      BY DEF Recorded
    <3>1. PICK a \in Within(granted[j], Window[j]) : b = Aged(a)
      BY <2>1, <2>2
    <3>2. a \in buckets[j]
      BY <3>1 DEF WindowInv, Recorded
    <3> QED
      BY <2>1, <3>1, <3>2 DEF Older
  <2>4. ASSUME NEW j \in Keys PROVE Cardinality(Within(granted'[j], Window[j])) <= Limit[j]
    <3>1. Within(granted[j], Window[j]) \in SUBSET Stamps /\ Older(granted[j]) \in SUBSET Stamps
      BY Ageing, Longest DEF Within, LimiterTypeOK
    <3>2. Within(Older(granted[j]), Window[j]) \in SUBSET Stamps
      BY <3>1 DEF Within
    <3>3. /\ Cardinality(Within(granted[j], Window[j])) \in Nat
          /\ Cardinality(Within(Older(granted[j]), Window[j])) \in Nat
      BY <3>1, <3>2, FiniteStamps
    <3>4. Cardinality(Within(granted[j], Window[j])) <= Limit[j] /\ Limit[j] \in Nat
      BY LimiterAssumption DEF WindowInv, WindowRespected
    <3> QED
      BY <2>1, <2>2, <3>3, <3>4
  <2> QED
    BY <2>3, <2>4 DEF WindowInv, WindowRespected
<1>3. CASE UNCHANGED limiterVars
  BY <1>3 DEF limiterVars, WindowInv, Recorded, WindowRespected
<1> QED
  BY <1>1, <1>2, <1>3, WindowAllow DEF LimiterNext

(* A key is admitted at most Limit times in any window since it was last   *)
(* reset or the map was dropped, however attempts, refusals, resets and    *)
(* sweeps follow each other (Allow, Reset and sweepLocked of Limiter).     *)
THEOREM LimitHolds == LimiterSpec => []WindowRespected
<1>1. LimiterInit => WindowInv
  <2> SUFFICES ASSUME LimiterInit PROVE WindowInv
    OBVIOUS
  <2>1. \A k \in Keys : Within(granted[k], Window[k]) = {}
    BY DEF LimiterInit, NoBuckets, Within
  <2>2. \A k \in Keys : Cardinality({}) = 0 /\ 0 <= Limit[k]
    BY FS_EmptySet, LimiterAssumption
  <2> QED
    BY <2>1, <2>2 DEF WindowInv, Recorded, WindowRespected
<1>2. WindowInv => WindowRespected
  BY DEF WindowInv
<1> QED
  BY <1>1, <1>2, LimiterTypeCorrect, WindowStep, PTL DEF LimiterSpec

----------------------------------------------------------------------------
(* The size of the map *)

(* Fewer buckets keep the bound. *)
LEMMA Fewer ==
  ASSUME MapInv, Present(buckets') \subseteq Present(buckets)
  PROVE  MapInv'
<1>1. IsFiniteSet(Present(buckets')) /\ Cardinality(Present(buckets')) <= Cardinality(Present(buckets))
  BY FS_Subset DEF MapInv
<1>2. Cardinality(Present(buckets')) \in Nat /\ Cardinality(Present(buckets)) \in Nat
  BY <1>1, FS_CardinalityType DEF MapInv
<1>3. Cardinality(Present(buckets')) <= MaxKeys + 1
  BY <1>1, <1>2, LimiterAssumption DEF MapInv, MapBounded
<1> QED
  BY <1>1, <1>3 DEF MapInv, MapBounded, Present

(* What Allow finds has at most MaxKeys buckets. *)
LEMMA RoomMade ==
  ASSUME MapInv
  PROVE  /\ IsFiniteSet(Present(Bounded)) /\ Cardinality(Present(Bounded)) \in Nat
         /\ Cardinality(Present(Bounded)) <= MaxKeys
<1>1. Present(Swept) \subseteq Present(buckets) /\ Present(NoBuckets) = {}
  BY DEF Present, Swept, NoBuckets
<1>2. IsFiniteSet(Present(buckets)) /\ IsFiniteSet(Present(Swept)) /\ IsFiniteSet({}) /\ Cardinality({}) = 0
  BY <1>1, FS_Subset, FS_EmptySet DEF MapInv
<1>3. IsFiniteSet(Present(Bounded))
  BY <1>1, <1>2 DEF Bounded
<1>4. Cardinality(Present(Bounded)) \in Nat /\ MaxKeys \in Nat
  BY <1>3, FS_CardinalityType, LimiterAssumption
<1>5. Bounded = NoBuckets \/ ~Overfull(Bounded)
  BY DEF Bounded
<1>6. Cardinality(Present(Bounded)) <= MaxKeys
  BY <1>1, <1>2, <1>4, <1>5 DEF Overfull
<1> QED
  BY <1>3, <1>4, <1>6

(* Every step, and none, keeps the bound. *)
LEMMA MapStep == LimiterTypeOK /\ MapInv /\ [LimiterNext]_limiterVars => MapInv'
<1> SUFFICES ASSUME LimiterTypeOK, MapInv, [LimiterNext]_limiterVars PROVE MapInv'
  OBVIOUS
<1>1. ASSUME NEW k \in Keys, Allow(k) PROVE MapInv'
  <2>1. Present(buckets') \subseteq Present(Bounded) \cup {k}
    BY <1>1, AllowEffect DEF Present
  <2>2. /\ IsFiniteSet(Present(Bounded)) /\ Cardinality(Present(Bounded)) \in Nat
        /\ Cardinality(Present(Bounded)) <= MaxKeys
    BY RoomMade
  <2>3. /\ IsFiniteSet(Present(Bounded) \cup {k})
        /\ Cardinality(Present(Bounded) \cup {k}) <= Cardinality(Present(Bounded)) + 1
    BY <2>2, FS_AddElement
  <2>4. /\ IsFiniteSet(Present(buckets'))
        /\ Cardinality(Present(buckets')) <= Cardinality(Present(Bounded) \cup {k})
    BY <2>1, <2>3, FS_Subset
  <2>5. Cardinality(Present(buckets')) \in Nat /\ Cardinality(Present(Bounded) \cup {k}) \in Nat
    BY <2>3, <2>4, FS_CardinalityType
  <2>6. Cardinality(Present(buckets')) <= MaxKeys + 1
    BY <2>2, <2>3, <2>4, <2>5, LimiterAssumption
  <2> QED
    BY <2>4, <2>6 DEF MapInv, MapBounded, Present
<1>2. ASSUME NEW k \in Keys, Reset(k) PROVE MapInv'
  <2>1. Present(buckets') \subseteq Present(buckets)
    BY <1>2 DEF Reset, Present, LimiterTypeOK
  <2> QED
    BY <2>1, Fewer
<1>3. CASE Elapse
  <2>1. Present(buckets') \subseteq Present(buckets)
    BY <1>3 DEF Elapse, Present, Older
  <2> QED
    BY <2>1, Fewer
<1>4. CASE UNCHANGED limiterVars
  <2>1. buckets' = buckets
    BY <1>4 DEF limiterVars
  <2> QED
    BY <2>1, Fewer
<1> QED
  BY <1>1, <1>2, <1>3, <1>4 DEF LimiterNext

(* The map never holds more than MaxKeys buckets and the one the attempt   *)
(* itself adds, however many keys are cycled through (Allow's sweep and    *)
(* drop).                                                                  *)
THEOREM MapStaysBounded == LimiterSpec => []MapBounded
<1>1. LimiterInit => MapInv
  <2> SUFFICES ASSUME LimiterInit PROVE MapInv
    OBVIOUS
  <2>1. Present(buckets) = {}
    BY DEF LimiterInit, NoBuckets, Present
  <2> QED
    BY <2>1, FS_EmptySet, LimiterAssumption DEF MapInv, MapBounded
<1>2. MapInv => MapBounded
  BY DEF MapInv
<1> QED
  BY <1>1, <1>2, LimiterTypeCorrect, MapStep, PTL DEF LimiterSpec

=============================================================================
