------------------------------ MODULE Limiter -------------------------------
(***************************************************************************)
(* The in-process sliding-window limiter (internal/auth/ratelimit.go).     *)
(* Each method runs under one mutex, so each is one step.  A time stamp is *)
(* represented by its age, which Elapse advances; ages beyond the longest  *)
(* window are not told apart.  A bucket is a set of numbered stamps: their *)
(* order in the code's slice is their age.                                 *)
(***************************************************************************)
EXTENDS Naturals, FiniteSets

CONSTANTS
    Keys,
    Limit,      \* [Keys -> Nat]: attempts admitted per window
    Window,     \* [Keys -> Nat]: the window's length
    MaxKeys,    \* buckets kept before the map is swept
    MaxStamps   \* bounds the model: attempts recorded in one bucket

VARIABLES
    buckets,    \* Limiter.buckets; an absent key has an empty bucket
    granted     \* history: the attempts admitted since the key was reset or the map dropped

ASSUME LimiterAssumption ==
    /\ Limit \in [Keys -> Nat \ {0}] /\ Window \in [Keys -> Nat \ {0}]
    /\ MaxKeys \in Nat /\ MaxStamps \in Nat
    /\ \E k \in Keys : \A j \in Keys : Window[j] <= Window[k]

limiterVars == <<buckets, granted>>

(* OTPPerIPWindow is the longest window in use. *)
LongestWindow == CHOOSE n \in {Window[k] : k \in Keys} : \A k \in Keys : Window[k] <= n

Ages   == 0 .. (LongestWindow + 1)
Stamps == [id : 1 .. MaxStamps, age : Ages]

LimiterTypeOK ==
    /\ buckets \in [Keys -> SUBSET Stamps]
    /\ granted \in [Keys -> SUBSET Stamps]

NoBuckets == [k \in Keys |-> {}]

LimiterInit == buckets = NoBuckets /\ granted = NoBuckets

----------------------------------------------------------------------------
Present(b) == {k \in Keys : b[k] # {}}

Overfull(b) == Cardinality(Present(b)) > MaxKeys

(* sweepLocked: drop the buckets whose newest entry is older than the      *)
(* longest window.                                                         *)
Swept == [k \in Keys |-> IF \A a \in buckets[k] : a.age > LongestWindow THEN {} ELSE buckets[k]]

(* Mutant: the map is never dropped. *)
SweptOnly == IF Overfull(buckets) THEN Swept ELSE buckets

(* What Allow finds after it has bounded the map: sweep, then drop all. *)
Bounded ==
    IF ~Overfull(buckets) THEN buckets
    ELSE IF ~Overfull(Swept) THEN Swept
    ELSE NoBuckets

Dropped == Overfull(buckets) /\ Overfull(Swept)

Within(S, w) == {a \in S : a.age < w}

Kept(k) == Within(Bounded[k], Window[k])

(* Mutant: one attempt too many. *)
AllowedOneMore(k) == Cardinality(Kept(k)) <= Limit[k]

Allowed(k) == Cardinality(Kept(k)) < Limit[k]

(* The attempts of the key that still count, and the numbers they leave. *)
Counting(k) == Kept(k) \cup Within(granted[k], Window[k])
Free(k)     == {i \in 1 .. MaxStamps : \A a \in Counting(k) : a.id # i}

(* Allow: the attempt is recorded whether it is admitted or not. *)
Allow(k) ==
    /\ Free(k) # {}
    /\ LET now  == [id |-> CHOOSE i \in Free(k) : TRUE, age |-> 0]
           past == IF Dropped THEN NoBuckets ELSE granted
       IN  /\ buckets' = [Bounded EXCEPT ![k] = Kept(k) \cup {now}]
           /\ granted' = [past EXCEPT ![k] = Within(past[k], Window[k])
                                             \cup (IF Allowed(k) THEN {now} ELSE {})]

(* Reset, after a completed sign-in. *)
Reset(k) ==
    /\ buckets' = [buckets EXCEPT ![k] = {}]
    /\ granted' = [granted EXCEPT ![k] = {}]

Aged(a)  == IF a.age > LongestWindow THEN a ELSE [id |-> a.id, age |-> a.age + 1]
Older(S) == {Aged(a) : a \in S}

(* Time passes. *)
Elapse ==
    /\ buckets' = [k \in Keys |-> Older(buckets[k])]
    /\ granted' = [k \in Keys |-> Older(granted[k])]

LimiterNext == (\E k \in Keys : Allow(k) \/ Reset(k)) \/ Elapse

LimiterSpec == LimiterInit /\ [][LimiterNext]_limiterVars

----------------------------------------------------------------------------
(* However attempts, refusals, resets and sweeps follow each other, a key  *)
(* is admitted at most Limit times in any window since it was last reset   *)
(* or the map was dropped: sweeping never loosens the limit.               *)
WindowRespected ==
    \A k \in Keys : Cardinality(Within(granted[k], Window[k])) <= Limit[k]

(* Cycling through keys cannot grow the map past MaxKeys by more than the  *)
(* bucket the attempt itself adds.                                         *)
MapBounded == Cardinality(Present(buckets)) <= MaxKeys + 1
=============================================================================
