-------------------------- MODULE TimetableProofs ---------------------------
(***************************************************************************)
(* Timetable, proved for any number of teams, courts, times, fixtures,     *)
(* slots and requests in flight: the schedule implements a calendar of     *)
(* courts, no team is double-booked, no pair has two unplayed fixtures and *)
(* the stamps mirror the slots.                                            *)
(***************************************************************************)
EXTENDS Timetable, FiniteSetTheorems, TLAPS

(* What a request holds at its second step. *)
StageOf(q) ==
    /\ q.pc \in {"writing", "unslotting"} => q.slot \in Sids
    /\ q.pc = "writing" => q.place \in Places
    /\ q.pc \in {"removing", "moving"} => q.match \in Fids
    /\ q.pc = "moving" => q.status \in {"scheduled", "live"}

Typed == TypeOK /\ \A w \in Workers : StageOf(req[w])

(* The locks: a slot row has one holder, one request writes slots, one     *)
(* creates fixtures.                                                       *)
Locks ==
    \A v, w \in Workers : v # w =>
        /\ req[v].pc \in {"writing", "unslotting"} /\ req[w].pc \in {"writing", "unslotting"}
              => req[v].slot # req[w].slot
        /\ req[v].pc = "writing" => req[w].pc # "writing"
        /\ req[v].pc \in {"adding", "generating"} => req[w].pc \notin {"adding", "generating"}

(* The numbers of the fixtures to come follow those given. *)
Numbered == \E k \in 0 .. MaxFixtures : NewFixtures = (k + 1) .. MaxFixtures

(* Slots name fixtures that are there, and requests fixtures that were. *)
Named ==
    /\ \A s \in Taken : slot[s].match # NULL => slot[s].match \in Present
    /\ \A w \in Workers : req[w].pc \in {"writing", "removing"} /\ req[w].match # NULL
                             => req[w].match \notin NewFixtures

(* The row DeleteSlot holds is the one it read. *)
RowHeld ==
    \A w \in Workers : req[w].pc = "unslotting" =>
        slot[req[w].slot] # NULL /\ slot[req[w].slot].match = req[w].match

BookInv == Locks /\ Numbered /\ Named /\ RowHeld

(* What WriteSlot checked still holds when it commits: of the court, and   *)
(* of the teams unless the other match was reopened.                       *)
CourtChecked ==
    \A w \in Workers : req[w].pc = "writing" => CourtFree(req[w].slot, req[w].place)

TeamsChecked ==
    \A w \in Workers : req[w].pc = "writing" /\ req[w].match # NULL =>
        \A t \in Taken \ {req[w].slot} :
            /\ slot[t].match \in Present \ late
            /\ fixture[slot[t].match].status \in Undecided
            /\ fixture[slot[t].match].pair \cap fixture[req[w].match].pair # {}
            => ~Closer(slot[t].place[2], req[w].place[2], 0)

(* What the duplicate check found still holds when the fixtures go in. *)
PairsChecked ==
    \A w \in Workers : req[w].pc \in {"adding", "generating"} =>
        \A m \in Present \ late :
            fixture[m].pair \in req[w].pairs => fixture[m].status \notin Undecided

(* A fixture that was never in two slots is in one at most, and DeleteSlot *)
(* keeps the stamp only of one that was.                                   *)
OneSlot ==
    \A m \in Fids \ shared : \A s, t \in SlotsOf(slot, m) : s = t

KeptForCause ==
    \A w \in Workers : req[w].pc = "unslotting" /\ req[w].match # NULL /\ req[w].keep
                          => req[w].match \in shared

StampInv == OneSlot /\ KeptForCause /\ StampMirrorsSlot

----------------------------------------------------------------------------
(* What the operations do to a fixture, a slot and a request *)

(* The same fixture, as far as the checks of the schedule can tell. *)
Alike(f, g) ==
    /\ g.pair = f.pair
    /\ g.status \in Undecided <=> f.status \in Undecided
    /\ g.status \in Existing <=> f.status \in Existing
    /\ g.status = "none" <=> f.status = "none"

(* A fixture is alike before and after it is stamped or un-stamped. *)
LEMMA Stamping ==
  ASSUME NEW f \in Fixtures, NEW place \in Places
  PROVE  /\ Alike(f, f)
         /\ Unstamped(f) \in Fixtures /\ Alike(f, Unstamped(f)) /\ Unstamped(f).stamp = NULL
         /\ Stamped(f, place) \in Fixtures /\ Alike(f, Stamped(f, place))
         /\ Stamped(f, place).stamp = place
<1>1. Alike(f, f)
  BY DEF Alike
<1>2. Unstamped(f) \in Fixtures /\ Alike(f, Unstamped(f)) /\ Unstamped(f).stamp = NULL
  BY DEF Unstamped, Fixtures, Alike, Existing, Undecided, Counted
<1>3. Stamped(f, place) \in Fixtures /\ Alike(f, Stamped(f, place)) /\ Stamped(f, place).stamp = place
  BY DEF Stamped, Fixtures, Alike, Existing, Undecided, Counted
<1> QED
  BY <1>1, <1>2, <1>3

(* Nothing in flight. *)
LEMMA AtRest == Idle \in Requests /\ StageOf(Idle) /\ Idle.pc = "idle" /\ NoFixture \in Fixtures
BY DEF Idle, Requests, StageOf, NoFixture, Fixtures

(* A request begins. *)
LEMMA Started ==
  ASSUME Typed, NEW w \in Workers, NEW q \in Requests, StageOf(q), Start(w, q),
         UNCHANGED <<fixture, slot, late, shared>>
  PROVE  /\ Typed'
         /\ req[w].pc = "idle" /\ req'[w] = q /\ \A x \in Workers \ {w} : req'[x] = req[x]
<1>1. /\ req[w].pc = "idle" /\ req' \in [Workers -> Requests]
      /\ req'[w] = q /\ \A x \in Workers \ {w} : req'[x] = req[x]
  BY DEF Start, Typed, TypeOK
<1>2. served' \in 0 .. MaxRequests
  BY TimetableAssumption DEF Start, Typed, TypeOK
<1>3. (\A x \in Workers : StageOf(req[x]))'
  BY <1>1 DEF Typed, StageOf
<1>4. TypeOK'
  BY <1>1, <1>2 DEF Typed, TypeOK
<1> QED
  BY <1>1, <1>3, <1>4 DEF Typed

(* A request ends. *)
LEMMA Finished ==
  ASSUME Typed, NEW w \in Workers, Finish(w)
  PROVE  /\ req' \in [Workers -> Requests] /\ served' = served
         /\ (\A x \in Workers : StageOf(req[x]))'
         /\ req'[w] = Idle /\ \A x \in Workers \ {w} : req'[x] = req[x]
<1>1. /\ req' \in [Workers -> Requests] /\ served' = served
      /\ req'[w] = Idle /\ \A x \in Workers \ {w} : req'[x] = req[x]
  BY AtRest DEF Finish, Typed, TypeOK
<1>2. (\A x \in Workers : StageOf(req[x]))'
  BY <1>1, AtRest DEF Typed, StageOf
<1> QED
  BY <1>1, <1>2

(* The six operations that begin with what they read. *)
Begin(w) ==
    \/ \E s \in Taken \cup Vacant, m \in Present \cup {NULL}, p \in Places, o \in BOOLEAN :
          WriteSlot(w, s, m, p, o)
    \/ \E s \in Taken : DeleteSlot(w, s)
    \/ \E p \in Pairs, r \in BOOLEAN : AddManualMatch(w, p, r)
    \/ \E registered \in SUBSET Teams : GenerateRoundRobinFixtures(w, registered)
    \/ \E m \in Present : DeleteManualMatch(w, m)
    \/ \E m \in Present, s \in {"scheduled", "live"} : CheckStatus(w, m, s)

(* WriteSlot begins: what it holds. *)
LEMMA WriteBegun ==
  ASSUME Typed, NEW w \in Workers, NEW s \in Taken \cup Vacant, NEW m \in Present \cup {NULL},
         NEW p \in Places, NEW o \in BOOLEAN, WriteSlot(w, s, m, p, o)
  PROVE  /\ Typed' /\ UNCHANGED <<fixture, slot, late, shared>>
         /\ req[w].pc = "idle" /\ \A x \in Workers \ {w} : req'[x] = req[x]
         /\ req'[w].pc = "writing" /\ req'[w].slot = s /\ req'[w].match = m /\ req'[w].place = p
<1> DEFINE q == [Idle EXCEPT !.pc = "writing", !.slot = s, !.match = m, !.place = p]
<1>1. s \in Sids /\ m \in Fids \cup {NULL}
  BY DEF Taken, Vacant, Present
<1>2. q \in Requests /\ StageOf(q) /\ q.pc = "writing" /\ q.slot = s /\ q.match = m /\ q.place = p
  BY <1>1 DEF Idle, Requests, StageOf
<1>3. Start(w, q) /\ UNCHANGED <<fixture, slot, late, shared>>
  BY DEF WriteSlot
<1> HIDE DEF q
<1> QED
  BY <1>2, <1>3, Started

(* DeleteSlot begins. *)
LEMMA DeleteBegun ==
  ASSUME Typed, NEW w \in Workers, NEW s \in Taken, DeleteSlot(w, s)
  PROVE  /\ Typed' /\ UNCHANGED <<fixture, slot, late, shared>>
         /\ req[w].pc = "idle" /\ \A x \in Workers \ {w} : req'[x] = req[x]
         /\ req'[w].pc = "unslotting" /\ req'[w].slot = s /\ req'[w].match = slot[s].match
         /\ req'[w].keep <=> SlotsOf(slot, slot[s].match) \ {s} # {}
<1> DEFINE k == SlotsOf(slot, slot[s].match) \ {s} # {}
<1> DEFINE q == [Idle EXCEPT !.pc = "unslotting", !.slot = s, !.match = slot[s].match, !.keep = k]
<1>1. s \in Sids /\ slot[s] \in Slots /\ slot[s].match \in Fids \cup {NULL}
  BY DEF Taken, Typed, TypeOK, SlotRows, Slots
<1>2. k \in BOOLEAN
  OBVIOUS
<1>3. Start(w, q) /\ UNCHANGED <<fixture, slot, late, shared>>
  BY DEF DeleteSlot
<1> HIDE DEF k
<1>4. q \in Requests /\ StageOf(q) /\ q.pc = "unslotting" /\ q.slot = s /\ q.match = slot[s].match
      /\ q.keep = k
  BY <1>1, <1>2 DEF Idle, Requests, StageOf
<1> HIDE DEF q
<1> QED
  BY <1>3, <1>4, Started DEF k

(* The creation of fixtures begins. *)
LEMMA CreateBegun ==
  ASSUME Typed, NEW w \in Workers,
         \/ \E p \in Pairs, r \in BOOLEAN : AddManualMatch(w, p, r)
         \/ \E registered \in SUBSET Teams : GenerateRoundRobinFixtures(w, registered)
  PROVE  /\ Typed' /\ UNCHANGED <<fixture, slot, late, shared>>
         /\ req[w].pc = "idle" /\ \A x \in Workers \ {w} : req'[x] = req[x]
         /\ req'[w].pc \in {"adding", "generating"}
         /\ FixturesUnlocked
         /\ \A p \in req'[w].pairs : \A m \in findDuplicates(p) : fixture[m].status \notin Undecided
<1>1. PICK q :
        /\ q \in Requests /\ StageOf(q) /\ q.pc \in {"adding", "generating"}
        /\ Start(w, q) /\ UNCHANGED <<fixture, slot, late, shared>>
        /\ FixturesUnlocked
        /\ \A p \in q.pairs : \A m \in findDuplicates(p) : fixture[m].status \notin Undecided
  <2>1. ASSUME NEW p \in Pairs, NEW r \in BOOLEAN, AddManualMatch(w, p, r)
        PROVE  \E q :
                 /\ q \in Requests /\ StageOf(q) /\ q.pc \in {"adding", "generating"}
                 /\ Start(w, q) /\ UNCHANGED <<fixture, slot, late, shared>>
                 /\ FixturesUnlocked
                 /\ \A x \in q.pairs : \A m \in findDuplicates(x) : fixture[m].status \notin Undecided
    <3> DEFINE q == [Idle EXCEPT !.pc = "adding", !.pairs = {p}]
    <3>1. q \in Requests /\ StageOf(q) /\ q.pc = "adding" /\ q.pairs = {p}
      BY DEF Idle, Requests, StageOf
    <3>2. Start(w, q) /\ UNCHANGED <<fixture, slot, late, shared>> /\ FixturesUnlocked
      BY <2>1 DEF AddManualMatch
    <3>3. \A m \in findDuplicates(p) : fixture[m].status \notin Undecided
      BY <2>1 DEF AddManualMatch, classifyDuplicate
    <3> HIDE DEF q
    <3> QED
      BY <3>1, <3>2, <3>3
  <2>2. ASSUME NEW registered \in SUBSET Teams, GenerateRoundRobinFixtures(w, registered)
        PROVE  \E q :
                 /\ q \in Requests /\ StageOf(q) /\ q.pc \in {"adding", "generating"}
                 /\ Start(w, q) /\ UNCHANGED <<fixture, slot, late, shared>>
                 /\ FixturesUnlocked
                 /\ \A x \in q.pairs : \A m \in findDuplicates(x) : fixture[m].status \notin Undecided
    <3> DEFINE missing == {p \in Pairs : p \subseteq registered /\ findDuplicates(p) = {}}
    <3> DEFINE q == [Idle EXCEPT !.pc = "generating", !.pairs = missing]
    <3>1. missing \subseteq Pairs /\ \A p \in missing : findDuplicates(p) = {}
      OBVIOUS
    <3>2. Start(w, q) /\ UNCHANGED <<fixture, slot, late, shared>> /\ FixturesUnlocked
      BY <2>2 DEF GenerateRoundRobinFixtures
    <3> HIDE DEF missing
    <3>3. q \in Requests /\ StageOf(q) /\ q.pc = "generating" /\ q.pairs = missing
      BY <3>1 DEF Idle, Requests, StageOf
    <3> HIDE DEF q
    <3> QED
      BY <3>1, <3>2, <3>3
  <2> QED
    BY <2>1, <2>2
<1> QED
  BY <1>1, Started

(* DeleteManualMatch begins. *)
LEMMA RemovalBegun ==
  ASSUME Typed, NEW w \in Workers, NEW m \in Present, DeleteManualMatch(w, m)
  PROVE  /\ Typed' /\ UNCHANGED <<fixture, slot, late, shared>>
         /\ req[w].pc = "idle" /\ \A x \in Workers \ {w} : req'[x] = req[x]
         /\ req'[w].pc = "removing" /\ req'[w].match = m
<1> DEFINE q == [Idle EXCEPT !.pc = "removing", !.match = m]
<1>1. q \in Requests /\ StageOf(q) /\ q.pc = "removing" /\ q.match = m
  BY DEF Idle, Requests, StageOf, Present
<1>2. Start(w, q) /\ UNCHANGED <<fixture, slot, late, shared>>
  BY DEF DeleteManualMatch
<1> HIDE DEF q
<1> QED
  BY <1>1, <1>2, Started

(* SetStatus begins. *)
LEMMA MoveBegun ==
  ASSUME Typed, NEW w \in Workers, NEW m \in Present, NEW s \in {"scheduled", "live"},
         CheckStatus(w, m, s)
  PROVE  /\ Typed' /\ UNCHANGED <<fixture, slot, late, shared>>
         /\ req[w].pc = "idle" /\ \A x \in Workers \ {w} : req'[x] = req[x]
         /\ req'[w].pc = "moving" /\ req'[w].match = m
<1> DEFINE q == [Idle EXCEPT !.pc = "moving", !.match = m, !.status = s]
<1>1. q \in Requests /\ StageOf(q) /\ q.pc = "moving" /\ q.match = m
  BY DEF Idle, Requests, StageOf, Present
<1>2. Start(w, q) /\ UNCHANGED <<fixture, slot, late, shared>>
  BY DEF CheckStatus
<1> HIDE DEF q
<1> QED
  BY <1>1, <1>2, Started

(* WriteSlot commits. *)
LEMMA SlotWritten ==
  ASSUME Typed, NEW w \in Workers, CommitSlot(w), NEW s, NEW m, NEW place,
         s = req[w].slot, m = req[w].match, place = req[w].place, m # NULL => m \in Present
  PROVE  /\ Typed' /\ late' = late
         /\ req[w].pc = "writing" /\ req'[w] = Idle /\ \A x \in Workers \ {w} : req'[x] = req[x]
         /\ s \in Sids /\ m \in Fids \cup {NULL} /\ place \in Places
         /\ slot'[s] = [match |-> m, place |-> place] /\ slot'[s] # NULL
         /\ \A t \in Sids \ {s} : slot'[t] = slot[t]
         /\ \A n \in Fids :
              /\ Alike(fixture[n], fixture'[n])
              /\ n = m => fixture'[n].stamp = place
              /\ n # m /\ slot[s] # NULL /\ slot[s].match = n => fixture'[n].stamp = NULL
              /\ n # m /\ (slot[s] = NULL \/ slot[s].match # n) => fixture'[n] = fixture[n]
         /\ shared' = shared \cup {n \in Fids : Cardinality(SlotsOf(slot', n)) > 1}
<1>1. /\ req[w].pc = "writing" /\ Finish(w) /\ UNCHANGED late
      /\ slot' = [slot EXCEPT ![s] = [match |-> m, place |-> place]]
      /\ fixture' = Restamped(s, m, place)
      /\ Share(slot')
  BY DEF CommitSlot
<1>2. s \in Sids /\ m \in Fids \cup {NULL} /\ place \in Places
  BY <1>1 DEF Typed, TypeOK, StageOf, Requests
<1>3. [match |-> m, place |-> place] \in Slots /\ NULL \notin Fids /\ NULL \notin Slots
  BY <1>2, TimetableAssumption DEF Slots, Fids
<1>4. slot'[s] = [match |-> m, place |-> place] /\ \A t \in Sids \ {s} : slot'[t] = slot[t]
  BY <1>1, <1>2 DEF Typed, TypeOK
<1>5. slot' \in [Sids -> SlotRows]
  BY <1>1, <1>2, <1>3 DEF Typed, TypeOK, SlotRows
<1>6. ASSUME NEW n \in Fids
      PROVE  /\ fixture'[n] \in Fixtures /\ Alike(fixture[n], fixture'[n])
             /\ n = m => fixture'[n].stamp = place
             /\ n # m /\ slot[s] # NULL /\ slot[s].match = n => fixture'[n].stamp = NULL
             /\ n # m /\ (slot[s] = NULL \/ slot[s].match # n) => fixture'[n] = fixture[n]
  <2>1. fixture[n] \in Fixtures
    BY DEF Typed, TypeOK
  <2>2. CASE n = m
    <3>1. fixture'[n] = Stamped(fixture[n], place)
      BY <1>1, <2>2 DEF Restamped
    <3> QED
      BY <1>2, <2>1, <2>2, <3>1, Stamping
  <2>3. CASE n # m /\ slot[s] # NULL /\ slot[s].match = n
    <3>1. fixture'[n] = Unstamped(fixture[n])
      BY <1>1, <2>3 DEF Restamped
    <3> QED
      BY <1>2, <2>1, <2>3, <3>1, Stamping
  <2>4. CASE n # m /\ (slot[s] = NULL \/ slot[s].match # n)
    <3>1. fixture'[n] = fixture[n]
      BY <1>1, <1>3, <2>4 DEF Restamped
    <3> QED
      BY <1>2, <2>1, <2>4, <3>1, Stamping
  <2> QED
    BY <2>2, <2>3, <2>4
<1>7. fixture' \in [Fids -> Fixtures]
  <2>1. fixture' = [n \in Fids |-> fixture'[n]]
    BY <1>1 DEF Restamped
  <2> QED
    BY <1>6, <2>1
<1>8. shared' = shared \cup {n \in Fids : Cardinality(SlotsOf(slot', n)) > 1} /\ shared' \subseteq Fids
  BY <1>1 DEF Share, Typed, TypeOK
<1>9. Typed'
  BY <1>1, <1>5, <1>7, <1>8, Finished DEF Typed, TypeOK
<1> QED
  BY <1>1, <1>2, <1>3, <1>4, <1>6, <1>8, <1>9, Finished

(* WriteSlot is rolled back, or SetStatus fails: the match is gone. *)
Refused(w) ==
    /\ \/ CommitSlot(w) /\ req[w].match # NULL
       \/ SetStatus(w)
    /\ req[w].match \notin Present

(* A request that is refused changes nothing and ends. *)
LEMMA SlotRefused ==
  ASSUME Typed, NEW w \in Workers, Refused(w)
  PROVE  /\ Typed' /\ UNCHANGED <<fixture, slot, late, shared>>
         /\ req'[w] = Idle /\ \A x \in Workers \ {w} : req'[x] = req[x]
<1>1. Finish(w) /\ UNCHANGED <<fixture, slot, late, shared>>
  BY DEF Refused, CommitSlot, SetStatus
<1> QED
  BY <1>1, Finished DEF Typed, TypeOK

(* DeleteSlot commits. *)
LEMMA SlotDeleted ==
  ASSUME Typed, NEW w \in Workers, CommitDelete(w), NEW s, NEW m, s = req[w].slot, m = req[w].match
  PROVE  /\ Typed' /\ UNCHANGED <<late, shared>>
         /\ req[w].pc = "unslotting" /\ req'[w] = Idle /\ \A x \in Workers \ {w} : req'[x] = req[x]
         /\ s \in Sids /\ m \in Fids \cup {NULL}
         /\ slot'[s] = NULL /\ \A t \in Sids \ {s} : slot'[t] = slot[t]
         /\ \A n \in Fids :
              /\ Alike(fixture[n], fixture'[n])
              /\ n = m /\ ~req[w].keep => fixture'[n].stamp = NULL
              /\ n # m => fixture'[n] = fixture[n]
<1>1. /\ req[w].pc = "unslotting" /\ Finish(w) /\ UNCHANGED <<late, shared>>
      /\ slot' = [slot EXCEPT ![s] = NULL]
      /\ fixture' = IF m = NULL \/ req[w].keep THEN fixture
                    ELSE [fixture EXCEPT ![m] = Unstamped(fixture[m])]
  BY DEF CommitDelete
<1>2. s \in Sids /\ m \in Fids \cup {NULL} /\ req[w].keep \in BOOLEAN /\ NULL \notin Fids
  BY <1>1, TimetableAssumption DEF Typed, TypeOK, StageOf, Requests, Fids
<1>3. slot' \in [Sids -> SlotRows] /\ slot'[s] = NULL /\ \A t \in Sids \ {s} : slot'[t] = slot[t]
  BY <1>1, <1>2 DEF Typed, TypeOK, SlotRows
<1>4. ASSUME NEW n \in Fids
      PROVE  /\ fixture'[n] \in Fixtures /\ Alike(fixture[n], fixture'[n])
             /\ n = m /\ ~req[w].keep => fixture'[n].stamp = NULL
             /\ n # m => fixture'[n] = fixture[n]
  <2>1. fixture[n] \in Fixtures
    BY DEF Typed, TypeOK
  <2>2. /\ Unstamped(fixture[n]) \in Fixtures /\ Alike(fixture[n], Unstamped(fixture[n]))
        /\ Unstamped(fixture[n]).stamp = NULL
    BY <2>1 DEF Unstamped, Fixtures, Alike, Existing, Undecided, Counted
  <2>3. Alike(fixture[n], fixture[n])
    BY DEF Alike
  <2>4. CASE n = m /\ ~req[w].keep
    <3>1. fixture'[n] = Unstamped(fixture[n])
      BY <1>1, <1>2, <2>4 DEF Typed, TypeOK
    <3> QED
      BY <2>2, <2>4, <3>1
  <2>5. CASE ~(n = m /\ ~req[w].keep)
    <3>1. fixture'[n] = fixture[n]
      BY <1>1, <1>2, <2>5 DEF Typed, TypeOK
    <3> QED
      BY <2>1, <2>3, <2>5, <3>1
  <2> QED
    BY <2>4, <2>5
<1>5. fixture' \in [Fids -> Fixtures]
  <2>1. fixture' = [n \in Fids |-> fixture'[n]]
    BY <1>1 DEF Typed, TypeOK
  <2> QED
    BY <1>4, <2>1
<1>6. Typed'
  BY <1>1, <1>3, <1>5, Finished DEF Typed, TypeOK
<1> QED
  BY <1>1, <1>2, <1>3, <1>4, <1>6, Finished

(* DeleteManualMatch commits. *)
LEMMA FixtureRemoved ==
  ASSUME Typed, NEW w \in Workers, CommitRemoval(w), NEW m, m = req[w].match
  PROVE  /\ Typed' /\ UNCHANGED <<late, shared>>
         /\ req[w].pc = "removing" /\ req'[w] = Idle /\ \A x \in Workers \ {w} : req'[x] = req[x]
         /\ m \in Fids /\ SlotsOf(slot, m) \cap LockedSlots = {}
         /\ fixture'[m].status = "deleted" /\ fixture'[m].pair = {}
         /\ \A n \in Fids \ {m} : fixture'[n] = fixture[n]
         /\ \A s \in SlotsOf(slot, m) : /\ slot'[s] # NULL /\ slot'[s].match = NULL
                                        /\ slot'[s].place = slot[s].place
         /\ \A s \in Sids \ SlotsOf(slot, m) : slot'[s] = slot[s]
<1>1. /\ req[w].pc = "removing" /\ Finish(w) /\ UNCHANGED <<late, shared>>
      /\ SlotsOf(slot, m) \cap LockedSlots = {}
      /\ fixture' = [fixture EXCEPT ![m] = [NoFixture EXCEPT !.status = "deleted"]]
      /\ slot' = [s \in Sids |-> IF s \in SlotsOf(slot, m) THEN [slot[s] EXCEPT !.match = NULL] ELSE slot[s]]
  BY DEF CommitRemoval
<1>2. m \in Fids
  BY <1>1 DEF Typed, StageOf
<1>3. LET f == [NoFixture EXCEPT !.status = "deleted"]
      IN  f \in Fixtures /\ f.status = "deleted" /\ f.pair = {}
  BY DEF NoFixture, Fixtures
<1>4. /\ fixture' \in [Fids -> Fixtures]
      /\ fixture'[m].status = "deleted" /\ fixture'[m].pair = {}
      /\ \A n \in Fids \ {m} : fixture'[n] = fixture[n]
  BY <1>1, <1>2, <1>3 DEF Typed, TypeOK
<1>5. ASSUME NEW s \in SlotsOf(slot, m)
      PROVE  slot'[s] \in Slots /\ slot'[s].match = NULL /\ slot'[s].place = slot[s].place
  <2>1. s \in Sids /\ slot[s] \in Slots
    BY DEF SlotsOf, Typed, TypeOK, SlotRows
  <2>2. slot'[s] = [slot[s] EXCEPT !.match = NULL]
    BY <1>1, <2>1
  <2> QED
    BY <2>1, <2>2 DEF Slots
<1>6. \A s \in Sids \ SlotsOf(slot, m) : slot'[s] = slot[s]
  BY <1>1
<1>7. slot' \in [Sids -> SlotRows]
  <2>1. slot' = [s \in Sids |-> slot'[s]]
    BY <1>1
  <2>2. \A s \in Sids : slot'[s] \in SlotRows
    BY <1>5, <1>6 DEF SlotRows, Typed, TypeOK
  <2> QED
    BY <2>1, <2>2
<1>8. Typed'
  BY <1>1, <1>4, <1>7, Finished DEF Typed, TypeOK
<1>9. NULL \notin Slots
  BY TimetableAssumption
<1> QED
  BY <1>1, <1>2, <1>4, <1>5, <1>6, <1>8, <1>9, Finished

(* A score, a correction or a new status. *)
Moved(m, status) ==
    \/ SubmitScore(m, status)
    \/ \E w \in Workers : SetStatus(w) /\ req[w].match = m /\ req[w].status = status

(* It changes nothing else of the fixtures. *)
LEMMA StatusSet ==
  ASSUME Typed, NEW m \in Present, NEW status \in {"scheduled", "live", "completed", "cancelled"},
         Moved(m, status)
  PROVE  /\ Typed' /\ UNCHANGED <<slot, shared>> /\ late \subseteq late'
         /\ \A x \in Workers : req'[x] = req[x] \/ req'[x] = Idle
         /\ m \in Fids /\ fixture'[m].status \in Existing /\ fixture'[m].status = status
         /\ fixture'[m].pair = fixture[m].pair /\ fixture'[m].stamp = fixture[m].stamp
         /\ fixture'[m].status \in Undecided => fixture[m].status \in Undecided \/ m \in late'
         /\ \A n \in Fids \ {m} : fixture'[n] = fixture[n]
<1>1. Move(m, status) /\ UNCHANGED <<slot, served, shared>>
  BY DEF Moved, SubmitScore, SetStatus, Finish
<1>2. /\ fixture' = [fixture EXCEPT ![m].status = status]
      /\ late' = late \/ late' = late \cup {m}
      /\ status \in Undecided => fixture[m].status \in Undecided \/ m \in late'
  BY <1>1 DEF Move
<1>3. /\ req' \in [Workers -> Requests] /\ (\A x \in Workers : StageOf(req[x]))'
      /\ \A x \in Workers : req'[x] = req[x] \/ req'[x] = Idle
  <2>1. CASE SubmitScore(m, status)
    BY <2>1 DEF SubmitScore, Typed, TypeOK, StageOf
  <2>2. ASSUME NEW w \in Workers, SetStatus(w)
        PROVE  /\ req' \in [Workers -> Requests] /\ (\A x \in Workers : StageOf(req[x]))'
               /\ \A x \in Workers : req'[x] = req[x] \/ req'[x] = Idle
    BY <2>2, Finished DEF SetStatus
  <2> QED
    BY <2>1, <2>2 DEF Moved
<1>4. m \in Fids /\ fixture[m] \in Fixtures /\ status \in Existing
  BY DEF Present, Typed, TypeOK, Existing, Undecided, Counted
<1>5. LET f == [fixture[m] EXCEPT !.status = status]
      IN  /\ f \in Fixtures /\ f.status = status /\ f.pair = fixture[m].pair
          /\ f.stamp = fixture[m].stamp
  BY <1>4 DEF Fixtures
<1>6. fixture' = [fixture EXCEPT ![m] = [fixture[m] EXCEPT !.status = status]]
  BY <1>2
<1>7. /\ fixture' \in [Fids -> Fixtures] /\ fixture'[m] = [fixture[m] EXCEPT !.status = status]
      /\ \A n \in Fids \ {m} : fixture'[n] = fixture[n]
  BY <1>4, <1>5, <1>6 DEF Typed, TypeOK
<1>8. Typed'
  BY <1>1, <1>2, <1>3, <1>4, <1>7 DEF Typed, TypeOK
<1> QED
  BY <1>1, <1>2, <1>3, <1>4, <1>5, <1>7, <1>8

(* The pairs a request inserts are finitely many. *)
LEMMA FinitePairs ==
  ASSUME NEW P \in SUBSET Pairs
  PROVE  IsFiniteSet(P) /\ Cardinality(P) \in Nat
<1>1. IsFiniteSet(SUBSET Teams)
  BY FS_SUBSET, TimetableAssumption
<1>2. P \in SUBSET (SUBSET Teams)
  BY DEF Pairs
<1> QED
  BY <1>1, <1>2, FS_Subset, FS_CardinalityType

(* The fixtures go in: the next n rows, each pair once. *)
LEMMA FixturesInserted ==
  ASSUME Typed, NEW w \in Workers, CommitFixtures(w),
         NEW k \in 0 .. MaxFixtures, NewFixtures = (k + 1) .. MaxFixtures
  PROVE  /\ Typed' /\ UNCHANGED <<slot, late, shared>>
         /\ req[w].pc \in {"adding", "generating"}
         /\ req'[w] = Idle /\ \A x \in Workers \ {w} : req'[x] = req[x]
         /\ \E n \in Nat :
              /\ \A m \in Fids : m \notin k + 1 .. k + n => fixture'[m] = fixture[m]
              /\ \A m \in Fids : m \in k + 1 .. k + n =>
                   /\ m \in NewFixtures
                   /\ fixture'[m].pair \in req[w].pairs /\ fixture'[m].status = "pending"
                   /\ fixture'[m].stamp = NULL
              /\ \A i, j \in Fids : /\ i \in k + 1 .. k + n /\ j \in k + 1 .. k + n
                                    /\ fixture'[i].pair = fixture'[j].pair
                                    => i = j
<1> DEFINE P == req[w].pairs
<1> DEFINE first == Cardinality(Fids \ NewFixtures)
<1> DEFINE n == Cardinality(P)
<1>1. /\ req[w].pc \in {"adding", "generating"} /\ Finish(w) /\ UNCHANGED <<slot, late, shared>>
  BY DEF CommitFixtures
<1>2. P \in SUBSET Pairs /\ n \in Nat /\ IsFiniteSet(P)
  BY FinitePairs DEF Typed, TypeOK, Requests
<1>3. first = k
  <2>1. k \in Nat /\ k <= MaxFixtures /\ MaxFixtures \in Nat
    BY TimetableAssumption
  <2>2. Fids \ NewFixtures = 1 .. k
    BY <2>1 DEF Fids
  <2>3. Cardinality(1 .. k) = k
    BY <2>1, FS_Interval
  <2> QED
    BY <2>2, <2>3
<1>4. PICK f \in [1 .. n -> P] :
        /\ \A p \in P : \E i \in 1 .. n : f[i] = p
        /\ fixture' = [m \in Fids |->
              IF m \in first + 1 .. first + n
              THEN [NoFixture EXCEPT !.pair = f[m - first], !.status = "pending"]
              ELSE fixture[m]]
  BY DEF CommitFixtures
<1>5. \A i, j \in 1 .. n : f[i] = f[j] => i = j
  <2>1. IsFiniteSet(1 .. n) /\ Cardinality(1 .. n) = n
    BY <1>2, FS_Interval
  <2>2. f \in Surjection(1 .. n, P)
    BY <1>4 DEF Surjection
  <2>3. f \in Injection(1 .. n, P)
    BY <2>1, <2>2, FS_SurjSameCardinalityImpliesInj
  <2> QED
    BY <2>3 DEF Injection, IsInjective
<1> HIDE DEF first, n, P
<1>6. \A m \in Fids : m \notin k + 1 .. k + n => fixture'[m] = fixture[m]
  BY <1>3, <1>4
<1>7. ASSUME NEW m \in Fids, m \in k + 1 .. k + n
      PROVE  /\ m - k \in 1 .. n /\ m \in NewFixtures
             /\ fixture'[m] = [NoFixture EXCEPT !.pair = f[m - k], !.status = "pending"]
             /\ fixture'[m].pair = f[m - k] /\ f[m - k] \in P
             /\ fixture'[m].status = "pending" /\ fixture'[m].stamp = NULL
  <2>1. m \in 1 .. MaxFixtures /\ k \in Nat /\ MaxFixtures \in Nat
    BY TimetableAssumption DEF Fids
  <2>2. m - k \in 1 .. n /\ m \in NewFixtures
    BY <1>2, <1>7, <2>1
  <2>3. fixture'[m] = [NoFixture EXCEPT !.pair = f[m - k], !.status = "pending"]
    BY <1>3, <1>4, <1>7
  <2> QED
    BY <1>4, <2>2, <2>3 DEF NoFixture
<1>8. ASSUME NEW i \in Fids, NEW j \in Fids, i \in k + 1 .. k + n, j \in k + 1 .. k + n,
             fixture'[i].pair = fixture'[j].pair
      PROVE  i = j
  <2>1. i - k \in 1 .. n /\ fixture'[i].pair = f[i - k]
    BY <1>7, <1>8
  <2>2. j - k \in 1 .. n /\ fixture'[j].pair = f[j - k]
    BY <1>7, <1>8
  <2>3. i - k = j - k
    BY <1>5, <1>8, <2>1, <2>2
  <2> QED
    BY <2>3 DEF Fids
<1>9. fixture' \in [Fids -> Fixtures]
  <2>1. \A m \in Fids : fixture'[m] \in Fixtures
    <3> SUFFICES ASSUME NEW m \in Fids PROVE fixture'[m] \in Fixtures
      OBVIOUS
    <3>1. CASE m \in k + 1 .. k + n
      <4>1. f[m - k] \in SUBSET Teams
        BY <1>2, <1>7, <3>1 DEF Pairs
      <4> QED
        BY <1>7, <3>1, <4>1 DEF NoFixture, Fixtures, Existing, Undecided
    <3>2. CASE m \notin k + 1 .. k + n
      BY <1>6, <3>2 DEF Typed, TypeOK
    <3> QED
      BY <3>1, <3>2
  <2> QED
    BY <1>4, <2>1
<1>10. Typed'
  BY <1>1, <1>9, Finished DEF Typed, TypeOK
<1> QED
  BY <1>1, <1>2, <1>6, <1>7, <1>8, <1>10, Finished DEF P

----------------------------------------------------------------------------
(* Locks, numbers and names *)

(* A request that holds no lock and names no fixture. *)
LEMMA LetGo ==
  ASSUME Locks, NEW w \in Workers, req'[w] = Idle, \A x \in Workers \ {w} : req'[x] = req[x]
  PROVE  Locks'
BY DEF Locks, Idle

(* Beginning a request keeps the locks exclusive. *)
LEMMA LocksBegin ==
  ASSUME Typed, Locks, NEW w \in Workers, Begin(w)
  PROVE  Locks'
<1>1. ASSUME NEW s \in Taken \cup Vacant, NEW m \in Present \cup {NULL}, NEW p \in Places,
             NEW o \in BOOLEAN, WriteSlot(w, s, m, p, o)
      PROVE  Locks'
  <2>1. /\ req'[w].pc = "writing" /\ req'[w].slot = s /\ \A x \in Workers \ {w} : req'[x] = req[x]
    BY <1>1, WriteBegun
  <2>2. \A x \in Workers : /\ req[x].pc # "writing"
                           /\ req[x].pc = "unslotting" => req[x].slot # s
    BY <1>1 DEF WriteSlot, Serving, LockedSlots
  <2> QED
    BY <2>1, <2>2 DEF Locks
<1>2. ASSUME NEW s \in Taken, DeleteSlot(w, s) PROVE Locks'
  <2>1. /\ req'[w].pc = "unslotting" /\ req'[w].slot = s /\ \A x \in Workers \ {w} : req'[x] = req[x]
    BY <1>2, DeleteBegun
  <2>2. \A x \in Workers : req[x].pc \in {"writing", "unslotting"} => req[x].slot # s
    BY <1>2 DEF DeleteSlot, Serving, LockedSlots
  <2> QED
    BY <2>1, <2>2 DEF Locks
<1>3. CASE \/ \E p \in Pairs, r \in BOOLEAN : AddManualMatch(w, p, r)
           \/ \E registered \in SUBSET Teams : GenerateRoundRobinFixtures(w, registered)
  <2>1. /\ req'[w].pc \in {"adding", "generating"} /\ \A x \in Workers \ {w} : req'[x] = req[x]
        /\ FixturesUnlocked
    BY <1>3, CreateBegun
  <2>2. \A x \in Workers : req[x].pc \notin {"adding", "generating"}
    BY <2>1 DEF FixturesUnlocked, Serving
  <2> QED
    BY <2>1, <2>2 DEF Locks
<1>4. ASSUME NEW m \in Present, DeleteManualMatch(w, m) PROVE Locks'
  <2>1. req'[w].pc = "removing" /\ \A x \in Workers \ {w} : req'[x] = req[x]
    BY <1>4, RemovalBegun
  <2> QED
    BY <2>1 DEF Locks
<1>5. ASSUME NEW m \in Present, NEW s \in {"scheduled", "live"}, CheckStatus(w, m, s) PROVE Locks'
  <2>1. req'[w].pc = "moving" /\ \A x \in Workers \ {w} : req'[x] = req[x]
    BY <1>5, MoveBegun
  <2> QED
    BY <2>1 DEF Locks
<1> QED
  BY <1>1, <1>2, <1>3, <1>4, <1>5 DEF Begin

(* The commits, as they change the numbers of the fixtures: only an        *)
(* insertion does.                                                         *)
LEMMA NumbersKept ==
  ASSUME Numbered, \A n \in Fids : fixture'[n].status = "none" <=> fixture[n].status = "none"
  PROVE  Numbered' /\ NewFixtures' = NewFixtures
<1>1. NewFixtures' = NewFixtures
  BY DEF NewFixtures
<1> QED
  BY <1>1 DEF Numbered

(* The names, after a step that keeps who is there and who was, and which  *)
(* fixture a slot names unless to no longer name any.                      *)
LEMMA NamesKept ==
  ASSUME Named, Present \subseteq Present', NewFixtures' \subseteq NewFixtures,
         \A s \in Sids : slot'[s] # NULL /\ slot'[s].match # NULL => slot[s] # NULL /\ slot'[s].match = slot[s].match,
         \A x \in Workers : req'[x].pc \in {"writing", "removing"} => req'[x] = req[x]
  PROVE  Named'
<1>1. \A s \in Taken' : slot'[s].match # NULL => slot'[s].match \in Present'
  BY DEF Named, Taken
<1>2. \A x \in Workers : req'[x].pc \in {"writing", "removing"} /\ req'[x].match # NULL
                             => req'[x].match \notin NewFixtures'
  BY DEF Named
<1> QED
  BY <1>1, <1>2 DEF Named

(* Beginning a request. *)
LEMMA BookBegin ==
  ASSUME Typed, BookInv, NEW w \in Workers, Begin(w)
  PROVE  BookInv'
<1>1. Locks'
  BY LocksBegin DEF BookInv
<1>2. UNCHANGED <<fixture, slot>>
  BY DEF Begin, WriteSlot, DeleteSlot, AddManualMatch, GenerateRoundRobinFixtures, DeleteManualMatch,
         CheckStatus
<1>3. Numbered' /\ NewFixtures' = NewFixtures /\ Present' = Present /\ Taken' = Taken
  BY <1>2 DEF BookInv, Numbered, NewFixtures, Present, Taken
<1>4. Present \cap NewFixtures = {} /\ NULL \notin Fids
  BY TimetableAssumption DEF Present, NewFixtures, Existing, Undecided, Counted, Fids
<1>5. \A x \in Workers \ {w} : req'[x] = req[x]
  BY WriteBegun, DeleteBegun, CreateBegun, RemovalBegun, MoveBegun DEF Begin
<1>6. /\ req'[w].pc \in {"writing", "removing"} => req'[w].match \in Present \cup {NULL}
      /\ req'[w].pc = "unslotting" => slot[req'[w].slot] # NULL /\ slot[req'[w].slot].match = req'[w].match
  <2>1. ASSUME NEW s \in Taken \cup Vacant, NEW m \in Present \cup {NULL}, NEW p \in Places,
               NEW o \in BOOLEAN, WriteSlot(w, s, m, p, o)
        PROVE  req'[w].pc = "writing" /\ req'[w].match \in Present \cup {NULL}
    BY <2>1, WriteBegun
  <2>2. ASSUME NEW s \in Taken, DeleteSlot(w, s)
        PROVE  /\ req'[w].pc = "unslotting" /\ slot[req'[w].slot] # NULL
               /\ slot[req'[w].slot].match = req'[w].match
    BY <2>2, DeleteBegun DEF Taken
  <2>3. ASSUME NEW m \in Present, DeleteManualMatch(w, m)
        PROVE  req'[w].pc = "removing" /\ req'[w].match \in Present \cup {NULL}
    BY <2>3, RemovalBegun
  <2>4. CASE \/ \E p \in Pairs, r \in BOOLEAN : AddManualMatch(w, p, r)
             \/ \E registered \in SUBSET Teams : GenerateRoundRobinFixtures(w, registered)
    BY <2>4, CreateBegun
  <2>5. ASSUME NEW m \in Present, NEW s \in {"scheduled", "live"}, CheckStatus(w, m, s)
        PROVE  req'[w].pc = "moving"
    BY <2>5, MoveBegun
  <2> QED
    BY <2>1, <2>2, <2>3, <2>4, <2>5 DEF Begin
<1>7. Named'
  <2>1. \A s \in Taken' : slot'[s].match # NULL => slot'[s].match \in Present'
    BY <1>2, <1>3 DEF BookInv, Named
  <2>2. \A x \in Workers : req'[x].pc \in {"writing", "removing"} /\ req'[x].match # NULL
                               => req'[x].match \notin NewFixtures'
    BY <1>3, <1>4, <1>5, <1>6 DEF BookInv, Named
  <2> QED
    BY <2>1, <2>2 DEF Named
<1>8. RowHeld'
  BY <1>2, <1>5, <1>6 DEF BookInv, RowHeld
<1> QED
  BY <1>1, <1>3, <1>7, <1>8 DEF BookInv

(* The commits of slots, and those that are rolled back. *)
LEMMA BookSlots ==
  ASSUME Typed, BookInv, NEW w \in Workers, CommitSlot(w) \/ CommitDelete(w) \/ Refused(w)
  PROVE  BookInv'
<1>1. CASE Refused(w)
  <2>1. /\ UNCHANGED <<fixture, slot>> /\ req'[w] = Idle
        /\ \A x \in Workers \ {w} : req'[x] = req[x]
    BY <1>1, SlotRefused
  <2>2. Locks'
    BY <2>1, LetGo DEF BookInv
  <2>3. Numbered' /\ NewFixtures' = NewFixtures /\ Present' = Present
    BY <2>1 DEF BookInv, Numbered, NewFixtures, Present
  <2>4. \A x \in Workers : req'[x].pc # "idle" => req'[x] = req[x]
    BY <2>1 DEF Idle
  <2>5. Named'
    BY <2>1, <2>3, <2>4, NamesKept DEF BookInv
  <2>6. RowHeld'
    BY <2>1, <2>4 DEF BookInv, RowHeld
  <2> QED
    BY <2>2, <2>3, <2>5, <2>6 DEF BookInv
<1>2. CASE CommitSlot(w) /\ (req[w].match # NULL => req[w].match \in Present)
  <2>1. PICK s, m, place : s = req[w].slot /\ m = req[w].match /\ place = req[w].place
    OBVIOUS
  <2>2. /\ req[w].pc = "writing" /\ req'[w] = Idle /\ \A x \in Workers \ {w} : req'[x] = req[x]
        /\ s \in Sids /\ slot'[s] = [match |-> m, place |-> place] /\ slot'[s] # NULL
        /\ \A t \in Sids \ {s} : slot'[t] = slot[t]
        /\ \A n \in Fids : Alike(fixture[n], fixture'[n])
    BY <1>2, <2>1, SlotWritten
  <2>3. Locks'
    BY <2>2, LetGo DEF BookInv
  <2>4. Numbered' /\ NewFixtures' = NewFixtures /\ Present' = Present
    BY <2>2, NumbersKept DEF BookInv, Alike, Present
  <2>5. \A x \in Workers : req'[x].pc # "idle" => x # w /\ req'[x] = req[x]
    BY <2>2 DEF Idle
  <2>6. Named'
    <3>1. \A t \in Taken' : slot'[t].match # NULL => slot'[t].match \in Present'
      <4> SUFFICES ASSUME NEW t \in Sids, slot'[t] # NULL, slot'[t].match # NULL
                   PROVE  slot'[t].match \in Present
        BY <2>4 DEF Taken
      <4>1. CASE t = s
        BY <1>2, <2>1, <2>2, <4>1
      <4>2. CASE t # s
        BY <2>2, <4>2 DEF BookInv, Named, Taken
      <4> QED
        BY <4>1, <4>2
    <3>2. \A x \in Workers : req'[x].pc \in {"writing", "removing"} /\ req'[x].match # NULL
                                 => req'[x].match \notin NewFixtures'
      BY <2>4, <2>5 DEF BookInv, Named
    <3> QED
      BY <3>1, <3>2 DEF Named
  <2>7. RowHeld'
    <3> SUFFICES ASSUME NEW x \in Workers, req'[x].pc = "unslotting"
                 PROVE  slot'[req'[x].slot] # NULL /\ slot'[req'[x].slot].match = req'[x].match
      BY DEF RowHeld
    <3>1. x # w /\ req'[x] = req[x] /\ req[x].slot \in Sids
      BY <2>5 DEF Typed, StageOf
    <3>2. req[x].slot # s
      BY <2>1, <2>2, <3>1 DEF BookInv, Locks
    <3> QED
      BY <2>2, <3>1, <3>2 DEF BookInv, RowHeld
  <2> QED
    BY <2>3, <2>4, <2>6, <2>7 DEF BookInv
<1>3. CASE CommitDelete(w)
  <2>1. PICK s, m : s = req[w].slot /\ m = req[w].match
    OBVIOUS
  <2>2. /\ req[w].pc = "unslotting" /\ req'[w] = Idle /\ \A x \in Workers \ {w} : req'[x] = req[x]
        /\ s \in Sids /\ slot'[s] = NULL /\ \A t \in Sids \ {s} : slot'[t] = slot[t]
        /\ \A n \in Fids : Alike(fixture[n], fixture'[n])
    BY <1>3, <2>1, SlotDeleted
  <2>3. Locks'
    BY <2>2, LetGo DEF BookInv
  <2>4. Numbered' /\ NewFixtures' = NewFixtures /\ Present' = Present
    BY <2>2, NumbersKept DEF BookInv, Alike, Present
  <2>5. \A x \in Workers : req'[x].pc # "idle" => x # w /\ req'[x] = req[x]
    BY <2>2 DEF Idle
  <2>6. Named'
    BY <2>2, <2>4, <2>5, NamesKept DEF BookInv
  <2>7. RowHeld'
    <3> SUFFICES ASSUME NEW x \in Workers, req'[x].pc = "unslotting"
                 PROVE  slot'[req'[x].slot] # NULL /\ slot'[req'[x].slot].match = req'[x].match
      BY DEF RowHeld
    <3>1. x # w /\ req'[x] = req[x] /\ req[x].slot \in Sids
      BY <2>5 DEF Typed, StageOf
    <3>2. req[x].slot # s
      BY <2>1, <2>2, <3>1 DEF BookInv, Locks
    <3> QED
      BY <2>2, <3>1, <3>2 DEF BookInv, RowHeld
  <2> QED
    BY <2>3, <2>4, <2>6, <2>7 DEF BookInv
<1> QED
  BY <1>1, <1>2, <1>3 DEF Refused

(* The commits of fixtures. *)
LEMMA BookFixtures ==
  ASSUME Typed, BookInv, NEW w \in Workers, CommitFixtures(w) \/ CommitRemoval(w)
  PROVE  BookInv'
<1>1. CASE CommitFixtures(w)
  <2>1. PICK k \in 0 .. MaxFixtures : NewFixtures = (k + 1) .. MaxFixtures
    BY DEF BookInv, Numbered
  <2>2. /\ UNCHANGED slot /\ req'[w] = Idle /\ \A x \in Workers \ {w} : req'[x] = req[x]
        /\ \E n \in Nat :
             /\ \A m \in Fids : m \notin k + 1 .. k + n => fixture'[m] = fixture[m]
             /\ \A m \in Fids : m \in k + 1 .. k + n => m \in NewFixtures /\ fixture'[m].status = "pending"
    BY <1>1, <2>1, FixturesInserted
  <2>3. PICK n \in Nat :
             /\ \A m \in Fids : m \notin k + 1 .. k + n => fixture'[m] = fixture[m]
             /\ \A m \in Fids : m \in k + 1 .. k + n => m \in NewFixtures /\ fixture'[m].status = "pending"
    BY <2>2
  <2>4. MaxFixtures \in Nat /\ k \in Nat /\ k <= MaxFixtures
    BY TimetableAssumption
  <2>5. NewFixtures' = {m \in NewFixtures : m \notin k + 1 .. k + n}
    BY <2>3 DEF NewFixtures
  <2>6. Numbered'
    <3>1. CASE k + n <= MaxFixtures
      <4>1. NewFixtures' = (k + n + 1) .. MaxFixtures
        BY <2>1, <2>4, <2>5, <3>1
      <4>2. k + n \in 0 .. MaxFixtures
        BY <2>4, <3>1
      <4> QED
        BY <4>1, <4>2 DEF Numbered
    <3>2. CASE k + n > MaxFixtures
      <4>1. NewFixtures' = (MaxFixtures + 1) .. MaxFixtures
        BY <2>1, <2>4, <2>5, <3>2
      <4>2. MaxFixtures \in 0 .. MaxFixtures
        BY <2>4
      <4> QED
        BY <4>1, <4>2 DEF Numbered
    <3> QED
      BY <2>4, <3>1, <3>2
  <2>7. Present \subseteq Present' /\ NewFixtures' \subseteq NewFixtures
    <3>1. Present \subseteq Present'
      BY <2>3 DEF Present, Existing, Undecided
    <3> QED
      BY <2>5, <3>1
  <2>8. Locks'
    BY <2>2, LetGo DEF BookInv
  <2>9. \A x \in Workers : req'[x].pc # "idle" => req'[x] = req[x]
    BY <2>2 DEF Idle
  <2>10. Named'
    BY <2>2, <2>7, <2>9, NamesKept DEF BookInv
  <2>11. RowHeld'
    BY <2>2, <2>9 DEF BookInv, RowHeld
  <2> QED
    BY <2>6, <2>8, <2>10, <2>11 DEF BookInv
<1>2. CASE CommitRemoval(w)
  <2>1. PICK m : m = req[w].match
    OBVIOUS
  <2>2. /\ req[w].pc = "removing" /\ req'[w] = Idle /\ \A x \in Workers \ {w} : req'[x] = req[x]
        /\ m \in Fids /\ SlotsOf(slot, m) \cap LockedSlots = {}
        /\ fixture'[m].status = "deleted"
        /\ \A n \in Fids \ {m} : fixture'[n] = fixture[n]
        /\ \A s \in SlotsOf(slot, m) : slot'[s] # NULL /\ slot'[s].match = NULL
        /\ \A s \in Sids \ SlotsOf(slot, m) : slot'[s] = slot[s]
    BY <1>2, <2>1, FixtureRemoved
  <2>3. NULL \notin Fids
    BY TimetableAssumption DEF Fids
  <2>4. m \notin NewFixtures
    BY <2>1, <2>2, <2>3 DEF BookInv, Named
  <2>5. Numbered' /\ NewFixtures' = NewFixtures
    BY <2>2, <2>4, NumbersKept DEF BookInv, NewFixtures
  <2>6. Locks'
    BY <2>2, LetGo DEF BookInv
  <2>7. \A x \in Workers : req'[x].pc # "idle" => x # w /\ req'[x] = req[x]
    BY <2>2 DEF Idle
  <2>8. Present' = Present \ {m}
    BY <2>2 DEF Present, Existing, Undecided, Counted
  <2>9. Named'
    <3>1. \A s \in Taken' : slot'[s].match # NULL => slot'[s].match \in Present'
      <4> SUFFICES ASSUME NEW s \in Sids, slot'[s] # NULL, slot'[s].match # NULL
                   PROVE  slot'[s].match \in Present \ {m}
        BY <2>8 DEF Taken
      <4>1. s \notin SlotsOf(slot, m) /\ slot'[s] = slot[s]
        BY <2>2
      <4> QED
        BY <4>1 DEF BookInv, Named, Taken, SlotsOf
    <3>2. \A x \in Workers : req'[x].pc \in {"writing", "removing"} /\ req'[x].match # NULL
                                 => req'[x].match \notin NewFixtures'
      BY <2>5, <2>7 DEF BookInv, Named
    <3> QED
      BY <3>1, <3>2 DEF Named
  <2>10. RowHeld'
    <3> SUFFICES ASSUME NEW x \in Workers, req'[x].pc = "unslotting"
                 PROVE  slot'[req'[x].slot] # NULL /\ slot'[req'[x].slot].match = req'[x].match
      BY DEF RowHeld
    <3>1. req'[x] = req[x] /\ req[x].slot \in Sids
      BY <2>7 DEF Typed, StageOf
    <3>2. req[x].slot \in LockedSlots
      BY <3>1 DEF LockedSlots, Serving
    <3> QED
      BY <2>2, <3>1, <3>2 DEF BookInv, RowHeld
  <2> QED
    BY <2>5, <2>6, <2>9, <2>10 DEF BookInv
<1> QED
  BY <1>1, <1>2

(* A score or a status changes no number and no name. *)
LEMMA BookScore ==
  ASSUME Typed, BookInv, NEW m \in Present,
         NEW status \in {"scheduled", "live", "completed", "cancelled"},
         Moved(m, status)
  PROVE  BookInv'
<1>1. /\ UNCHANGED slot /\ fixture'[m].status \in Existing
      /\ \A x \in Workers : req'[x] = req[x] \/ req'[x] = Idle
      /\ \A n \in Fids \ {m} : fixture'[n] = fixture[n]
  BY StatusSet
<1>2. \A n \in Fids : /\ fixture'[n].status = "none" <=> fixture[n].status = "none"
                      /\ fixture'[n].status \in Existing <=> fixture[n].status \in Existing
  BY <1>1 DEF Present, Existing, Undecided, Counted
<1>3. Numbered' /\ NewFixtures' = NewFixtures /\ Present' = Present
  BY <1>2, NumbersKept DEF BookInv, Present
<1>4. Named'
  BY <1>1, <1>3, AtRest, NamesKept DEF BookInv
<1>5. Locks' /\ RowHeld'
  BY <1>1, AtRest DEF BookInv, Locks, RowHeld
<1> QED
  BY <1>3, <1>4, <1>5 DEF BookInv

(* Every step is one of these. *)
LEMMA Steps ==
  ASSUME Typed, Next
  PROVE  \/ \E w \in Workers : \/ Begin(w) \/ CommitSlot(w) \/ CommitDelete(w)
                              \/ CommitFixtures(w) \/ CommitRemoval(w) \/ Refused(w)
         \/ \E m \in Present, s \in {"scheduled", "live", "completed", "cancelled"} : Moved(m, s)
<1>1. ASSUME NEW w \in Workers, SetStatus(w), req[w].match \in Present
      PROVE  \E m \in Present, s \in {"scheduled", "live", "completed", "cancelled"} : Moved(m, s)
  <2>1. req[w].status \in {"scheduled", "live"}
    BY <1>1 DEF SetStatus, Typed, StageOf
  <2>2. Moved(req[w].match, req[w].status)
    BY <1>1 DEF Moved
  <2> QED
    BY <1>1, <2>1, <2>2
<1>2. ASSUME NEW w \in Workers, SetStatus(w), req[w].match \notin Present PROVE Refused(w)
  BY <1>2 DEF Refused
<1>3. ASSUME NEW m \in Present, NEW s \in {"live", "completed", "cancelled"}, SubmitScore(m, s)
      PROVE  Moved(m, s)
  BY <1>3 DEF Moved
<1> QED
  BY <1>1, <1>2, <1>3 DEF Next, Begin

(* Every step, and none, keeps the types, the locks, the numbers and the   *)
(* names.                                                                  *)
LEMMA BookStep == Typed /\ BookInv /\ [Next]_vars => Typed' /\ BookInv'
<1> SUFFICES ASSUME Typed, BookInv, [Next]_vars PROVE Typed' /\ BookInv'
  OBVIOUS
<1>1. ASSUME NEW w \in Workers, Begin(w) PROVE Typed' /\ BookInv'
  <2>1. Typed'
    BY <1>1, WriteBegun, DeleteBegun, CreateBegun, RemovalBegun, MoveBegun DEF Begin
  <2> QED
    BY <1>1, <2>1, BookBegin
<1>2. ASSUME NEW w \in Workers, CommitSlot(w) PROVE Typed' /\ BookInv'
  <2>1. Typed'
    <3>1. CASE req[w].match # NULL /\ req[w].match \notin Present
      BY <1>2, <3>1, SlotRefused DEF Refused
    <3>2. CASE req[w].match # NULL => req[w].match \in Present
      BY <1>2, <3>2, SlotWritten
    <3> QED
      BY <3>1, <3>2
  <2> QED
    BY <1>2, <2>1, BookSlots
<1>3. ASSUME NEW w \in Workers, CommitDelete(w) PROVE Typed' /\ BookInv'
  BY <1>3, SlotDeleted, BookSlots
<1>4. ASSUME NEW w \in Workers, CommitFixtures(w) PROVE Typed' /\ BookInv'
  BY <1>4, FixturesInserted, BookFixtures DEF BookInv, Numbered
<1>5. ASSUME NEW w \in Workers, CommitRemoval(w) PROVE Typed' /\ BookInv'
  BY <1>5, FixtureRemoved, BookFixtures
<1>6. ASSUME NEW m \in Present, NEW s \in {"scheduled", "live", "completed", "cancelled"},
             Moved(m, s)
      PROVE  Typed' /\ BookInv'
  BY <1>6, StatusSet, BookScore
<1>8. ASSUME NEW w \in Workers, Refused(w) PROVE Typed' /\ BookInv'
  BY <1>8, SlotRefused, BookSlots
<1>7. CASE UNCHANGED vars
  <2>1. Typed'
    BY <1>7 DEF Typed, TypeOK, vars, StageOf
  <2>2. Locks' /\ RowHeld' /\ Numbered' /\ Named'
    BY <1>7 DEF vars, BookInv, Locks, RowHeld, Numbered, Named, NewFixtures, Present, Taken
  <2> QED
    BY <2>1, <2>2 DEF BookInv
<1> QED
  BY <1>1, <1>2, <1>3, <1>4, <1>5, <1>6, <1>7, <1>8, Steps

(* The empty schedule. *)
LEMMA InitBooks == Init => Typed /\ BookInv
<1> SUFFICES ASSUME Init PROVE Typed /\ BookInv
  OBVIOUS
<1>1. \A w \in Workers : req[w] = Idle /\ req[w].pc = "idle"
  BY AtRest DEF Init
<1>2. Typed
  BY <1>1, AtRest, TimetableAssumption DEF Init, Typed, TypeOK, SlotRows
<1>3. NewFixtures = Fids /\ 0 \in 0 .. MaxFixtures
  BY TimetableAssumption DEF Init, NewFixtures, NoFixture
<1>4. Numbered
  BY <1>3 DEF Numbered, Fids
<1>5. Taken = {}
  BY DEF Init, Taken
<1> QED
  BY <1>1, <1>2, <1>4, <1>5 DEF BookInv, Locks, RowHeld, Named

(* Fixtures, slots and requests are well typed, whatever is in flight:     *)
(* statuses stay within the enum, stamps name a court and a time.          *)
THEOREM TimetableTypeCorrect == Spec => []TypeOK
<1>1. Typed => TypeOK
  BY DEF Typed
<1> QED
  BY <1>1, InitBooks, BookStep, PTL DEF Spec

(* The locks, the numbers and the names hold throughout. *)
LEMMA BooksHold == Spec => [](Typed /\ BookInv)
BY InitBooks, BookStep, PTL DEF Spec

----------------------------------------------------------------------------
(* Courts *)

(* A court stays free while no other slot is made or moved. *)
LEMMA CourtsKept ==
  ASSUME CourtChecked,
         \A t \in Sids : slot'[t] # NULL => slot[t] # NULL /\ slot'[t].place = slot[t].place,
         \A x \in Workers : req'[x].pc = "writing" => req'[x] = req[x]
  PROVE  CourtChecked'
<1> SUFFICES ASSUME NEW x \in Workers, req'[x].pc = "writing",
                    NEW t \in Sids, slot'[t] # NULL, t # req'[x].slot,
                    slot'[t].place[1] = req'[x].place[1]
             PROVE  ~Closer(slot'[t].place[2], req'[x].place[2], 0)
  BY DEF CourtChecked, CourtFree, Taken
<1> QED
  BY DEF CourtChecked, CourtFree, Taken

(* Every step keeps what WriteSlot found of the court: no one else writes. *)
LEMMA CourtStep == Typed /\ BookInv /\ CourtChecked /\ [Next]_vars => CourtChecked'
<1> SUFFICES ASSUME Typed, BookInv, CourtChecked, [Next]_vars PROVE CourtChecked'
  OBVIOUS
<1>1. ASSUME NEW w \in Workers, Begin(w) PROVE CourtChecked'
  <2>1. UNCHANGED slot /\ \A x \in Workers \ {w} : req'[x] = req[x]
    BY <1>1, WriteBegun, DeleteBegun, CreateBegun, RemovalBegun, MoveBegun DEF Begin
  <2>2. ASSUME NEW s \in Taken \cup Vacant, NEW m \in Present \cup {NULL}, NEW p \in Places,
               NEW o \in BOOLEAN, WriteSlot(w, s, m, p, o)
        PROVE  CourtChecked'
    <3>1. req'[w].slot = s /\ req'[w].place = p
      BY <2>2, WriteBegun
    <3>2. CourtFree(s, p)
      BY <2>2 DEF WriteSlot
    <3> QED
      BY <2>1, <3>1, <3>2 DEF CourtChecked, CourtFree, Taken
  <2>3. ASSUME req'[w].pc # "writing" PROVE CourtChecked'
    BY <2>1, <2>3, CourtsKept
  <2> QED
    BY <1>1, <2>2, <2>3, DeleteBegun, CreateBegun, RemovalBegun, MoveBegun DEF Begin
<1>2. ASSUME NEW w \in Workers, CommitSlot(w) PROVE CourtChecked'
  <2>1. \A x \in Workers : req'[x].pc # "writing"
    <3>1. req[w].pc = "writing" /\ Finish(w)
      BY <1>2 DEF CommitSlot
    <3>2. req'[w] = Idle /\ \A x \in Workers \ {w} : req'[x] = req[x]
      BY <3>1, Finished
    <3> QED
      BY <3>1, <3>2, AtRest DEF BookInv, Locks
  <2> QED
    BY <2>1 DEF CourtChecked
<1>3. ASSUME NEW w \in Workers, CommitDelete(w) PROVE CourtChecked'
  <2>1. PICK s, m : s = req[w].slot /\ m = req[w].match
    OBVIOUS
  <2>2. /\ req'[w] = Idle /\ \A x \in Workers \ {w} : req'[x] = req[x]
        /\ slot'[s] = NULL /\ \A t \in Sids \ {s} : slot'[t] = slot[t]
    BY <1>3, <2>1, SlotDeleted
  <2> QED
    BY <2>2, CourtsKept, AtRest
<1>4. ASSUME NEW w \in Workers, CommitFixtures(w) PROVE CourtChecked'
  <2>1. UNCHANGED slot /\ req'[w] = Idle /\ \A x \in Workers \ {w} : req'[x] = req[x]
    BY <1>4, FixturesInserted DEF BookInv, Numbered
  <2> QED
    BY <2>1, CourtsKept, AtRest
<1>5. ASSUME NEW w \in Workers, CommitRemoval(w) PROVE CourtChecked'
  <2>1. PICK m : m = req[w].match
    OBVIOUS
  <2>2. /\ req'[w] = Idle /\ \A x \in Workers \ {w} : req'[x] = req[x]
        /\ \A s \in SlotsOf(slot, m) : slot'[s].place = slot[s].place
        /\ \A s \in Sids \ SlotsOf(slot, m) : slot'[s] = slot[s]
    BY <1>5, <2>1, FixtureRemoved
  <2>3. \A t \in Sids : slot'[t] # NULL => slot[t] # NULL /\ slot'[t].place = slot[t].place
    BY <2>2 DEF SlotsOf
  <2> QED
    BY <2>2, <2>3, CourtsKept, AtRest
<1>6. ASSUME UNCHANGED slot, \A x \in Workers : req'[x] = req[x] \/ req'[x] = Idle PROVE CourtChecked'
  BY <1>6, AtRest, CourtsKept
<1>7. ASSUME NEW m \in Present, NEW s \in {"scheduled", "live", "completed", "cancelled"}, Moved(m, s)
      PROVE  CourtChecked'
  BY <1>6, <1>7, StatusSet
<1>8. ASSUME NEW w \in Workers, Refused(w) PROVE CourtChecked'
  BY <1>6, <1>8, SlotRefused
<1>9. CASE UNCHANGED vars
  BY <1>6, <1>9 DEF vars
<1> QED
  BY <1>1, <1>2, <1>3, <1>4, <1>5, <1>7, <1>8, <1>9, Steps

(* Before anything is written, nothing was checked. *)
LEMMA InitCourts == Init => CourtChecked
BY AtRest DEF Init, CourtChecked

(* What WriteSlot found of the court holds when it commits. *)
LEMMA CourtsHold == Spec => []CourtChecked
BY InitCourts, CourtStep, BooksHold, PTL DEF Spec

(* The schedule implements a calendar of courts: each commit makes, moves  *)
(* or gives up one booking, and no two bookings of a court overlap         *)
(* (schedule/repository.go: WriteSlot takes the tournament's advisory      *)
(* lock before it validates, and holds it until the commit).               *)
THEOREM ScheduleIsCalendar == Spec => CourtsImplementCalendar
<1>1. Init => Calendar!CalendarInit
  BY DEF Init, Calendar!CalendarInit, Booked
<1>2. Typed /\ BookInv /\ CourtChecked /\ [Next]_vars => [Calendar!CalendarNext]_Booked
  <2> SUFFICES ASSUME Typed, BookInv, CourtChecked, [Next]_vars
               PROVE  [Calendar!CalendarNext]_Booked
    OBVIOUS
  <2>1. ASSUME \A s \in Sids : /\ slot'[s] = NULL <=> slot[s] = NULL
                               /\ slot[s] # NULL => slot'[s].place = slot[s].place
        PROVE  UNCHANGED Booked
    BY <2>1 DEF Booked
  <2>2. ASSUME NEW w \in Workers, CommitSlot(w) PROVE [Calendar!CalendarNext]_Booked
    <3>1. CASE req[w].match # NULL /\ req[w].match \notin Present
      BY <2>1, <2>2, <3>1, SlotRefused DEF Refused
    <3>2. CASE req[w].match # NULL => req[w].match \in Present
      <4>1. PICK s, m, place : s = req[w].slot /\ m = req[w].match /\ place = req[w].place
        OBVIOUS
      <4>2. /\ req[w].pc = "writing" /\ s \in Sids /\ place \in Places
            /\ slot'[s] = [match |-> m, place |-> place] /\ slot'[s] # NULL
            /\ \A t \in Sids \ {s} : slot'[t] = slot[t]
        BY <2>2, <3>2, <4>1, SlotWritten
      <4>3. CourtFree(s, place)
        BY <4>1, <4>2 DEF CourtChecked
      <4>4. Calendar!FreeBut(s, place)
        <5> SUFFICES ASSUME NEW d \in Sids \ {s}, Booked[d] # NULL, Booked[d][1] = place[1]
                     PROVE  ~Calendar!Overlap(Booked[d][2], place[2])
          BY DEF Calendar!FreeBut
        <5>1. slot[d] # NULL /\ Booked[d] = slot[d].place /\ slot[d] \in Slots
          BY DEF Booked, Typed, TypeOK, SlotRows
        <5>2. slot[d].place[2] \in Nat /\ place[2] \in Nat /\ Length \in Nat
          BY <4>2, <5>1, TimetableAssumption DEF Slots, Places
        <5>3. ~Closer(slot[d].place[2], place[2], 0)
          BY <4>3, <5>1 DEF CourtFree, Taken
        <5> QED
          BY <5>1, <5>2, <5>3 DEF Closer, Calendar!Overlap
      <4>5. Booked' = [Booked EXCEPT ![s] = place]
        <5>1. slot'[s].place = place
          BY <4>2
        <5>2. Booked' = [t \in Sids |-> IF slot'[t] = NULL THEN NULL ELSE slot'[t].place]
          BY DEF Booked
        <5>3. Booked = [t \in Sids |-> IF slot[t] = NULL THEN NULL ELSE slot[t].place]
          BY DEF Booked
        <5>4. \A t \in Sids : Booked'[t] = IF t = s THEN place ELSE Booked[t]
          BY <4>2, <5>1, <5>2, <5>3
        <5> QED
          BY <4>2, <5>2, <5>3, <5>4
      <4>6. Calendar!Book(s, place)
        BY <4>4, <4>5 DEF Calendar!Book
      <4> QED
        BY <4>2, <4>6 DEF Calendar!CalendarNext, Places
    <3> QED
      BY <3>1, <3>2
  <2>3. ASSUME NEW w \in Workers, CommitDelete(w) PROVE [Calendar!CalendarNext]_Booked
    <3>1. PICK s, m : s = req[w].slot /\ m = req[w].match
      OBVIOUS
    <3>2. s \in Sids /\ slot'[s] = NULL /\ \A t \in Sids \ {s} : slot'[t] = slot[t]
      BY <2>3, <3>1, SlotDeleted
    <3>3. Booked' = [Booked EXCEPT ![s] = NULL]
      BY <3>2 DEF Booked
    <3> QED
      BY <3>2, <3>3 DEF Calendar!CalendarNext, Calendar!GiveUp
  <2>4. ASSUME NEW w \in Workers, CommitRemoval(w) PROVE UNCHANGED Booked
    <3>1. PICK m : m = req[w].match
      OBVIOUS
    <3>2. /\ \A s \in SlotsOf(slot, m) : slot'[s] # NULL /\ slot'[s].place = slot[s].place
          /\ \A s \in Sids \ SlotsOf(slot, m) : slot'[s] = slot[s]
      BY <2>4, <3>1, FixtureRemoved
    <3> QED
      BY <2>1, <3>2 DEF SlotsOf
  <2>5. ASSUME UNCHANGED slot PROVE UNCHANGED Booked
    BY <2>1, <2>5
  <2>6. ASSUME NEW w \in Workers, Begin(w) \/ CommitFixtures(w) PROVE UNCHANGED slot
    BY <2>6 DEF Begin, WriteSlot, DeleteSlot, AddManualMatch, GenerateRoundRobinFixtures,
                DeleteManualMatch, CheckStatus, CommitFixtures
  <2>7. ASSUME NEW m \in Present, NEW s \in {"scheduled", "live", "completed", "cancelled"}, Moved(m, s)
        PROVE  UNCHANGED slot
    BY <2>7, StatusSet
  <2>8. ASSUME NEW w \in Workers, Refused(w) PROVE UNCHANGED slot
    BY <2>8, SlotRefused
  <2> QED
    BY <2>2, <2>3, <2>4, <2>5, <2>6, <2>7, <2>8, Steps DEF vars
<1> QED
  BY <1>1, <1>2, BooksHold, CourtsHold, PTL DEF Spec, CourtsImplementCalendar, Calendar!CalendarSpec

----------------------------------------------------------------------------
(* Teams *)

TeamInv == TeamsChecked /\ NoDoubleBooking

(* A step that makes and moves no slot, and after which every fixture that *)
(* counts counted before, keeps the teams apart.                           *)
LEMMA TeamsKept ==
  ASSUME BookInv, TeamInv,
         \A t \in Sids : slot'[t] # NULL => /\ slot[t] # NULL /\ slot'[t].place = slot[t].place
                                            /\ slot'[t].match \in {slot[t].match, NULL},
         \A n \in Present : n \in Present' \ late' =>
            /\ n \notin late /\ fixture'[n].pair = fixture[n].pair
            /\ fixture'[n].status \in Undecided => fixture[n].status \in Undecided,
         \A x \in Workers : req'[x].pc = "writing" =>
            /\ req'[x] = req[x]
            /\ req[x].match # NULL => fixture'[req[x].match].pair \subseteq fixture[req[x].match].pair
  PROVE  TeamInv'
<1>1. NULL \notin Fids /\ Present' \subseteq Fids
  BY TimetableAssumption DEF Fids, Present
<1>2. ASSUME NEW t \in Taken', slot'[t].match \in Present' \ late',
             fixture'[slot'[t].match].status \in Undecided
      PROVE  /\ t \in Taken /\ slot'[t].place = slot[t].place /\ slot'[t].match = slot[t].match
             /\ slot[t].match \in Present \ late
             /\ fixture[slot[t].match].status \in Undecided
             /\ fixture'[slot[t].match].pair = fixture[slot[t].match].pair
  <2>1. t \in Sids /\ slot[t] # NULL /\ slot'[t].place = slot[t].place /\ slot'[t].match = slot[t].match
    BY <1>1, <1>2 DEF Taken
  <2>2. t \in Taken /\ slot[t].match \in Present
    BY <1>1, <1>2, <2>1 DEF Taken, BookInv, Named
  <2> QED
    BY <1>2, <2>1, <2>2
<1>3. TeamsChecked'
  <2> SUFFICES ASSUME NEW x \in Workers, req'[x].pc = "writing", req'[x].match # NULL,
                      NEW t \in Taken', t # req'[x].slot,
                      slot'[t].match \in Present' \ late',
                      fixture'[slot'[t].match].status \in Undecided,
                      fixture'[slot'[t].match].pair \cap fixture'[req'[x].match].pair # {}
               PROVE  ~Closer(slot'[t].place[2], req'[x].place[2], 0)
    BY DEF TeamsChecked
  <2>1. req'[x] = req[x] /\ fixture'[req[x].match].pair \subseteq fixture[req[x].match].pair
    OBVIOUS
  <2>2. /\ t \in Taken /\ slot'[t].place = slot[t].place /\ slot'[t].match = slot[t].match
        /\ slot[t].match \in Present \ late
        /\ fixture[slot[t].match].status \in Undecided
        /\ fixture'[slot[t].match].pair = fixture[slot[t].match].pair
    BY <1>2
  <2>3. fixture[slot[t].match].pair \cap fixture[req[x].match].pair # {}
    BY <2>1, <2>2
  <2> QED
    BY <2>1, <2>2, <2>3 DEF TeamInv, TeamsChecked
<1>4. NoDoubleBooking'
  <2> SUFFICES ASSUME NEW s \in Taken', NEW t \in Taken', NEW m \in Present' \ late',
                      NEW n \in Present' \ late',
                      s # t, slot'[s].match = m, slot'[t].match = n,
                      fixture'[m].status \in Undecided, fixture'[n].status \in Undecided,
                      fixture'[m].pair \cap fixture'[n].pair # {}
               PROVE  ~Closer(slot'[s].place[2], slot'[t].place[2], 0)
    BY DEF NoDoubleBooking
  <2>1. /\ s \in Taken /\ slot'[s].place = slot[s].place /\ slot[s].match = m
        /\ m \in Present \ late /\ fixture[m].status \in Undecided /\ fixture'[m].pair = fixture[m].pair
    BY <1>2
  <2>2. /\ t \in Taken /\ slot'[t].place = slot[t].place /\ slot[t].match = n
        /\ n \in Present \ late /\ fixture[n].status \in Undecided /\ fixture'[n].pair = fixture[n].pair
    BY <1>2
  <2> QED
    BY <2>1, <2>2 DEF TeamInv, NoDoubleBooking
<1> QED
  BY <1>3, <1>4 DEF TeamInv

(* WriteSlot begins: it has found the teams free, with the rest buffer or  *)
(* without.                                                                *)
LEMMA TeamsBegin ==
  ASSUME Typed, BookInv, TeamInv, NEW w \in Workers,
         NEW s \in Taken \cup Vacant, NEW m \in Present \cup {NULL}, NEW p \in Places,
         NEW o \in BOOLEAN, WriteSlot(w, s, m, p, o)
  PROVE  TeamInv'
<1>1. /\ UNCHANGED <<fixture, slot, late>> /\ \A x \in Workers \ {w} : req'[x] = req[x]
      /\ req'[w].slot = s /\ req'[w].match = m /\ req'[w].place = p
  BY WriteBegun
<1>2. Present' = Present /\ Taken' = Taken
  BY <1>1 DEF Present, Taken
<1>3. NULL \notin Fids /\ Present \subseteq Fids
  BY TimetableAssumption DEF Fids, Present
<1>4. ASSUME m # NULL, NEW t \in Taken \ {s}, slot[t].match \in Present,
             fixture[slot[t].match].status \in Undecided,
             fixture[slot[t].match].pair \cap fixture[m].pair # {}
      PROVE  ~Closer(slot[t].place[2], p[2], 0)
  <2>1. ~Closer(slot[t].place[2], p[2], IF o THEN 0 ELSE Rest)
    BY <1>3, <1>4 DEF WriteSlot, TeamsFree
  <2>2. slot[t] \in Slots
    BY DEF Taken, Typed, TypeOK, SlotRows
  <2>3. slot[t].place[2] \in Nat /\ p[2] \in Nat /\ Length \in Nat /\ Rest \in Nat
    BY <2>2, TimetableAssumption DEF Slots, Places
  <2> QED
    BY <2>1, <2>3 DEF Closer
<1>5. TeamsChecked'
  <2> SUFFICES ASSUME NEW x \in Workers, req'[x].pc = "writing", req'[x].match # NULL,
                      NEW t \in Taken, t # req'[x].slot,
                      slot[t].match \in Present \ late,
                      fixture[slot[t].match].status \in Undecided,
                      fixture[slot[t].match].pair \cap fixture[req'[x].match].pair # {}
               PROVE  ~Closer(slot[t].place[2], req'[x].place[2], 0)
    BY <1>1, <1>2 DEF TeamsChecked
  <2>1. CASE x = w
    BY <1>1, <1>4, <2>1
  <2>2. CASE x # w
    BY <1>1, <2>2 DEF TeamInv, TeamsChecked
  <2> QED
    BY <2>1, <2>2
<1>6. NoDoubleBooking'
  <2>1. fixture' = fixture /\ slot' = slot /\ late' = late
    BY <1>1
  <2>2. NoDoubleBooking
    BY DEF TeamInv
  <2> QED
    BY <1>2, <2>1, <2>2 DEF NoDoubleBooking
<1> QED
  BY <1>5, <1>6 DEF TeamInv

(* WriteSlot commits, and what it found still holds. *)
LEMMA TeamsCommit ==
  ASSUME Typed, BookInv, TeamInv, NEW w \in Workers, CommitSlot(w),
         req[w].match # NULL => req[w].match \in Present
  PROVE  TeamInv'
<1>1. PICK s, m, place : s = req[w].slot /\ m = req[w].match /\ place = req[w].place
  OBVIOUS
<1>2. /\ req[w].pc = "writing" /\ req'[w] = Idle /\ \A x \in Workers \ {w} : req'[x] = req[x]
      /\ s \in Sids /\ m \in Fids \cup {NULL} /\ place \in Places /\ late' = late
      /\ slot'[s] = [match |-> m, place |-> place] /\ slot'[s] # NULL
      /\ \A t \in Sids \ {s} : slot'[t] = slot[t]
      /\ \A n \in Fids : Alike(fixture[n], fixture'[n])
  BY <1>1, SlotWritten
<1>3. \A x \in Workers : req'[x].pc # "writing"
  BY <1>2, AtRest DEF BookInv, Locks
<1>4. Present' = Present /\ Present \subseteq Fids /\ NULL \notin Fids
  BY <1>2, TimetableAssumption DEF Alike, Present, Fids
<1>5. slot'[s].match = m /\ slot'[s].place = place
  BY <1>2
<1>6. ASSUME m # NULL, NEW t \in Taken \ {s}, slot[t].match \in Present \ late,
             fixture[slot[t].match].status \in Undecided,
             fixture[slot[t].match].pair \cap fixture[m].pair # {}
      PROVE  ~Closer(slot[t].place[2], place[2], 0) /\ ~Closer(place[2], slot[t].place[2], 0)
  <2>1. ~Closer(slot[t].place[2], place[2], 0)
    BY <1>1, <1>2, <1>6 DEF TeamInv, TeamsChecked
  <2> QED
    BY <2>1 DEF Closer
<1>7. NoDoubleBooking'
  <2> SUFFICES ASSUME NEW a \in Taken', NEW b \in Taken', NEW i \in Present \ late,
                      NEW j \in Present \ late,
                      a # b, slot'[a].match = i, slot'[b].match = j,
                      fixture'[i].status \in Undecided, fixture'[j].status \in Undecided,
                      fixture'[i].pair \cap fixture'[j].pair # {}
               PROVE  ~Closer(slot'[a].place[2], slot'[b].place[2], 0)
    BY <1>2, <1>4 DEF NoDoubleBooking
  <2>1. /\ fixture[i].status \in Undecided /\ fixture[j].status \in Undecided
        /\ fixture[i].pair \cap fixture[j].pair # {}
    BY <1>2, <1>4 DEF Alike
  <2>2. \A t \in Taken' : t # s => t \in Taken /\ slot'[t] = slot[t]
    BY <1>2 DEF Taken
  <2>3. CASE a = s
    <3>1. b \in Taken \ {s} /\ slot'[b] = slot[b] /\ m = i /\ m # NULL
      BY <1>4, <1>5, <2>2, <2>3
    <3> QED
      BY <1>5, <1>6, <2>1, <2>3, <3>1
  <2>4. CASE b = s
    <3>1. a \in Taken \ {s} /\ slot'[a] = slot[a] /\ m = j /\ m # NULL
      BY <1>4, <1>5, <2>2, <2>4
    <3> QED
      BY <1>5, <1>6, <2>1, <2>4, <3>1
  <2>5. CASE a # s /\ b # s
    BY <2>1, <2>2, <2>5 DEF TeamInv, NoDoubleBooking
  <2> QED
    BY <2>3, <2>4, <2>5
<1> QED
  BY <1>3, <1>7 DEF TeamInv, TeamsChecked

(* Every step, and none, keeps the teams apart. *)
LEMMA TeamStep == Typed /\ BookInv /\ TeamInv /\ [Next]_vars => TeamInv'
<1> SUFFICES ASSUME Typed, BookInv, TeamInv, [Next]_vars PROVE TeamInv'
  OBVIOUS
<1>0. Present \subseteq Fids /\ NULL \notin Fids
  BY TimetableAssumption DEF Fids, Present
<1>1. ASSUME UNCHANGED <<fixture, slot, late>>, \A x \in Workers : req'[x].pc = "writing" => req'[x] = req[x]
      PROVE  TeamInv'
  BY <1>1, TeamsKept
<1>9. ASSUME NEW w \in Workers, Refused(w) PROVE TeamInv'
  BY <1>1, <1>9, SlotRefused, AtRest
<1>2. ASSUME NEW w \in Workers, Begin(w) PROVE TeamInv'
  <2>1. ASSUME req'[w].pc # "writing", UNCHANGED <<fixture, slot, late>>,
               \A x \in Workers \ {w} : req'[x] = req[x]
        PROVE  TeamInv'
    BY <1>1, <2>1
  <2> QED
    BY <1>2, <2>1, TeamsBegin, DeleteBegun, CreateBegun, RemovalBegun, MoveBegun DEF Begin
<1>3. ASSUME NEW w \in Workers, CommitSlot(w) PROVE TeamInv'
  <2>1. CASE req[w].match # NULL /\ req[w].match \notin Present
    BY <1>3, <1>9, <2>1 DEF Refused
  <2>2. CASE req[w].match # NULL => req[w].match \in Present
    BY <1>3, <2>2, TeamsCommit
  <2> QED
    BY <2>1, <2>2
<1>4. ASSUME NEW w \in Workers, CommitDelete(w) PROVE TeamInv'
  <2>1. PICK s, m : s = req[w].slot /\ m = req[w].match
    OBVIOUS
  <2>2. /\ UNCHANGED late /\ req'[w] = Idle /\ \A x \in Workers \ {w} : req'[x] = req[x]
        /\ slot'[s] = NULL /\ \A t \in Sids \ {s} : slot'[t] = slot[t]
        /\ \A n \in Fids : Alike(fixture[n], fixture'[n])
    BY <1>4, <2>1, SlotDeleted
  <2>3. \A x \in Workers : req'[x].pc = "writing" => req'[x] = req[x]
    BY <2>2, AtRest
  <2>4. \A x \in Workers : req[x].match # NULL => req[x].match \in Fids
    BY DEF Typed, TypeOK, Requests
  <2>5. \A x \in Workers : req'[x].pc = "writing" =>
            /\ req'[x] = req[x]
            /\ req[x].match # NULL => fixture'[req[x].match].pair \subseteq fixture[req[x].match].pair
    BY <2>2, <2>3, <2>4 DEF Alike
  <2>6. \A n \in Present : n \in Present' \ late' =>
            /\ n \notin late /\ fixture'[n].pair = fixture[n].pair
            /\ fixture'[n].status \in Undecided => fixture[n].status \in Undecided
    BY <1>0, <2>2 DEF Alike
  <2>7. \A t \in Sids : slot'[t] # NULL => /\ slot[t] # NULL /\ slot'[t].place = slot[t].place
                                           /\ slot'[t].match \in {slot[t].match, NULL}
    BY <2>2
  <2> QED
    BY <2>5, <2>6, <2>7, TeamsKept
<1>5. ASSUME NEW w \in Workers, CommitFixtures(w) PROVE TeamInv'
  <2>1. PICK k \in 0 .. MaxFixtures : NewFixtures = (k + 1) .. MaxFixtures
    BY DEF BookInv, Numbered
  <2>2. /\ UNCHANGED <<slot, late>> /\ req'[w] = Idle /\ \A x \in Workers \ {w} : req'[x] = req[x]
        /\ \A m \in Fids \ NewFixtures : fixture'[m] = fixture[m]
    BY <1>5, <2>1, FixturesInserted
  <2>3. \A x \in Workers : req'[x].pc = "writing" => req'[x] = req[x]
    BY <2>2, AtRest
  <2>4. \A x \in Workers : req[x].pc = "writing" /\ req[x].match # NULL => req[x].match \in Fids \ NewFixtures
    BY DEF Typed, TypeOK, Requests, BookInv, Named
  <2>5. Present \cap NewFixtures = {}
    BY DEF Present, NewFixtures, Existing, Undecided, Counted
  <2> QED
    BY <1>0, <2>2, <2>3, <2>4, <2>5, TeamsKept
<1>6. ASSUME NEW w \in Workers, CommitRemoval(w) PROVE TeamInv'
  <2>1. PICK m : m = req[w].match
    OBVIOUS
  <2>2. /\ UNCHANGED late /\ req'[w] = Idle /\ \A x \in Workers \ {w} : req'[x] = req[x]
        /\ m \in Fids /\ fixture'[m].status = "deleted" /\ fixture'[m].pair = {}
        /\ \A n \in Fids \ {m} : fixture'[n] = fixture[n]
        /\ \A s \in SlotsOf(slot, m) : slot'[s].match = NULL /\ slot'[s].place = slot[s].place
        /\ \A s \in Sids \ SlotsOf(slot, m) : slot'[s] = slot[s]
    BY <1>6, <2>1, FixtureRemoved
  <2>3. \A x \in Workers : req'[x].pc = "writing" => req'[x] = req[x]
    BY <2>2, AtRest
  <2>4. \A x \in Workers : req[x].match # NULL => req[x].match \in Fids
    BY DEF Typed, TypeOK, Requests
  <2>5. m \notin Present'
    BY <2>2 DEF Present, Existing, Undecided, Counted
  <2>6. \A t \in Sids : slot'[t] # NULL => /\ slot[t] # NULL /\ slot'[t].place = slot[t].place
                                           /\ slot'[t].match \in {slot[t].match, NULL}
    BY <2>2 DEF SlotsOf
  <2>7. \A x \in Workers : req'[x].pc = "writing" =>
            /\ req'[x] = req[x]
            /\ req[x].match # NULL => fixture'[req[x].match].pair \subseteq fixture[req[x].match].pair
    BY <2>2, <2>3, <2>4
  <2>8. \A n \in Present : n \in Present' \ late' =>
            /\ n \notin late /\ fixture'[n].pair = fixture[n].pair
            /\ fixture'[n].status \in Undecided => fixture[n].status \in Undecided
    BY <1>0, <2>2, <2>5
  <2> QED
    BY <2>6, <2>7, <2>8, TeamsKept
<1>7. ASSUME NEW m \in Present, NEW s \in {"scheduled", "live", "completed", "cancelled"},
             Moved(m, s)
      PROVE  TeamInv'
  <2>1. /\ UNCHANGED slot /\ late \subseteq late' /\ m \in Fids
        /\ \A x \in Workers : req'[x] = req[x] \/ req'[x] = Idle
        /\ fixture'[m].pair = fixture[m].pair
        /\ fixture'[m].status \in Undecided => fixture[m].status \in Undecided \/ m \in late'
        /\ \A n \in Fids \ {m} : fixture'[n] = fixture[n]
    BY <1>7, StatusSet
  <2>2. \A x \in Workers : req[x].match # NULL => req[x].match \in Fids
    BY DEF Typed, TypeOK, Requests
  <2>3. \A x \in Workers : req[x].match # NULL => fixture'[req[x].match].pair = fixture[req[x].match].pair
    BY <2>1, <2>2
  <2>4. \A n \in Present : n \in Present' \ late' =>
            /\ n \notin late /\ fixture'[n].pair = fixture[n].pair
            /\ fixture'[n].status \in Undecided => fixture[n].status \in Undecided
    BY <1>0, <2>1
  <2>5. slot' = slot /\ \A x \in Workers : req'[x].pc = "writing" => req'[x] = req[x]
    BY <2>1, AtRest
  <2> QED
    BY <2>3, <2>4, <2>5, TeamsKept
<1>8. CASE UNCHANGED vars
  BY <1>1, <1>8 DEF vars
<1> QED
  BY <1>2, <1>3, <1>4, <1>5, <1>6, <1>7, <1>8, <1>9, Steps

(* The empty schedule keeps every team apart. *)
LEMMA InitTeams == Init => TeamInv
<1> SUFFICES ASSUME Init PROVE TeamInv
  OBVIOUS
<1>1. Taken = {} /\ \A w \in Workers : req[w].pc = "idle"
  BY AtRest DEF Init, Taken
<1> QED
  BY <1>1 DEF TeamInv, TeamsChecked, NoDoubleBooking

(* No team is wanted in two places at once, whatever writes, deletions and *)
(* scores and status requests overlap, unless a match was reopened after   *)
(* its slot had stopped counting (validateSlotWrite under the advisory     *)
(* lock).                                                                  *)
THEOREM NoTeamTwice == Spec => []NoDoubleBooking
<1>1. TeamInv => NoDoubleBooking
  BY DEF TeamInv
<1> QED
  BY <1>1, InitTeams, TeamStep, BooksHold, PTL DEF Spec

----------------------------------------------------------------------------
(* Pairs *)

PairInv == PairsChecked /\ NoTwinFixtures

(* A step after which every fixture that counts counted before, and that   *)
(* begins no creation, makes no twins.                                     *)
LEMMA PairsKept ==
  ASSUME PairInv,
         \A n \in Present' \ late' :
            /\ n \in Present \ late /\ fixture'[n].pair = fixture[n].pair
            /\ fixture'[n].status \in Undecided => fixture[n].status \in Undecided,
         \A x \in Workers : req'[x].pc \in {"adding", "generating"} => req'[x] = req[x]
  PROVE  PairInv'
<1>1. PairsChecked'
  <2> SUFFICES ASSUME NEW x \in Workers, req'[x].pc \in {"adding", "generating"},
                      NEW m \in Present' \ late', fixture'[m].pair \in req'[x].pairs,
                      fixture'[m].status \in Undecided
               PROVE  FALSE
    BY DEF PairsChecked
  <2>1. /\ req'[x] = req[x] /\ m \in Present \ late /\ fixture'[m].pair = fixture[m].pair
        /\ fixture[m].status \in Undecided
    OBVIOUS
  <2> QED
    BY <2>1 DEF PairInv, PairsChecked
<1>2. NoTwinFixtures'
  <2> SUFFICES ASSUME NEW m \in Present' \ late', NEW n \in Present' \ late', m # n,
                      fixture'[m].pair = fixture'[n].pair,
                      fixture'[m].status \in Undecided, fixture'[n].status \in Undecided
               PROVE  FALSE
    BY DEF NoTwinFixtures
  <2>1. /\ m \in Present \ late /\ fixture'[m].pair = fixture[m].pair /\ fixture[m].status \in Undecided
        /\ n \in Present \ late /\ fixture'[n].pair = fixture[n].pair /\ fixture[n].status \in Undecided
    OBVIOUS
  <2> QED
    BY <2>1 DEF PairInv, NoTwinFixtures
<1> QED
  BY <1>1, <1>2 DEF PairInv

(* A creation begins: the duplicate check has found every fixture of its   *)
(* pairs decided or cancelled.                                             *)
LEMMA PairsBegin ==
  ASSUME Typed, PairInv, NEW w \in Workers,
         \/ \E p \in Pairs, r \in BOOLEAN : AddManualMatch(w, p, r)
         \/ \E registered \in SUBSET Teams : GenerateRoundRobinFixtures(w, registered)
  PROVE  PairInv'
<1>1. /\ UNCHANGED <<fixture, late>>
      /\ \A x \in Workers \ {w} : req'[x] = req[x]
      /\ \A p \in req'[w].pairs : \A m \in findDuplicates(p) : fixture[m].status \notin Undecided
  BY CreateBegun
<1>2. fixture' = fixture /\ late' = late /\ Present' = Present
  BY <1>1 DEF Present
<1>3. PairsChecked'
  <2> SUFFICES ASSUME NEW x \in Workers, req'[x].pc \in {"adding", "generating"},
                      NEW m \in Present \ late, fixture[m].pair \in req'[x].pairs,
                      fixture[m].status \in Undecided
               PROVE  FALSE
    BY <1>2 DEF PairsChecked
  <2>1. CASE x = w
    <3>1. m \in findDuplicates(fixture[m].pair)
      BY DEF findDuplicates, Undecided
    <3> QED
      BY <1>1, <2>1, <3>1
  <2>2. CASE x # w
    BY <1>1, <2>2 DEF PairInv, PairsChecked
  <2> QED
    BY <2>1, <2>2
<1>4. NoTwinFixtures'
  <2>1. NoTwinFixtures
    BY DEF PairInv
  <2> QED
    BY <1>2, <2>1 DEF NoTwinFixtures
<1> QED
  BY <1>3, <1>4 DEF PairInv

(* The fixtures go in: each pair once, and none that is still to be        *)
(* played; no other creation is in flight.                                 *)
LEMMA PairsCommit ==
  ASSUME Typed, BookInv, PairInv, NEW w \in Workers, CommitFixtures(w)
  PROVE  PairInv'
<1>1. PICK k \in 0 .. MaxFixtures : NewFixtures = (k + 1) .. MaxFixtures
  BY DEF BookInv, Numbered
<1>2. /\ late' = late /\ req[w].pc \in {"adding", "generating"}
      /\ req'[w] = Idle /\ \A x \in Workers \ {w} : req'[x] = req[x]
  BY <1>1, FixturesInserted
<1>3. PICK n \in Nat :
        /\ \A m \in Fids : m \notin k + 1 .. k + n => fixture'[m] = fixture[m]
        /\ \A m \in Fids : m \in k + 1 .. k + n =>
             /\ m \in NewFixtures
             /\ fixture'[m].pair \in req[w].pairs /\ fixture'[m].status = "pending"
             /\ fixture'[m].stamp = NULL
        /\ \A i, j \in Fids : /\ i \in k + 1 .. k + n /\ j \in k + 1 .. k + n
                              /\ fixture'[i].pair = fixture'[j].pair
                              => i = j
  BY <1>1, FixturesInserted
<1>4. PICK New : New = k + 1 .. k + n
  OBVIOUS
<1>5. \A m \in Present' \ late' : m \in Fids /\ (m \notin New => m \in Present \ late /\ fixture'[m] = fixture[m])
  BY <1>2, <1>3, <1>4 DEF Present
<1>6. \A x \in Workers : req'[x].pc \notin {"adding", "generating"}
  BY <1>2, AtRest DEF BookInv, Locks
<1>7. NoTwinFixtures'
  <2> SUFFICES ASSUME NEW i \in Present' \ late', NEW j \in Present' \ late', i # j,
                      fixture'[i].pair = fixture'[j].pair,
                      fixture'[i].status \in Undecided, fixture'[j].status \in Undecided
               PROVE  FALSE
    BY DEF NoTwinFixtures
  <2>1. ASSUME NEW m \in Present \ late, fixture[m].pair \in req[w].pairs PROVE fixture[m].status \notin Undecided
    BY <1>2, <2>1 DEF PairInv, PairsChecked
  <2>2. CASE i \in New /\ j \in New
    BY <1>3, <1>4, <1>5, <2>2
  <2>3. CASE i \in New /\ j \notin New
    <3>1. fixture'[i].pair \in req[w].pairs /\ j \in Present \ late /\ fixture'[j] = fixture[j]
      BY <1>3, <1>4, <1>5, <2>3
    <3> QED
      BY <2>1, <3>1
  <2>4. CASE i \notin New /\ j \in New
    <3>1. fixture'[j].pair \in req[w].pairs /\ i \in Present \ late /\ fixture'[i] = fixture[i]
      BY <1>3, <1>4, <1>5, <2>4
    <3> QED
      BY <2>1, <3>1
  <2>5. CASE i \notin New /\ j \notin New
    BY <1>5, <2>5 DEF PairInv, NoTwinFixtures
  <2> QED
    BY <2>2, <2>3, <2>4, <2>5
<1> QED
  BY <1>6, <1>7 DEF PairInv, PairsChecked

(* Every step, and none, makes no twins. *)
LEMMA PairStep == Typed /\ BookInv /\ PairInv /\ [Next]_vars => PairInv'
<1> SUFFICES ASSUME Typed, BookInv, PairInv, [Next]_vars PROVE PairInv'
  OBVIOUS
<1>1. ASSUME UNCHANGED <<fixture, late>>,
             \A x \in Workers : req'[x].pc \in {"adding", "generating"} => req'[x] = req[x]
      PROVE  PairInv'
  <2>1. fixture' = fixture /\ late' = late /\ Present' = Present
    BY <1>1 DEF Present
  <2> QED
    BY <1>1, <2>1, PairsKept
<1>2. ASSUME NEW w \in Workers, Begin(w) PROVE PairInv'
  <2>1. ASSUME req'[w].pc \notin {"adding", "generating"}, UNCHANGED <<fixture, late>>,
               \A x \in Workers \ {w} : req'[x] = req[x]
        PROVE  PairInv'
    BY <1>1, <2>1
  <2> QED
    BY <1>2, <2>1, WriteBegun, DeleteBegun, PairsBegin, RemovalBegun, MoveBegun DEF Begin
<1>3. ASSUME NEW w \in Workers, UNCHANGED late, req'[w] = Idle, \A x \in Workers \ {w} : req'[x] = req[x],
             \A n \in Fids : Alike(fixture[n], fixture'[n])
      PROVE  PairInv'
  <2>1. \A x \in Workers : req'[x].pc \in {"adding", "generating"} => req'[x] = req[x]
    BY <1>3, AtRest
  <2>2. \A n \in Present' \ late' :
            /\ n \in Present \ late /\ fixture'[n].pair = fixture[n].pair
            /\ fixture'[n].status \in Undecided => fixture[n].status \in Undecided
    BY <1>3 DEF Present, Alike
  <2> QED
    BY <2>1, <2>2, PairsKept
<1>9. ASSUME NEW w \in Workers, Refused(w) PROVE PairInv'
  BY <1>1, <1>9, SlotRefused, AtRest
<1>4. ASSUME NEW w \in Workers, CommitSlot(w) PROVE PairInv'
  <2>1. CASE req[w].match # NULL /\ req[w].match \notin Present
    BY <1>4, <1>9, <2>1 DEF Refused
  <2>2. CASE req[w].match # NULL => req[w].match \in Present
    <3>1. PICK s, m, place : s = req[w].slot /\ m = req[w].match /\ place = req[w].place
      OBVIOUS
    <3>2. /\ UNCHANGED late /\ req'[w] = Idle /\ \A x \in Workers \ {w} : req'[x] = req[x]
          /\ \A n \in Fids : Alike(fixture[n], fixture'[n])
      BY <1>4, <2>2, <3>1, SlotWritten
    <3> QED
      BY <1>3, <3>2
  <2> QED
    BY <2>1, <2>2
<1>5. ASSUME NEW w \in Workers, CommitDelete(w) PROVE PairInv'
  <2>1. PICK s, m : s = req[w].slot /\ m = req[w].match
    OBVIOUS
  <2>2. /\ UNCHANGED late /\ req'[w] = Idle /\ \A x \in Workers \ {w} : req'[x] = req[x]
        /\ \A n \in Fids : Alike(fixture[n], fixture'[n])
    BY <1>5, <2>1, SlotDeleted
  <2> QED
    BY <1>3, <2>2
<1>6. ASSUME NEW w \in Workers, CommitRemoval(w) PROVE PairInv'
  <2>1. PICK m : m = req[w].match
    OBVIOUS
  <2>2. /\ UNCHANGED late /\ req'[w] = Idle /\ \A x \in Workers \ {w} : req'[x] = req[x]
        /\ m \in Fids /\ fixture'[m].status = "deleted" /\ \A n \in Fids \ {m} : fixture'[n] = fixture[n]
    BY <1>6, <2>1, FixtureRemoved
  <2>3. \A x \in Workers : req'[x].pc \in {"adding", "generating"} => req'[x] = req[x]
    BY <2>2, AtRest
  <2>4. \A n \in Present' \ late' :
            /\ n \in Present \ late /\ fixture'[n].pair = fixture[n].pair
            /\ fixture'[n].status \in Undecided => fixture[n].status \in Undecided
    BY <2>2 DEF Present, Existing, Undecided, Counted
  <2> QED
    BY <2>3, <2>4, PairsKept
<1>7. ASSUME NEW m \in Present, NEW s \in {"scheduled", "live", "completed", "cancelled"},
             Moved(m, s)
      PROVE  PairInv'
  <2>1. /\ \A x \in Workers : req'[x] = req[x] \/ req'[x] = Idle
        /\ late \subseteq late' /\ m \in Fids
        /\ fixture'[m].pair = fixture[m].pair
        /\ fixture'[m].status \in Undecided => fixture[m].status \in Undecided \/ m \in late'
        /\ \A n \in Fids \ {m} : fixture'[n] = fixture[n]
    BY <1>7, StatusSet
  <2>2. \A n \in Present' \ late' :
            /\ n \in Present \ late /\ fixture'[n].pair = fixture[n].pair
            /\ fixture'[n].status \in Undecided => fixture[n].status \in Undecided
    BY <2>1 DEF Present
  <2>3. \A x \in Workers : req'[x].pc \in {"adding", "generating"} => req'[x] = req[x]
    BY <2>1, AtRest
  <2> QED
    BY <2>2, <2>3, PairsKept
<1>8. CASE UNCHANGED vars
  BY <1>1, <1>8 DEF vars
<1> QED
  BY <1>2, <1>4, <1>5, <1>6, <1>7, <1>8, <1>9, PairsCommit, Steps

(* No two teams have two unplayed fixtures against each other, whatever    *)
(* creations, generations, deletions and status requests overlap, unless   *)
(* one of them was reopened after it was decided (lockEventFixtures with   *)
(* findDuplicates).                                                        *)
THEOREM NoPairTwice == Spec => []NoTwinFixtures
<1>1. Init => PairInv
  <2> SUFFICES ASSUME Init PROVE PairInv
    OBVIOUS
  <2>1. Present = {} /\ \A w \in Workers : req[w].pc = "idle"
    BY AtRest DEF Init, Present, NoFixture, Existing, Undecided, Counted
  <2> QED
    BY <2>1 DEF PairInv, PairsChecked, NoTwinFixtures
<1>2. PairInv => NoTwinFixtures
  BY DEF PairInv
<1> QED
  BY <1>1, <1>2, BooksHold, PairStep, PTL DEF Spec

----------------------------------------------------------------------------
(* Stamps *)

(* A set of slot rows with no more than one element. *)
LEMMA AtMostOne ==
  ASSUME NEW S \in SUBSET Sids, ~(Cardinality(S) > 1), NEW s \in S, NEW t \in S
  PROVE  s = t
<1> SUFFICES ASSUME s # t PROVE FALSE
  OBVIOUS
<1>1. IsFiniteSet(S) /\ Cardinality(S) \in Nat
  <2>1. IsFiniteSet(Sids)
    BY FS_Interval, TimetableAssumption DEF Sids
  <2> QED
    BY <2>1, FS_Subset, FS_CardinalityType
<1>2. IsFiniteSet({s}) /\ Cardinality({s}) = 1
  BY FS_Singleton
<1>3. Cardinality({s} \cup {t}) = 2
  BY <1>2, FS_AddElement
<1>4. {s} \cup {t} \subseteq S
  OBVIOUS
<1> QED
  BY <1>1, <1>3, <1>4, FS_Subset

(* A step that touches no slot, keeps the stamps of the fixtures that are  *)
(* there and puts none on a new one, keeps the stamps in step.             *)
LEMMA StampsKept ==
  ASSUME StampInv, slot' = slot, shared' = shared,
         \A n \in Present' \ shared : \/ n \in Present /\ fixture'[n].stamp = fixture[n].stamp
                                      \/ SlotsOf(slot, n) = {} /\ fixture'[n].stamp = NULL,
         \A x \in Workers : req'[x].pc = "unslotting" => req'[x] = req[x]
  PROVE  StampInv'
<1>1. OneSlot'
  BY DEF StampInv, OneSlot, SlotsOf
<1>2. KeptForCause'
  BY DEF StampInv, KeptForCause
<1>3. ASSUME NEW n \in Present' \ shared PROVE Mirrored(n)'
  <2>1. CASE n \in Present /\ fixture'[n].stamp = fixture[n].stamp
    <3>1. Mirrored(n)
      BY <1>3, <2>1 DEF StampInv, StampMirrorsSlot
    <3> QED
      BY <2>1, <3>1 DEF Mirrored, SlotsOf
  <2>2. CASE SlotsOf(slot, n) = {} /\ fixture'[n].stamp = NULL
    BY <2>2 DEF Mirrored, SlotsOf
  <2> QED
    BY <1>3, <2>1, <2>2
<1>4. StampMirrorsSlot'
  BY <1>3 DEF StampMirrorsSlot
<1> QED
  BY <1>1, <1>2, <1>4 DEF StampInv

(* DeleteSlot begins: when it sees another slot of the match, the match is *)
(* in two.                                                                 *)
LEMMA StampsDeleteBegin ==
  ASSUME Typed, StampInv, NEW w \in Workers, NEW s \in Taken, DeleteSlot(w, s)
  PROVE  StampInv'
<1>1. /\ UNCHANGED <<fixture, slot, shared>> /\ \A x \in Workers \ {w} : req'[x] = req[x]
      /\ req'[w].slot = s /\ req'[w].match = slot[s].match
      /\ req'[w].keep <=> SlotsOf(slot, slot[s].match) \ {s} # {}
  BY DeleteBegun
<1>2. fixture' = fixture /\ slot' = slot /\ shared' = shared /\ Present' = Present
  BY <1>1 DEF Present
<1>3. ASSUME req'[w].match # NULL, req'[w].keep PROVE req'[w].match \in shared
  <2>1. PICK m : m = slot[s].match
    OBVIOUS
  <2>2. s \in Sids /\ slot[s] # NULL /\ slot[s] \in Slots
    BY DEF Taken, Typed, TypeOK, SlotRows
  <2>3. m \in Fids /\ s \in SlotsOf(slot, m)
    BY <1>1, <1>3, <2>1, <2>2 DEF Slots, SlotsOf
  <2>4. PICK t \in SlotsOf(slot, m) : t # s
    BY <1>1, <1>3, <2>1
  <2> QED
    BY <1>1, <2>1, <2>3, <2>4 DEF StampInv, OneSlot
<1>4. KeptForCause'
  <2> SUFFICES ASSUME NEW x \in Workers, req'[x].pc = "unslotting", req'[x].match # NULL, req'[x].keep
               PROVE  req'[x].match \in shared
    BY <1>2 DEF KeptForCause
  <2>1. CASE x = w
    BY <1>3, <2>1
  <2>2. CASE x # w
    BY <1>1, <2>2 DEF StampInv, KeptForCause
  <2> QED
    BY <2>1, <2>2
<1>5. OneSlot' /\ StampMirrorsSlot'
  BY <1>2 DEF StampInv, OneSlot, StampMirrorsSlot, Mirrored, SlotsOf
<1> QED
  BY <1>4, <1>5 DEF StampInv

(* WriteSlot commits: its match is stamped with the place of the slot, and *)
(* the match it replaces is in no slot any more.                           *)
LEMMA StampsCommit ==
  ASSUME Typed, BookInv, StampInv, NEW w \in Workers, CommitSlot(w),
         req[w].match # NULL => req[w].match \in Present
  PROVE  StampInv'
<1>1. PICK s, m, place : s = req[w].slot /\ m = req[w].match /\ place = req[w].place
  OBVIOUS
<1>2. /\ req'[w] = Idle /\ \A x \in Workers \ {w} : req'[x] = req[x]
      /\ s \in Sids /\ m \in Fids \cup {NULL} /\ place \in Places
      /\ slot'[s] = [match |-> m, place |-> place] /\ slot'[s] # NULL
      /\ \A t \in Sids \ {s} : slot'[t] = slot[t]
      /\ \A n \in Fids :
           /\ Alike(fixture[n], fixture'[n])
           /\ n = m => fixture'[n].stamp = place
           /\ n # m /\ slot[s] # NULL /\ slot[s].match = n => fixture'[n].stamp = NULL
           /\ n # m /\ (slot[s] = NULL \/ slot[s].match # n) => fixture'[n] = fixture[n]
      /\ shared' = shared \cup {n \in Fids : Cardinality(SlotsOf(slot', n)) > 1}
  BY <1>1, SlotWritten
<1>3. slot'[s].match = m /\ slot'[s].place = place
  BY <1>2
<1>4. Present' \subseteq Present /\ Present \subseteq Fids /\ shared \subseteq shared'
  BY <1>2 DEF Alike, Present
<1>5. \A n \in Fids : n # m => SlotsOf(slot', n) = SlotsOf(slot, n) \ {s}
  BY <1>2, <1>3 DEF SlotsOf
<1>6. OneSlot'
  <2> SUFFICES ASSUME NEW n \in Fids \ shared', NEW a \in SlotsOf(slot', n), NEW b \in SlotsOf(slot', n)
               PROVE  a = b
    BY DEF OneSlot, SlotsOf
  <2>1. ~(Cardinality(SlotsOf(slot', n)) > 1)
    BY <1>2
  <2>2. SlotsOf(slot', n) \in SUBSET Sids
    BY DEF SlotsOf
  <2> QED
    BY <2>1, <2>2, AtMostOne
<1>7. KeptForCause'
  BY <1>2, <1>4, AtRest DEF StampInv, KeptForCause
<1>8. ASSUME NEW n \in Present' \ shared' PROVE Mirrored(n)'
  <2>1. n \in Fids /\ n \in Present \ shared
    BY <1>4
  <2>2. CASE n = m
    <3>1. s \in SlotsOf(slot', n) /\ fixture'[n].stamp = slot'[s].place
      BY <1>2, <1>3, <2>1, <2>2 DEF SlotsOf
    <3> QED
      BY <3>1 DEF Mirrored, SlotsOf
  <2>3. CASE n # m /\ slot[s] # NULL /\ slot[s].match = n
    <3>1. s \in SlotsOf(slot, n)
      BY <1>2, <2>3 DEF SlotsOf
    <3>2. \A t \in SlotsOf(slot, n) : t = s
      BY <2>1, <3>1 DEF StampInv, OneSlot
    <3>3. SlotsOf(slot', n) = {}
      BY <1>5, <2>1, <2>3, <3>2
    <3>4. fixture'[n].stamp = NULL
      BY <1>2, <2>1, <2>3
    <3> QED
      BY <3>3, <3>4 DEF Mirrored, SlotsOf
  <2>4. CASE n # m /\ (slot[s] = NULL \/ slot[s].match # n)
    <3>1. SlotsOf(slot', n) = SlotsOf(slot, n) /\ fixture'[n] = fixture[n] /\ s \notin SlotsOf(slot, n)
      BY <1>2, <1>5, <2>1, <2>4 DEF SlotsOf
    <3>2. \A t \in SlotsOf(slot, n) : slot'[t] = slot[t]
      BY <1>2, <3>1 DEF SlotsOf
    <3>3. Mirrored(n)
      BY <2>1 DEF StampInv, StampMirrorsSlot
    <3>4. IF SlotsOf(slot', n) = {} THEN fixture'[n].stamp = NULL
          ELSE \E t \in SlotsOf(slot', n) : fixture'[n].stamp = slot'[t].place
      BY <3>1, <3>2, <3>3 DEF Mirrored
    <3> QED
      BY <3>4 DEF Mirrored, SlotsOf
  <2> QED
    BY <2>2, <2>3, <2>4
<1>9. StampMirrorsSlot'
  BY <1>8 DEF StampMirrorsSlot
<1> QED
  BY <1>6, <1>7, <1>9 DEF StampInv

(* DeleteSlot commits: unless the match was in two slots, it is in none    *)
(* now and its stamp is gone.                                              *)
LEMMA StampsDelete ==
  ASSUME Typed, BookInv, StampInv, NEW w \in Workers, CommitDelete(w)
  PROVE  StampInv'
<1>1. PICK s, m : s = req[w].slot /\ m = req[w].match
  OBVIOUS
<1>2. /\ shared' = shared /\ req[w].pc = "unslotting"
      /\ req'[w] = Idle /\ \A x \in Workers \ {w} : req'[x] = req[x]
      /\ s \in Sids /\ m \in Fids \cup {NULL}
      /\ slot'[s] = NULL /\ \A t \in Sids \ {s} : slot'[t] = slot[t]
      /\ \A n \in Fids :
           /\ Alike(fixture[n], fixture'[n])
           /\ n = m /\ ~req[w].keep => fixture'[n].stamp = NULL
           /\ n # m => fixture'[n] = fixture[n]
  BY <1>1, SlotDeleted
<1>3. slot[s] # NULL /\ slot[s].match = m
  BY <1>1, <1>2 DEF BookInv, RowHeld
<1>4. Present' \subseteq Present /\ Present \subseteq Fids /\ NULL \notin Fids
  BY <1>2, TimetableAssumption DEF Alike, Present, Fids
<1>5. \A n \in Fids : SlotsOf(slot', n) = SlotsOf(slot, n) \ {s}
  BY <1>2 DEF SlotsOf
<1>6. OneSlot'
  <2> SUFFICES ASSUME NEW n \in Fids \ shared, NEW a \in SlotsOf(slot', n), NEW b \in SlotsOf(slot', n)
               PROVE  a = b
    BY <1>2 DEF OneSlot, SlotsOf
  <2> QED
    BY <1>5 DEF StampInv, OneSlot
<1>7. KeptForCause'
  BY <1>2, AtRest DEF StampInv, KeptForCause
<1>8. ASSUME NEW n \in Present' \ shared' PROVE Mirrored(n)'
  <2>1. n \in Fids /\ n \in Present \ shared
    BY <1>2, <1>4
  <2>2. CASE n = m
    <3>1. ~req[w].keep
      BY <1>1, <1>2, <1>4, <2>1, <2>2 DEF StampInv, KeptForCause
    <3>2. s \in SlotsOf(slot, n)
      BY <1>2, <1>3, <2>2 DEF SlotsOf
    <3>3. \A t \in SlotsOf(slot, n) : t = s
      BY <2>1, <3>2 DEF StampInv, OneSlot
    <3>4. SlotsOf(slot', n) = {} /\ fixture'[n].stamp = NULL
      BY <1>2, <1>5, <2>1, <2>2, <3>1, <3>3
    <3> QED
      BY <3>4 DEF Mirrored, SlotsOf
  <2>3. CASE n # m
    <3>1. s \notin SlotsOf(slot, n)
      BY <1>3, <2>3 DEF SlotsOf
    <3>2. SlotsOf(slot', n) = SlotsOf(slot, n) /\ fixture'[n] = fixture[n]
      BY <1>2, <1>5, <2>1, <2>3, <3>1
    <3>3. \A t \in SlotsOf(slot, n) : slot'[t] = slot[t]
      BY <1>2, <3>1 DEF SlotsOf
    <3>4. Mirrored(n)
      BY <2>1 DEF StampInv, StampMirrorsSlot
    <3>5. IF SlotsOf(slot', n) = {} THEN fixture'[n].stamp = NULL
          ELSE \E t \in SlotsOf(slot', n) : fixture'[n].stamp = slot'[t].place
      BY <3>2, <3>3, <3>4 DEF Mirrored
    <3> QED
      BY <3>5 DEF Mirrored, SlotsOf
  <2> QED
    BY <2>2, <2>3
<1>9. StampMirrorsSlot'
  BY <1>8 DEF StampMirrorsSlot
<1> QED
  BY <1>6, <1>7, <1>9 DEF StampInv

(* DeleteManualMatch commits: the slots of the match keep their place and  *)
(* name it no more.                                                        *)
LEMMA StampsRemoval ==
  ASSUME Typed, StampInv, NEW w \in Workers, CommitRemoval(w)
  PROVE  StampInv'
<1>1. PICK m : m = req[w].match
  OBVIOUS
<1>2. /\ shared' = shared /\ req'[w] = Idle /\ \A x \in Workers \ {w} : req'[x] = req[x]
      /\ m \in Fids /\ fixture'[m].status = "deleted"
      /\ \A n \in Fids \ {m} : fixture'[n] = fixture[n]
      /\ \A s \in SlotsOf(slot, m) : slot'[s] # NULL /\ slot'[s].match = NULL
      /\ \A s \in Sids \ SlotsOf(slot, m) : slot'[s] = slot[s]
  BY <1>1, FixtureRemoved
<1>3. Present' \subseteq Present \ {m} /\ Present \subseteq Fids /\ NULL \notin Fids
  BY <1>2, TimetableAssumption DEF Present, Existing, Undecided, Counted, Fids
<1>4. /\ \A n \in Fids : SlotsOf(slot', n) \subseteq SlotsOf(slot, n)
      /\ \A n \in Fids \ {m} : SlotsOf(slot', n) = SlotsOf(slot, n)
  BY <1>2, <1>3 DEF SlotsOf
<1>5. OneSlot'
  <2> SUFFICES ASSUME NEW n \in Fids \ shared, NEW a \in SlotsOf(slot', n), NEW b \in SlotsOf(slot', n)
               PROVE  a = b
    BY <1>2 DEF OneSlot, SlotsOf
  <2> QED
    BY <1>4 DEF StampInv, OneSlot
<1>6. KeptForCause'
  BY <1>2, AtRest DEF StampInv, KeptForCause
<1>7. ASSUME NEW n \in Present' \ shared' PROVE Mirrored(n)'
  <2>1. n \in Fids \ {m} /\ n \in Present \ shared
    BY <1>2, <1>3
  <2>2. SlotsOf(slot', n) = SlotsOf(slot, n) /\ fixture'[n] = fixture[n]
    BY <1>2, <1>4, <2>1
  <2>3. \A t \in SlotsOf(slot, n) : slot'[t] = slot[t]
    BY <1>2, <2>1 DEF SlotsOf
  <2>4. Mirrored(n)
    BY <2>1 DEF StampInv, StampMirrorsSlot
  <2>5. IF SlotsOf(slot', n) = {} THEN fixture'[n].stamp = NULL
        ELSE \E t \in SlotsOf(slot', n) : fixture'[n].stamp = slot'[t].place
    BY <2>2, <2>3, <2>4 DEF Mirrored
  <2> QED
    BY <2>5 DEF Mirrored, SlotsOf
<1>8. StampMirrorsSlot'
  BY <1>7 DEF StampMirrorsSlot
<1> QED
  BY <1>5, <1>6, <1>8 DEF StampInv

(* Every step, and none, keeps the stamps in step with the slots. *)
LEMMA StampStep == Typed /\ BookInv /\ StampInv /\ [Next]_vars => StampInv'
<1> SUFFICES ASSUME Typed, BookInv, StampInv, [Next]_vars PROVE StampInv'
  OBVIOUS
<1>1. ASSUME UNCHANGED <<fixture, slot, shared>>,
             \A x \in Workers : req'[x].pc = "unslotting" => req'[x] = req[x]
      PROVE  StampInv'
  <2>1. fixture' = fixture /\ slot' = slot /\ shared' = shared /\ Present' = Present
    BY <1>1 DEF Present
  <2> QED
    BY <1>1, <2>1, StampsKept
<1>2. ASSUME NEW w \in Workers, Begin(w) PROVE StampInv'
  <2>1. ASSUME req'[w].pc # "unslotting", UNCHANGED <<fixture, slot, shared>>,
               \A x \in Workers \ {w} : req'[x] = req[x]
        PROVE  StampInv'
    BY <1>1, <2>1
  <2> QED
    BY <1>2, <2>1, WriteBegun, StampsDeleteBegin, CreateBegun, RemovalBegun, MoveBegun DEF Begin
<1>7. ASSUME NEW w \in Workers, Refused(w) PROVE StampInv'
  BY <1>1, <1>7, SlotRefused, AtRest
<1>3. ASSUME NEW w \in Workers, CommitSlot(w) PROVE StampInv'
  <2>1. CASE req[w].match # NULL /\ req[w].match \notin Present
    BY <1>3, <1>7, <2>1 DEF Refused
  <2>2. CASE req[w].match # NULL => req[w].match \in Present
    BY <1>3, <2>2, StampsCommit
  <2> QED
    BY <2>1, <2>2
<1>4. ASSUME NEW w \in Workers, CommitFixtures(w) PROVE StampInv'
  <2>1. PICK k \in 0 .. MaxFixtures : NewFixtures = (k + 1) .. MaxFixtures
    BY DEF BookInv, Numbered
  <2>2. /\ slot' = slot /\ shared' = shared /\ req'[w] = Idle
        /\ \A x \in Workers \ {w} : req'[x] = req[x]
    BY <1>4, <2>1, FixturesInserted
  <2>3. \A n \in Fids : \/ fixture'[n] = fixture[n]
                        \/ n \in NewFixtures /\ fixture'[n].stamp = NULL
    BY <1>4, <2>1, FixturesInserted
  <2>4. \A n \in NewFixtures : SlotsOf(slot, n) = {}
    <3>1. Present \cap NewFixtures = {} /\ NULL \notin Fids /\ NewFixtures \subseteq Fids
      BY TimetableAssumption DEF Present, NewFixtures, Existing, Undecided, Counted, Fids
    <3> QED
      BY <3>1 DEF SlotsOf, BookInv, Named, Taken
  <2>5. \A n \in Present' \ shared : \/ n \in Present /\ fixture'[n].stamp = fixture[n].stamp
                                     \/ SlotsOf(slot, n) = {} /\ fixture'[n].stamp = NULL
    BY <2>3, <2>4 DEF Present
  <2>6. \A x \in Workers : req'[x].pc = "unslotting" => req'[x] = req[x]
    BY <2>2, AtRest
  <2> QED
    BY <2>2, <2>5, <2>6, StampsKept
<1>5. ASSUME NEW m \in Present, NEW s \in {"scheduled", "live", "completed", "cancelled"},
             Moved(m, s)
      PROVE  StampInv'
  <2>1. /\ UNCHANGED <<slot, shared>> /\ m \in Fids /\ fixture'[m].stamp = fixture[m].stamp
        /\ \A n \in Fids \ {m} : fixture'[n] = fixture[n]
    BY <1>5, StatusSet
  <2>2. /\ slot' = slot /\ shared' = shared
        /\ \A x \in Workers : req'[x].pc = "unslotting" => req'[x] = req[x]
    BY <1>5, <2>1, StatusSet, AtRest
  <2>3. \A n \in Present' : n \in Present /\ fixture'[n].stamp = fixture[n].stamp
    BY <1>5, <2>1 DEF Present
  <2> QED
    BY <2>2, <2>3, StampsKept
<1>6. CASE UNCHANGED vars
  BY <1>1, <1>6 DEF vars
<1> QED
  BY <1>2, <1>3, <1>4, <1>5, <1>6, <1>7, StampsDelete, StampsRemoval, Steps

(* Court and time of a fixture mirror its slot, whatever writes, deletions *)
(* and removals overlap, for every fixture that has never been in two      *)
(* slots at once (WriteSlot's and DeleteSlot's stamps).                    *)
THEOREM StampsInStep == Spec => []StampMirrorsSlot
<1>1. Init => StampInv
  <2> SUFFICES ASSUME Init PROVE StampInv
    OBVIOUS
  <2>1. Present = {} /\ \A w \in Workers : req[w].pc = "idle"
    BY AtRest DEF Init, Present, NoFixture, Existing, Undecided, Counted
  <2>2. \A m \in Fids : SlotsOf(slot, m) = {}
    BY DEF Init, SlotsOf
  <2> QED
    BY <2>1, <2>2 DEF StampInv, OneSlot, KeptForCause, StampMirrorsSlot
<1>2. StampInv => StampMirrorsSlot
  BY DEF StampInv
<1> QED
  BY <1>1, <1>2, BooksHold, StampStep, PTL DEF Spec

=============================================================================
