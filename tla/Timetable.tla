----------------------------- MODULE Timetable ------------------------------
(***************************************************************************)
(* The fixtures of a round-robin division and the schedule they are put    *)
(* on: AddManualMatch, GenerateRoundRobinFixtures and DeleteManualMatch of *)
(* internal/draw, WriteSlot and DeleteSlot of internal/schedule, and what  *)
(* scoring and SetStatus of internal/match do to a match in between.  Each *)
(* of the five and SetStatus take two steps, what it reads and what it     *)
(* commits; writes of slots exclude each other by the tournament's         *)
(* advisory lock, writes of fixtures by the division's, and the deletions  *)
(* and SetStatus take neither.                                             *)
(***************************************************************************)
EXTENDS Naturals, FiniteSets

CONSTANTS
    Teams, Courts, Workers,
    Starts,             \* a set of natural numbers: possible starting times
    Length,             \* of every slot
    Rest,               \* restBuffer
    MaxFixtures,        \* bounds the model: fixtures ever created
    MaxSlots,           \* bounds the model: slots on the schedule
    MaxRequests,        \* bounds the model: requests of organizers
    NULL

VARIABLES
    fixture,    \* matches, by id in order of creation
    slot,       \* schedule_slots
    req,        \* the request each worker is serving
    served,     \* history: requests begun
    late,       \* history: fixtures reopened after they were decided
    shared      \* history: fixtures that were in two slots at once

vars == <<fixture, slot, req, served, late, shared>>

Fids == 1 .. MaxFixtures
Sids == 1 .. MaxSlots

Undecided == {"pending", "scheduled", "live"}
Counted   == {"completed"}              \* completed, walkover and retired
Existing  == Undecided \cup Counted \cup {"cancelled"}

Pairs == {p \in SUBSET Teams : Cardinality(p) = 2}

(* The stamp mirrors a slot: matches.court_id and scheduled_at. *)
Places == Courts \X Starts

Fixtures == [pair : SUBSET Teams, status : Existing \cup {"none", "deleted"}, stamp : Places \cup {NULL}]
NoFixture == [pair |-> {}, status |-> "none", stamp |-> NULL]

Slots    == [match : Fids \cup {NULL}, place : Places]
SlotRows == Slots \cup {NULL}

ASSUME TimetableAssumption ==
    /\ Starts \subseteq Nat /\ Length \in Nat \ {0} /\ Rest \in Nat
    /\ MaxFixtures \in Nat /\ MaxSlots \in Nat /\ MaxRequests \in Nat
    /\ IsFiniteSet(Teams)
    /\ NULL \notin Nat \cup Courts
    /\ NULL \notin Places /\ NULL \notin Slots

Requests == [pc    : {"idle", "writing", "unslotting", "adding", "generating", "removing",
                       "moving"},
             slot  : Sids \cup {NULL},      \* the row written or deleted
             match : Fids \cup {NULL},
             place : Places \cup {NULL},
             status : {"scheduled", "live", NULL},
             pairs : SUBSET Pairs,          \* the fixtures to insert
             keep  : BOOLEAN]               \* DeleteSlot saw another slot of the match

Idle == [pc |-> "idle", slot |-> NULL, match |-> NULL, place |-> NULL, status |-> NULL,
         pairs |-> {}, keep |-> FALSE]

TypeOK ==
    /\ fixture \in [Fids -> Fixtures]
    /\ slot \in [Sids -> SlotRows]
    /\ req  \in [Workers -> Requests]
    /\ served \in 0 .. MaxRequests /\ late \subseteq Fids /\ shared \subseteq Fids

Init ==
    /\ fixture = [m \in Fids |-> NoFixture]
    /\ slot = [s \in Sids |-> NULL]
    /\ req  = [w \in Workers |-> Idle]
    /\ served = 0 /\ late = {} /\ shared = {}

----------------------------------------------------------------------------
Present == {m \in Fids : fixture[m].status \in Existing}
Taken   == {s \in Sids : slot[s] # NULL}

SlotsOf(rows, m) == {s \in Sids : rows[s] # NULL /\ rows[s].match = m}

Serving(pcs) == {w \in Workers : req[w].pc \in pcs}

(* The slot rows locked by the transactions in flight. *)
LockedSlots == {req[w].slot : w \in Serving({"writing", "unslotting"})}

Start(w, r) ==
    /\ req[w].pc = "idle" /\ served < MaxRequests
    /\ req' = [req EXCEPT ![w] = r]
    /\ served' = served + 1

Finish(w) == req' = [req EXCEPT ![w] = Idle] /\ UNCHANGED served

(* Keep the history of fixtures that two committed slots name. *)
Share(rows) == shared' = shared \cup {m \in Fids : Cardinality(SlotsOf(rows, m)) > 1}

(* The intervals [s, s + Length) and [t, t + Length) come closer than gap. *)
Closer(s, t, gap) == s < t + Length + gap /\ t < s + Length + gap

----------------------------------------------------------------------------
(* Mutant: a slot held without a match does not block the court. *)
CourtUnused(s, place) ==
    \A t \in Taken \ {s} : slot[t].place[1] = place[1] /\ slot[t].match # NULL
                            => ~Closer(slot[t].place[2], place[2], 0)

(* validateSlotWrite: the court is free; no undecided match of one of the  *)
(* teams overlaps; and none is within the rest buffer unless overridden.   *)
CourtFree(s, place) ==
    \A t \in Taken \ {s} : slot[t].place[1] = place[1] => ~Closer(slot[t].place[2], place[2], 0)

(* Mutant: only slots of the same match are compared. *)
SelfFree(s, m, place, gap) == \A t \in SlotsOf(slot, m) \ {s} : ~Closer(slot[t].place[2], place[2], gap)

TeamsFree(s, m, place, gap) ==
    \A t \in Taken \ {s} :
        slot[t].match # NULL /\ fixture[slot[t].match].status \in Undecided
        /\ fixture[slot[t].match].pair \cap fixture[m].pair # {}
            => ~Closer(slot[t].place[2], place[2], gap)

(* WriteSlot up to its checks: s is the row to update, or a new one. *)
WriteSlot(w, s, m, place, override) ==
    /\ Serving({"writing"}) = {} /\ s \notin LockedSlots
    /\ CourtFree(s, place)
    /\ m # NULL => TeamsFree(s, m, place, IF override THEN 0 ELSE Rest)
    /\ Start(w, [Idle EXCEPT !.pc = "writing", !.slot = s, !.match = m, !.place = place])
    /\ UNCHANGED <<fixture, slot, late, shared>>

(* Mutant: back to a status the enum does not have. *)
UnstampedToOpen(f) == [f EXCEPT !.stamp = NULL, !.status = IF @ = "scheduled" THEN "open" ELSE @]

(* What a match is left with when its slot goes, and when it gets one. *)
Unstamped(f) == [f EXCEPT !.stamp = NULL, !.status = IF @ = "scheduled" THEN "pending" ELSE @]
Stamped(f, place) == [f EXCEPT !.stamp = place, !.status = IF @ = "pending" THEN "scheduled" ELSE @]

(* Mutant: the match that was swapped out keeps its stamp. *)
RestampedOnly(s, m, place) == [n \in Fids |-> IF n = m THEN Stamped(fixture[n], place) ELSE fixture[n]]

Restamped(s, m, place) ==
    LET prev == IF slot[s] = NULL THEN NULL ELSE slot[s].match
    IN  [n \in Fids |-> IF n = m THEN Stamped(fixture[n], place)
                        ELSE IF n = prev THEN Unstamped(fixture[n]) ELSE fixture[n]]

(* The write, the stamps and the audit entry commit together; a match      *)
(* deleted meanwhile fails the foreign key and rolls everything back.      *)
CommitSlot(w) ==
    LET s == req[w].slot  m == req[w].match  place == req[w].place
    IN  /\ req[w].pc = "writing"
        /\ Finish(w)
        /\ IF m # NULL /\ m \notin Present
           THEN UNCHANGED <<fixture, slot, shared>>
           ELSE /\ slot' = [slot EXCEPT ![s] = [match |-> m, place |-> place]]
                /\ fixture' = Restamped(s, m, place)
                /\ Share(slot')
        /\ UNCHANGED late

(* DeleteSlot: the row is deleted and the match un-stamped unless the      *)
(* statement sees another slot of it, both visible only at the commit.     *)
DeleteSlot(w, s) ==
    /\ s \notin LockedSlots
    /\ Start(w, [Idle EXCEPT !.pc = "unslotting", !.slot = s, !.match = slot[s].match,
                             !.keep = SlotsOf(slot, slot[s].match) \ {s} # {}])
    /\ UNCHANGED <<fixture, slot, late, shared>>

CommitDelete(w) ==
    LET m == req[w].match
    IN  /\ req[w].pc = "unslotting"
        /\ slot' = [slot EXCEPT ![req[w].slot] = NULL]
        /\ fixture' = IF m = NULL \/ req[w].keep THEN fixture
                      ELSE [fixture EXCEPT ![m] = Unstamped(@)]
        /\ Finish(w)
        /\ UNCHANGED <<late, shared>>

----------------------------------------------------------------------------
(* findDuplicates: the fixtures of the unordered pair that are not         *)
(* cancelled; byes do not occur in this format.                            *)
findDuplicates(p) == {m \in Present : fixture[m].pair = p /\ fixture[m].status # "cancelled"}

(* classifyDuplicate: an unplayed fixture always blocks, a decided one     *)
(* unless a rematch is asked for.                                          *)
classifyDuplicate(D, allowRematch) ==
    /\ \A m \in D : fixture[m].status \notin Undecided
    /\ (\E m \in D : fixture[m].status \in Counted) => allowRematch

(* Mutant: the lock is taken per transaction kind. *)
GeneratorUnlocked == Serving({"generating"}) = {}

(* lockEventFixtures. *)
FixturesUnlocked == Serving({"adding", "generating"}) = {}

NewFixtures == {m \in Fids : fixture[m].status = "none"}

AddManualMatch(w, p, allowRematch) ==
    /\ FixturesUnlocked
    /\ NewFixtures # {}
    /\ classifyDuplicate(findDuplicates(p), allowRematch)
    /\ Start(w, [Idle EXCEPT !.pc = "adding", !.pairs = {p}])
    /\ UNCHANGED <<fixture, slot, late, shared>>

(* registered is the division's entry list when the generator reads it. *)
GenerateRoundRobinFixtures(w, registered) ==
    /\ FixturesUnlocked
    /\ Cardinality(registered) >= 2
    /\ LET missing == {p \in Pairs : p \subseteq registered /\ findDuplicates(p) = {}}
       IN  /\ missing # {} /\ Cardinality(missing) <= Cardinality(NewFixtures)
           /\ Start(w, [Idle EXCEPT !.pc = "generating", !.pairs = missing])
    /\ UNCHANGED <<fixture, slot, late, shared>>

(* The rows go in with the next numbers, in some order of the pairs. *)
CommitFixtures(w) ==
    /\ req[w].pc \in {"adding", "generating"}
    /\ LET first == Cardinality(Fids \ NewFixtures)
           n     == Cardinality(req[w].pairs)
       IN  \E f \in [1 .. n -> req[w].pairs] :
              /\ \A p \in req[w].pairs : \E i \in 1 .. n : f[i] = p
              /\ fixture' = [m \in Fids |->
                    IF m \in first + 1 .. first + n
                    THEN [NoFixture EXCEPT !.pair = f[m - first], !.status = "pending"]
                    ELSE fixture[m]]
    /\ Finish(w)
    /\ UNCHANGED <<slot, late, shared>>

(* DeleteManualMatch reads the match, then deletes it in a statement of    *)
(* its own; the slots that name it keep their place.                       *)
DeleteManualMatch(w, m) ==
    /\ fixture[m].status = "pending"
    /\ Start(w, [Idle EXCEPT !.pc = "removing", !.match = m])
    /\ UNCHANGED <<fixture, slot, late, shared>>

CommitRemoval(w) ==
    LET m == req[w].match
    IN  /\ req[w].pc = "removing"
        /\ SlotsOf(slot, m) \cap LockedSlots = {}
        /\ fixture' = [fixture EXCEPT ![m] = [NoFixture EXCEPT !.status = "deleted"]]
        /\ slot' = [s \in Sids |-> IF s \in SlotsOf(slot, m) THEN [slot[s] EXCEPT !.match = NULL]
                                   ELSE slot[s]]
        /\ Finish(w)
        /\ UNCHANGED <<late, shared>>

----------------------------------------------------------------------------
(* The status of a match changes; keep the history of those that are       *)
(* undecided again.                                                        *)
Move(m, status) ==
    /\ fixture' = [fixture EXCEPT ![m].status = status]
    /\ late' = IF fixture[m].status \notin Undecided /\ status \in Undecided THEN late \cup {m} ELSE late

(* A score or a correction (internal/match): a decided match may be put    *)
(* back to live.                                                           *)
SubmitScore(m, status) == Move(m, status) /\ UNCHANGED <<slot, req, served, shared>>

(* SetStatus reads the match and refuses a decided one...                  *)
CheckStatus(w, m, status) ==
    /\ fixture[m].status \in Undecided
    /\ Start(w, [Idle EXCEPT !.pc = "moving", !.match = m, !.status = status])
    /\ UNCHANGED <<fixture, slot, late, shared>>

(* ...then updates it, whatever it has become, unless it is gone.          *)
SetStatus(w) ==
    /\ req[w].pc = "moving"
    /\ IF req[w].match \in Present THEN Move(req[w].match, req[w].status)
       ELSE UNCHANGED <<fixture, late>>
    /\ Finish(w)
    /\ UNCHANGED <<slot, shared>>

----------------------------------------------------------------------------
(* Rows are numbered in the order they are taken. *)
Vacant == {s \in Sids : slot[s] = NULL /\ s \notin LockedSlots /\
                        \A t \in Sids : t < s => slot[t] # NULL \/ t \in LockedSlots}

Next ==
    \/ \E w \in Workers :
        \/ \E s \in Taken \cup Vacant, m \in Present \cup {NULL}, p \in Places, o \in BOOLEAN :
              WriteSlot(w, s, m, p, o)
        \/ \E s \in Taken : DeleteSlot(w, s)
        \/ \E p \in Pairs, r \in BOOLEAN : AddManualMatch(w, p, r)
        \/ \E registered \in SUBSET Teams : GenerateRoundRobinFixtures(w, registered)
        \/ \E m \in Present : DeleteManualMatch(w, m)
        \/ \E m \in Present, s \in {"scheduled", "live"} : CheckStatus(w, m, s)
        \/ CommitSlot(w) \/ CommitDelete(w) \/ CommitFixtures(w) \/ CommitRemoval(w) \/ SetStatus(w)
    \/ \E m \in Present, s \in {"live", "completed", "cancelled"} : SubmitScore(m, s)

Spec == Init /\ [][Next]_vars

----------------------------------------------------------------------------
(* The bookings of the courts as a visitor reads them. *)
Booked == [s \in Sids |-> IF slot[s] = NULL THEN NULL ELSE slot[s].place]

(* The schedule implements a calendar of courts: whatever requests are in  *)
(* flight, each commit makes, moves or gives up one booking and no two     *)
(* bookings of a court overlap (the advisory lock with validateSlotWrite). *)
Calendar == INSTANCE CourtCalendar WITH Bookings <- Sids, booked <- Booked

CourtsImplementCalendar == Calendar!CalendarSpec

(* No team is wanted in two places at once: two slots whose undecided      *)
(* matches share a team do not overlap, unless one of the matches was      *)
(* reopened, by a correction or by a status request that had read it       *)
(* undecided, after its slot had stopped counting ("this lock is what      *)
(* makes the participant/rest checks race-free too", WriteSlot).           *)
NoDoubleBooking ==
    \A s, t \in Taken : \A m, n \in Present \ late :
        /\ s # t /\ slot[s].match = m /\ slot[t].match = n
        /\ fixture[m].status \in Undecided /\ fixture[n].status \in Undecided
        /\ fixture[m].pair \cap fixture[n].pair # {}
        => ~Closer(slot[s].place[2], slot[t].place[2], 0)

(* Two teams never have two unplayed fixtures against each other, unless   *)
(* one that a rematch had followed was reopened, by a correction or by a   *)
(* status request that had read it undecided: neither two creates nor a    *)
(* create beside the generator pass the duplicate check together           *)
(* (lockEventFixtures).                                                    *)
NoTwinFixtures ==
    \A m, n \in Present \ late :
        m # n /\ fixture[m].pair = fixture[n].pair
            => fixture[m].status \notin Undecided \/ fixture[n].status \notin Undecided

Mirrored(m) ==
    LET S == SlotsOf(slot, m)
    IN  IF S = {} THEN fixture[m].stamp = NULL ELSE \E s \in S : fixture[m].stamp = slot[s].place

(* matches.court_id and scheduled_at mirror the slot of every fixture that *)
(* has never been in two slots at once, whatever writes and deletions      *)
(* overlap.                                                                *)
StampMirrorsSlot == \A m \in Present \ shared : Mirrored(m)

(* "matches.scheduled_at/court_id are derived stamps mirrored on slot      *)
(* writes" (migration 00010), for every fixture.                           *)
StampAlwaysMirrors == \A m \in Present : Mirrored(m)

(* "Only allowed while the match is still pending so a played fixture      *)
(* can't be silently dropped" (DeleteManualMatch).                         *)
PlayedFixtureKept == [][\A m \in Fids : fixture[m].status \in Counted => fixture'[m].status # "deleted"]_vars
=============================================================================
