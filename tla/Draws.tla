------------------------------- MODULE Draws --------------------------------
(***************************************************************************)
(* The draw generators (internal/draw) and what persistWithGroups makes of *)
(* their output.  A team is a positive number and 0 is nil; matches are    *)
(* numbered from 1, as match_no is, and next = 0 stands for NextMatchIdx   *)
(* = -1; groups are numbered from 1 and group = 0 is the knockout.         *)
(***************************************************************************)
EXTENDS Integers, Sequences, FiniteSets, SequencesExt

(* A slot of a generated match: one entrant, a bye, the placement of a     *)
(* group, or still empty because a winner is to come.                      *)
Slot(type, team, group, rank) == [type |-> type, team |-> team, group |-> group, rank |-> rank]

Bye             == Slot("bye", 0, 0, 0)
Empty           == Slot("empty", 0, 0, 0)
placement(g, r) == Slot("group_placement", 0, g, r)

(* entryToSlot, pairSlot and slotFor. *)
pairSlot(id) == IF id = 0 THEN Bye ELSE Slot("fixed", id, 0, 0)

(* The powers of two. *)
Doubled[k \in Nat] == IF k = 0 THEN 1 ELSE 2 * Doubled[k - 1]

Powers(n) == {Doubled[k] : k \in 0 .. n}

nextPowerOfTwo(n) == CHOOSE p \in Powers(n) : p >= n /\ \A q \in Powers(n) : q >= n => p <= q

log2(n) == CHOOSE r \in 0 .. n : Doubled[r] <= n /\ n < Doubled[r + 1]

(* The elements that pass, in order: SelectSeq, put together by FlattenSeq. *)
Kept(s, Pass(_)) == FlattenSeq([i \in DOMAIN s |-> IF Pass(s[i]) THEN <<s[i]>> ELSE <<>>])

----------------------------------------------------------------------------
(* Seeding. *)

(* Mutant: the newcomers are paired with the seeds in the same order. *)
Opposed(size, s) == size \div 2 + s

(* The seed placed beside s when the bracket grows to this size. *)
Opponent(size, s) == size + 1 - s

(* The order after k doublings of <<1, 2>>. *)
SeedOrder[k \in Nat] ==
    IF k <= 1 THEN <<1, 2>>
    ELSE [i \in 1 .. Doubled[k] |-> IF i % 2 = 1 THEN SeedOrder[k - 1][(i + 1) \div 2]
                                    ELSE Opponent(Doubled[k], SeedOrder[k - 1][i \div 2])]

(* The seed rank of every bracket slot. *)
seedPositions(size) == SeedOrder[log2(size)]

(* An entry is [id, seed], seed 0 meaning unseeded.  A later entry with    *)
(* the same seed replaces the earlier one; the unseeded fill the ranks     *)
(* nobody holds, in order, and what is left are byes.                      *)
placeEntries(entries, order) ==
    LET seeds    == {entries[i].seed : i \in DOMAIN entries} \ {0}
        bySeed(s) == LET held == {i \in DOMAIN entries : entries[i].seed = s}
                     IN  CHOOSE i \in held : \A j \in held : j <= i
        unseeded == Kept(entries, LAMBDA e : e.seed = 0)
        Free(k)  == Cardinality({j \in 1 .. k : order[j] \notin seeds})
    IN  [k \in DOMAIN order |->
            CASE order[k] \in seeds       -> pairSlot(entries[bySeed(order[k])].id)
              [] order[k] \notin seeds /\ Free(k) <= Len(unseeded) -> pairSlot(unseeded[Free(k)].id)
              [] OTHER                    -> Bye]

----------------------------------------------------------------------------
(* Brackets. *)

MatchOf(round, pos, slots, next, nextSlot) ==
    [round |-> round, pos |-> pos, slots |-> slots, next |-> next, nextSlot |-> nextSlot, group |-> 0]

(* Mutant: the slot alternates with the round instead of the match. *)
NextSlotOfRound(r, i) == (r % 2) + 1

(* The slot of the next match that the winner of match i takes. *)
NextSlot(r, i) == (i % 2) + 1

(* The matches of round r, and the number of its first match, above a      *)
(* first round of n.                                                       *)
RoundCount(n) == LET count[r \in Nat] == IF r <= 1 THEN n ELSE count[r - 1] \div 2
                 IN  count

RoundStart(n) == LET start[r \in Nat] == IF r <= 1 THEN 1 ELSE start[r - 1] + RoundCount(n)[r - 1]
                 IN  start

WiredRound(first, rounds, r) ==
    [k \in 1 .. RoundCount(Len(first))[r] |->
        LET i     == k - 1
            slots == IF r = 1 THEN first[k] ELSE <<Empty, Empty>>
        IN  IF r = rounds THEN MatchOf(r, i, slots, 0, 0)
            ELSE MatchOf(r, i, slots, RoundStart(Len(first))[r + 1] + (i \div 2), NextSlot(r, i))]

(* wireFedRounds, and the same loop in buildKnockoutFromSlots: the rounds  *)
(* above a filled first round, each match sending its winner to slot       *)
(* i % 2 + 1 of match i / 2 of the next round.                             *)
wireFedRounds(first) ==
    LET rounds == log2(2 * Len(first))
    IN  FlattenSeq([r \in 1 .. rounds |-> WiredRound(first, rounds, r)])

InPairs(slots) == [i \in 1 .. Len(slots) \div 2 |-> <<slots[2 * i - 1], slots[2 * i]>>]

GenerateSingleElimination(entries) ==
    IF Len(entries) < 2 THEN <<>>
    ELSE wireFedRounds(InPairs(placeEntries(entries, seedPositions(nextPowerOfTwo(Len(entries))))))

(* Each pair is used verbatim; the pad is matches of two byes. *)
GenerateFromPairs(pairs) ==
    LET cleaned == Kept(pairs, LAMBDA p : p # <<0, 0>>)
        first   == [i \in 1 .. nextPowerOfTwo(Len(cleaned)) |->
                        IF i <= Len(cleaned) THEN <<pairSlot(cleaned[i][1]), pairSlot(cleaned[i][2])>>
                        ELSE <<Bye, Bye>>]
    IN  IF cleaned = <<>> THEN <<>> ELSE wireFedRounds(first)

(* validatePairs: whether Build goes on with the pairs it is given. *)
validatePairs(pairs, valid) ==
    LET filled == Kept(pairs, LAMBDA p : p # <<0, 0>>)
        ids    == FlattenSeq(filled)
    IN  /\ \A i \in DOMAIN pairs : pairs[i][1] = 0 <=> pairs[i][2] = 0
        /\ \A i \in DOMAIN ids : ids[i] \in valid /\ \A j \in DOMAIN ids : ids[i] = ids[j] => i = j
        /\ filled # <<>>

(* buildKnockoutFromSlots: padded with byes to a power of two. *)
buildKnockoutFromSlots(slots) ==
    LET size == nextPowerOfTwo(Len(slots))
    IN  wireFedRounds(InPairs([i \in 1 .. size |-> IF i <= Len(slots) THEN slots[i] ELSE Bye]))

----------------------------------------------------------------------------
(* Round robin and groups. *)

(* Mutant: the whole list is rotated, its first element included. *)
RotateAll(idx) == [k \in DOMAIN idx |-> IF k = 1 THEN idx[Len(idx)] ELSE idx[k - 1]]

(* The rotation of the circle method: the first stays, the last moves to   *)
(* second place.                                                           *)
Rotate(idx) == [k \in DOMAIN idx |-> IF k = 1 THEN idx[1]
                                     ELSE IF k = 2 THEN idx[Len(idx)] ELSE idx[k - 1]]

Rotations(idx) == LET turned[r \in Nat] == IF r = 0 THEN idx ELSE Rotate(turned[r - 1])
                  IN  turned

(* Round r: the ends of the list meet, then the next two inwards; the one  *)
(* paired with the bye sits out.                                           *)
RoundOf(r, idx) ==
    LET size == Len(idx)
        met  == Kept([i \in 1 .. size \div 2 |-> <<idx[i], idx[size + 1 - i]>>],
                     LAMBDA p : p[1] # 0 /\ p[2] # 0)
    IN  [i \in DOMAIN met |-> MatchOf(r, i - 1, <<pairSlot(met[i][1]), pairSlot(met[i][2])>>, 0, 0)]

GenerateRoundRobin(ids) ==
    LET padded == IF Len(ids) % 2 = 1 THEN Append(ids, 0) ELSE ids
    IN  IF Len(ids) < 2 THEN <<>>
        ELSE FlattenSeq([r \in 1 .. Len(padded) - 1 |-> RoundOf(r, Rotations(padded)[r - 1])])

(* A round robin in every group, then the knockout with its indices moved  *)
(* past the group matches.                                                 *)
TwoStages(groups, knockout) ==
    LET stage == FlattenSeq([g \in DOMAIN groups |->
                    LET rr == GenerateRoundRobin(groups[g])
                    IN  [i \in DOMAIN rr |-> [rr[i] EXCEPT !.group = g]]])
        moved == [i \in DOMAIN knockout |->
                    [knockout[i] EXCEPT !.next = IF @ = 0 THEN 0 ELSE @ + Len(stage)]]
    IN  stage \o moved

(* Mutant: the runner-up comes from the winner's own group. *)
OwnGroup(g, n) == g

(* The group whose runner-up follows the winner of group g. *)
OtherGroup(g, n) == (g % n) + 1

(* A group is [teams, advance].  Each group's winner is followed by the    *)
(* next group's runner-up when this group sends more than one, then by     *)
(* this group's further places.                                            *)
advancerSlots(specs) ==
    LET n == Len(specs)
    IN  FlattenSeq([g \in 1 .. n |->
            <<placement(g, 1)>>
            \o (IF specs[g].advance > 1 THEN <<placement(OtherGroup(g, n), 2)>> ELSE <<>>)
            \o [p \in 1 .. (IF specs[g].advance > 2 THEN specs[g].advance - 2 ELSE 0) |->
                    placement(g, p + 2)]])

groupKnockoutFromAssignment(specs) ==
    TwoStages([g \in DOMAIN specs |-> specs[g].teams],
              buildKnockoutFromSlots(advancerSlots(specs)))

(* How many teams the groups send through together. *)
totalAdvance(specs) == FoldFunction(LAMBDA s, n : s.advance + n, 0, specs)

(* What SetGroups requires of the organizer's assignment. *)
SetGroupsValid(specs, valid) ==
    LET ids == FlattenSeq([g \in DOMAIN specs |-> specs[g].teams])
    IN  /\ specs # <<>>
        /\ \A g \in DOMAIN specs :
              Len(specs[g].teams) >= 2 /\ specs[g].advance \in 1 .. Len(specs[g].teams)
        /\ \A i \in DOMAIN ids : ids[i] \in valid /\ \A j \in DOMAIN ids : ids[i] = ids[j] => i = j
        /\ totalAdvance(specs) >= 2

(* The stable sort by seed, the unseeded as if theirs were 1 << 30. *)
sortBySeed(entries) ==
    LET key(i) == IF entries[i].seed = 0 THEN 1073741824 ELSE entries[i].seed
        Before(i, j) == key(i) < key(j) \/ (key(i) = key(j) /\ i < j)
        rank(i) == Cardinality({j \in DOMAIN entries : Before(j, i)}) + 1
    IN  [k \in DOMAIN entries |-> entries[CHOOSE i \in DOMAIN entries : rank(i) = k]]

(* The group the snake puts the i-th entry in, of n groups. *)
SnakeGroup(i, n) == LET pos == (i - 1) % n
                    IN  IF ((i - 1) \div n) % 2 = 1 THEN n - pos ELSE pos + 1

(* The winners and runners-up that knockoutSeedLabels names, by letter. *)
knockoutSeedLabels(groups, advance) ==
    FlattenSeq([g \in 1 .. groups |->
        IF advance > 1 THEN <<placement(g, 1), placement(OtherGroup(g, groups), 2)>>
        ELSE <<placement(g, 1)>>])

GenerateGroupKnockout(entries, groups, advance) ==
    IF \/ Len(entries) < 4 \/ groups < 2 \/ advance < 1
       \/ groups * advance > Len(entries)
    THEN <<>>
    ELSE LET order == sortBySeed(entries)
             ids   == [i \in DOMAIN order |-> order[i].id]
             group(g) == FlattenSeq([i \in DOMAIN ids |->
                             IF SnakeGroup(i, groups) = g THEN <<ids[i]>> ELSE <<>>])
         IN  TwoStages([g \in 1 .. groups |-> group(g)],
                       buildKnockoutFromSlots(knockoutSeedLabels(groups, advance)))

----------------------------------------------------------------------------
(* The rows persistWithGroups writes: a match with a bye gets status bye,  *)
(* and an empty slot is typed with the match that feeds it.                *)
Persisted(matches) ==
    LET Feeders(m, k) == {i \in DOMAIN matches : matches[i].next = m /\ matches[i].nextSlot = k}
        Typed(m, k)   == LET s == matches[m].slots[k]
                         IN  IF s.type = "empty" /\ Feeders(m, k) # {}
                             THEN [s EXCEPT !.type = "match_winner"] ELSE s
    IN  [m \in DOMAIN matches |->
            [status |-> IF \E k \in 1 .. 2 : matches[m].slots[k].type = "bye" THEN "bye" ELSE "pending",
             group  |-> matches[m].group,
             round  |-> matches[m].round,
             slots  |-> [k \in 1 .. 2 |-> Typed(m, k)],
             feeds  |-> [k \in 1 .. 2 |-> Feeders(m, k)],
             next   |-> matches[m].next]]

(* The round GetBracket and knockoutRounds show a match in: the hops to a  *)
(* match without successor, counted from the deepest match.                *)
RoundsShown(rows, shown) ==
    LET hops[m \in DOMAIN rows] == IF rows[m].next = 0 THEN 0 ELSE hops[rows[m].next] + 1
        maxHops == CHOOSE h \in {hops[m] : m \in shown} : \A m \in shown : hops[m] <= h
    IN  [m \in shown |-> maxHops - hops[m] + 1]
=============================================================================
