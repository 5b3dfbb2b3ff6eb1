------------------------------ MODULE Formats -------------------------------
(***************************************************************************)
(* The pure algorithms of the system put to work one call at a time: the   *)
(* draws an organizer asks for, the seeded generators kept beside them,    *)
(* and the validation of a score.  Each call goes to a state that holds    *)
(* its input and its result, which the properties compare with a           *)
(* definition of what a draw or a match is.                                *)
(***************************************************************************)
EXTENDS Draws, Scoring

CONSTANTS
    Fields,         \* lists of entries [id, seed] for the seeded generators
    Splits,         \* <<groups, advance>> for GenerateGroupKnockout
    PairLists,      \* round-1 pairings an organizer may send
    Assignments,    \* group assignments an organizer may send
    Registered,     \* the division's participants
    Documents,      \* stored scoring documents
    Scores          \* sets an organizer may send

(* Sets as decoded from a submission; a tiebreak's points may be nil. *)
SetScores == [no : Int, p1 : Int, p2 : Int,
              tb1 : {<<>>} \cup [1 .. 1 -> Int], tb2 : {<<>>} \cup [1 .. 1 -> Int]]

ASSUME ScoresAssumption == Scores \subseteq Seq(SetScores)

(* Entries, pairs and teams are named by ids, 0 being nil; an entry or a   *)
(* participant is there once.                                              *)
ASSUME FieldsAssumption ==
    /\ Fields \subseteq Seq([id : Nat \ {0}, seed : Nat])
    /\ \A f \in Fields : \A i, j \in DOMAIN f : f[i].id = f[j].id => i = j

ASSUME SplitsAssumption == Splits \subseteq Int \X Int

ASSUME PairListsAssumption == PairLists \subseteq Seq(Nat \X Nat)

ASSUME AssignmentsAssumption == Assignments \subseteq Seq([teams : Seq(Nat), advance : Int])

ASSUME RegisteredAssumption == IsFiniteSet(Registered) /\ Registered \subseteq Nat \ {0}

VARIABLES call, rows, verdict

formatVars == <<call, rows, verdict>>

NoCall == [op |-> "none"]

Init == call = NoCall /\ rows = <<>> /\ verdict = Refused

Answer(c, r, v) ==
    /\ call' = c /\ rows' = r /\ verdict' = v

Draw(c, matches) == Answer(c, Persisted(matches), Refused)

Seeded == \E f \in Fields :
    Draw([op |-> "seeded", field |-> f], GenerateSingleElimination(f))

SeededGroups == \E f \in Fields, s \in Splits :
    Draw([op |-> "snake", field |-> f, groups |-> s[1], advance |-> s[2]],
         GenerateGroupKnockout(f, s[1], s[2]))

RoundRobin == \E n \in 0 .. Cardinality(Registered) :
    Draw([op |-> "league", teams |-> [i \in 1 .. n |-> i]], GenerateRoundRobin([i \in 1 .. n |-> i]))

(* Service.Build: the pairs are refused or used verbatim. *)
Build == \E p \in PairLists :
    Draw([op |-> "build", pairs |-> p],
         IF validatePairs(p, Registered) THEN GenerateFromPairs(p) ELSE <<>>)

(* Service.SetGroups. *)
SetGroups == \E a \in Assignments :
    Draw([op |-> "groups", specs |-> a],
         IF SetGroupsValid(a, Registered) THEN groupKnockoutFromAssignment(a) ELSE <<>>)

(* The validation in Service.SubmitScore. *)
SubmitScore == \E d \in Documents, s \in Scores, c \in Completions, w \in 0 .. 2 :
    Answer([op |-> "score", cfg |-> ParseScoringConfig(d), sets |-> s, completion |-> c, slot |-> w],
           <<>>, ValidateScore(ParseScoringConfig(d), s, c, w))

Return == call # NoCall /\ call' = NoCall /\ rows' = <<>> /\ verdict' = Refused

Call == call = NoCall /\ (Seeded \/ SeededGroups \/ RoundRobin \/ Build \/ SetGroups \/ SubmitScore)

Next == Call \/ Return

Spec == Init /\ [][Next]_formatVars

----------------------------------------------------------------------------
(* What a draw is. *)

Knockout == {m \in DOMAIN rows : rows[m].group = 0 /\ call.op # "league"}
GroupStage == DOMAIN rows \ Knockout

Entrants(m) == {rows[m].slots[k].team : k \in 1 .. 2}

(* Every persisted knockout is one tree: exactly one match has no          *)
(* successor, every slot waiting for a winner has exactly one feeder and   *)
(* no other slot has any, nothing is left empty, and the round that        *)
(* GetBracket works out from the successors is the one the generator       *)
(* meant (wireFedRounds, persistWithGroups pass 3, GetBracket).            *)
BracketIsTree ==
    Knockout # {} =>
        /\ Cardinality({m \in Knockout : rows[m].next = 0}) = 1
        /\ \A m \in Knockout, k \in 1 .. 2 :
              /\ rows[m].slots[k].type # "empty"
              /\ Cardinality(rows[m].feeds[k]) = IF rows[m].slots[k].type = "match_winner" THEN 1 ELSE 0
        /\ \A m \in Knockout : RoundsShown(rows, Knockout)[m] = rows[m].round

(* In a league and within each group every two teams meet exactly once,    *)
(* nobody plays twice in a round, and teams of different groups do not     *)
(* meet before the knockout (the circle method of GenerateRoundRobin).     *)
MeetOnce ==
    \A g \in {rows[m].group : m \in GroupStage} :
        LET stage == {m \in GroupStage : rows[m].group = g}
            teams == UNION {Entrants(m) : m \in stage}
        IN  /\ 0 \notin teams
            /\ \A m \in GroupStage \ stage : Entrants(m) \cap teams = {}
            /\ \A s, t \in teams : s # t => Cardinality({m \in stage : Entrants(m) = {s, t}}) = 1
            /\ \A m, n \in stage :
                  m # n /\ rows[m].round = rows[n].round => Entrants(m) \cap Entrants(n) = {}

(* The bracket slot, from 1, that a team of the first round starts in. *)
StartSlot(t) == CHOOSE i \in 1 .. 2 * Len(rows) :
    \E m \in DOMAIN rows, k \in 1 .. 2 : rows[m].slots[k].team = t /\ i = 2 * (m - 1) + k

SeedOf(t) == LET i == CHOOSE j \in DOMAIN call.field : call.field[j].id = t IN call.field[i].seed

(* Seeds meet as late as they can: of the 2^k best seeds no two start in   *)
(* the same 1/2^k of the bracket; everyone who entered is drawn once, and  *)
(* in a fully seeded field the byes fall to the best seeds ("so top seeds  *)
(* meet latest", single_elim.go).  In groups the snake balances the seeds: *)
(* groups of two have the same sum.                                        *)
SeedsSpread ==
    /\ call.op = "seeded" /\ Len(call.field) >= 2 =>
        LET size == Len(rows) + 1
            ids  == {call.field[i].id : i \in DOMAIN call.field}
        IN  /\ \A t \in ids : Cardinality({at \in (DOMAIN rows) \X (1 .. 2) :
                                              rows[at[1]].slots[at[2]].team = t}) = 1
            /\ (\A t \in ids : SeedOf(t) > 0) => \A m \in DOMAIN rows :
                  rows[m].status = "bye" => \E t \in Entrants(m) \cap ids : SeedOf(t) <= size - Cardinality(ids)
            /\ \A k \in 1 .. log2(size) : \A s, t \in {u \in ids : SeedOf(u) \in 1 .. Doubled[k]} :
                  s # t => (StartSlot(s) - 1) \div (size \div Doubled[k])
                              # (StartSlot(t) - 1) \div (size \div Doubled[k])
    /\ call.op = "snake" /\ rows # <<>> =>
        LET Group(t) == {rows[m].group : m \in {n \in GroupStage : t \in Entrants(n)}}
            Dealt(g) == {i \in DOMAIN call.field :
                            call.field[i].seed > 0 /\ Group(call.field[i].id) = {g}}
            Total(g) == FoldSet(LAMBDA i, n : call.field[i].seed + n, 0, Dealt(g))
        IN  \A g, h \in 1 .. call.groups :
               Cardinality(Dealt(g)) = 2 /\ Cardinality(Dealt(h)) = 2 => Total(g) = Total(h)

UniformAdvance == \A g, h \in DOMAIN call.specs : call.specs[g].advance = call.specs[h].advance

Placements == {s \in {rows[m].slots[k] : m \in Knockout, k \in 1 .. 2} : s.type = "group_placement"}

Advancing == {placement(g, r) : g \in DOMAIN call.specs, r \in 1 .. Cardinality(Registered)}

(* The knockout that SetGroups builds has one slot for each team that the  *)
(* organizer's advance counts send through, and for no other.              *)
AdvancersAre ==
    call.op = "groups" /\ rows # <<>> =>
        /\ Placements = {s \in Advancing : s.rank <= call.specs[s.group].advance}
        /\ \A s \in Placements : Cardinality({at \in Knockout \X (1 .. 2) :
                                                  rows[at[1]].slots[at[2]] = s}) = 1

(* With the same advance count in every group the knockout has one slot    *)
(* for each advancing place, and a winner does not meet its own group's    *)
(* runner-up in the first round when there is another group ("cross-       *)
(* pairing group winners with other groups' runners-up", advancerSlots).   *)
UniformAdvancersOnce ==
    call.op = "groups" /\ rows # <<>> /\ UniformAdvance =>
        /\ AdvancersAre
        /\ \A m \in Knockout, g \in DOMAIN call.specs :
              {placement(g, 1), placement(g, 2)} = {rows[m].slots[k] : k \in 1 .. 2}
                  => Len(call.specs) = 1

----------------------------------------------------------------------------
(* What a match is: games and points won one at a time. *)

Leads(s, n) == \E i \in 1 .. 2 : s[i] - s[3 - i] >= n
Reached(s, n) == \E i \in 1 .. 2 : s[i] >= n

After(S) == {<<s[1] + 1, s[2]>> : s \in S} \cup {<<s[1], s[2] + 1>> : s \in S}

(* A race to n with a lead of two: the scores after k points with the race *)
(* still on.                                                               *)
RaceOver(s, n) == Reached(s, n) /\ Leads(s, 2)

RaceOn(n) ==
    LET on[k \in Nat] == IF k = 0 THEN {<<0, 0>>} ELSE {s \in After(on[k - 1]) : ~RaceOver(s, n)}
    IN  on

(* A set: six games with a lead of two, or seven. *)
SetOver(s) == RaceOver(s, 6) \/ Reached(s, 7)

SetOn[k \in Nat] == IF k = 0 THEN {<<0, 0>>} ELSE {s \in After(SetOn[k - 1]) : ~SetOver(s)}

(* The points or games before the last one. *)
Before(s) == s[1] + s[2] - 1

RaceResult(s, n) == s \in Nat \X Nat /\ RaceOver(s, n) /\ s \in After(RaceOn(n)[Before(s)])
SetResult(s)     == s \in Nat \X Nat /\ SetOver(s) /\ s \in After(SetOn[Before(s)])

Side(s) == IF s[1] > s[2] THEN 1 ELSE 2

(* The set is one that two sides can have played to its end. *)
Finished(st, decider) ==
    LET games == <<st.p1, st.p2>>
    IN  IF decider THEN RaceResult(games, 10) /\ st.tb1 = <<>> /\ st.tb2 = <<>>
        ELSE /\ SetResult(games)
             /\ IF games \in {<<7, 6>>, <<6, 7>>}
                THEN /\ Len(st.tb1) = 1 /\ Len(st.tb2) = 1
                     /\ RaceResult(<<st.tb1[1], st.tb2[1]>>, 7)
                     /\ Side(<<st.tb1[1], st.tb2[1]>>) = Side(games)
                ELSE st.tb1 = <<>> /\ st.tb2 = <<>>

(* How a verdict must relate to the submission. *)
ScoreRight(cfg, sets, completion, slot, v) ==
    LET n == Len(sets)
        set(k) == sets[CHOOSE i \in 1 .. n : sets[i].no = k]
        numbered == {sets[i].no : i \in 1 .. n} = 1 .. n
        decider(k) == cfg.deciding = "match_tiebreak" /\ k = cfg.bestOf
        side(k) == Side(<<set(k).p1, set(k).p2>>)
        wins(s, k) == Cardinality({i \in 1 .. k : Finished(set(i), decider(i)) /\ side(i) = s})
        toWin == (cfg.bestOf + 1) \div 2
        open(k) == \A s \in 1 .. 2 : wins(s, k) < toWin
        played == /\ n \in 1 .. cfg.bestOf /\ numbered
                  /\ \A k \in 1 .. n : Finished(set(k), decider(k)) /\ open(k - 1)
                  /\ ~open(n)
    IN  /\ completion = "normal" =>
              (v.ok <=> played /\ slot = 0) /\ (v.ok => v.winner = side(n))
        /\ completion = "incomplete" /\ v.ok => numbered /\ open(n)
        /\ v.ok => (v.winner # 0 <=> v.status \in {"completed", "walkover", "retired"})

(* A normal completion is accepted exactly when its sets can have been     *)
(* played, in order and no further than the match lasted, and its winner   *)
(* won the last of them; an incomplete one is accepted only while nobody   *)
(* has won; and exactly the results that count have a winner               *)
(* (ValidateScore, validateSet).                                           *)
ScoreMatchesPlay ==
    call.op = "score" => ScoreRight(call.cfg, call.sets, call.completion, call.slot, verdict)
=============================================================================
