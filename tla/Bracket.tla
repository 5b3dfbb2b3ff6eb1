------------------------------- MODULE Bracket -------------------------------
(***************************************************************************)
(* Scoring and progression of one tournament division: the score endpoint  *)
(* (internal/match: Service.SubmitScore, Repository.SaveScore), the status *)
(* endpoint (Service.SetStatus) and the group-to-knockout resolution       *)
(* (internal/draw: RebuildGroupPlacements, MaybeResolveGroups,             *)
(* ResolveGroups), called by any number of concurrent requests.            *)
(*                                                                         *)
(* Postgres runs every statement at READ COMMITTED.  A request is split    *)
(* where another request's commit can become visible between two of its    *)
(* statements, and inside the SELECT ... FOR UPDATE of the rows it is      *)
(* about to change, between its snapshot and its locks; the statements a   *)
(* row lock protects until commit are one step.                            *)
(***************************************************************************)
EXTENDS Integers, FiniteSets, Functions

CONSTANTS
    Matches,        \* matches of the division
    Participants,
    Groups,         \* groups of its group stage; {} for a plain bracket
    Workers,        \* request handlers that may be in flight together
    NULL,           \* SQL NULL / Go nil
    Source,         \* slot -> its typed source (match_participants.source_*)
    GroupOf,        \* match -> its group, or NULL (matches.group_id)
    InitStatus,     \* match -> status the draw gave it: "pending" or "bye"
    NameOrder,      \* participant -> its place in ORDER BY display_name
    Reported,       \* matches clients send requests about
    Submissions,    \* scores clients submit
    StatusRequests, \* statuses clients ask the status endpoint for
    ManualResolve,  \* whether organisers call POST /events/:id/resolve-groups
    MayFail         \* whether a request may die between two of its steps

Slots == Matches \X {1, 2}

SourceTypes == {"fixed", "group_placement", "match_winner", "bye", "empty"}

Sources == [type  : SourceTypes,
            pid   : Participants \cup {NULL},
            match : Matches \cup {NULL},
            group : Groups \cup {NULL},
            rank  : Nat]

MatchStatus == {"pending", "scheduled", "live", "completed", "walkover",
                "retired", "cancelled", "bye"}

CompletionKinds == {"incomplete", "normal", "walkover", "retired", "cancelled"}

(* A score submission: the winning slot is derived from the sets for       *)
(* "normal" and explicit for "walkover" and "retired"; margin is games of  *)
(* slot 1 minus games of slot 2.                                           *)
Outcomes == [completion : CompletionKinds, slot : 0 .. 2, sets : BOOLEAN, margin : Int]

ASSUME NullAssumption == NULL \notin Participants \cup Matches \cup Groups

ASSUME SourceAssumption == Source \in [Slots -> Sources]

ASSUME DrawAssumption ==
    /\ GroupOf \in [Matches -> Groups \cup {NULL}]
    /\ InitStatus \in [Matches -> {"pending", "bye"}]

(* No generator lets a match feed itself (matches_no_self_feed), and the   *)
(* group stage neither feeds nor consumes winner slots.                    *)
ASSUME FeedAssumption ==
    \A s \in Slots :
        /\ Source[s].type = "match_winner" =>
              /\ Source[s].match \in Matches \ {s[1]}
              /\ GroupOf[Source[s].match] = NULL
        /\ Source[s].type = "fixed" => Source[s].pid \in Participants
        /\ Source[s].type \in {"match_winner", "group_placement"} => GroupOf[s[1]] = NULL

(* Only knockout matches are padded with a bye, and insertSlot refuses a   *)
(* placement in a group that does not exist.                               *)
ASSUME GroupAssumption ==
    /\ \A m \in Matches : GroupOf[m] # NULL => InitStatus[m] = "pending"
    /\ \A s \in Slots : Source[s].type = "group_placement" => Source[s].group \in Groups

(* Postgres sorts equal names in an order of its own; here it is fixed. *)
ASSUME NameAssumption ==
    \A p, q \in Participants : NameOrder[p] = NameOrder[q] => p = q

ASSUME InputAssumption ==
    /\ NameOrder \in [Participants -> Int]
    /\ Reported \subseteq Matches
    /\ Submissions \subseteq Outcomes
    /\ StatusRequests \subseteq {"scheduled", "live"}
    /\ ManualResolve \in BOOLEAN
    /\ MayFail \in BOOLEAN

----------------------------------------------------------------------------
(* What ValidateScore lets through: completion -> (status, winner slot,     *)
(* whether there are sets).                                                *)

(* Mutant: the completion kind is stored as the status. *)
CompletionAsStatus(c) == c

statusForCompletion(c) ==
    CASE c = "normal"    -> "completed"
      [] c = "walkover"  -> "walkover"
      [] c = "retired"   -> "retired"
      [] c = "cancelled" -> "cancelled"
      [] OTHER           -> "live"

decidedStatus(s) == s \in {"completed", "walkover", "retired", "cancelled", "bye"}

ValidOutcome(o) ==
    /\ (o.slot = 0) <=> (o.completion \in {"incomplete", "cancelled"})
    /\ o.completion = "walkover" => ~o.sets
    /\ ~o.sets => o.completion \in {"walkover", "cancelled"} /\ o.margin = 0

----------------------------------------------------------------------------
VARIABLES
    status,      \* matches.status
    winner,      \* matches.winner_participant_id
    scored,      \* whether the match has match_scores rows
    margin,      \* their games, slot 1 minus slot 2
    occupant,    \* match_participants.participant_id, by slot
    audit,       \* the "after" of the match's latest match.score audit entry
    req          \* what each request in flight has read so far

dbVars == <<status, winner, scored, margin, occupant, audit>>
vars   == <<status, winner, scored, margin, occupant, audit, req>>

Steps == {"idle", "submitted", "counted", "locking", "scored", "resolving", "placing", "checked"}

Idle == [pc |-> "idle", match |-> NULL, status |-> NULL, winner |-> NULL,
         sets |-> FALSE, margin |-> 0, complete |-> FALSE, seen |-> {},
         placed |-> [s \in Slots |-> NULL]]

Requests == [pc       : Steps,
             match    : Matches \cup {NULL},
             status   : MatchStatus \cup {NULL},
             winner   : Participants \cup {NULL},
             sets     : BOOLEAN,
             margin   : Int,
             complete : BOOLEAN,
             seen     : SUBSET Matches,     \* downstream matches that looked scored
             placed   : [Slots -> Participants \cup {NULL}]]

TypeOK ==
    /\ status   \in [Matches -> MatchStatus]
    /\ winner   \in [Matches -> Participants \cup {NULL}]
    /\ scored   \in [Matches -> BOOLEAN]
    /\ margin   \in [Matches -> Int]
    /\ occupant \in [Slots -> Participants \cup {NULL}]
    /\ audit    \in [Matches -> [status : MatchStatus, winner : Participants \cup {NULL}]]
    /\ req      \in [Workers -> Requests]
    /\ \A w \in Workers :
          /\ req[w].pc \in {"submitted", "counted", "locking", "scored", "checked"} =>
                req[w].match \in Matches
          /\ req[w].pc \in {"submitted", "counted", "locking", "checked"} =>
                req[w].status \in MatchStatus

(* The division as Build / SetGroups persisted it. *)
Init ==
    /\ status   = InitStatus
    /\ winner   = [m \in Matches |-> NULL]
    /\ scored   = [m \in Matches |-> FALSE]
    /\ margin   = [m \in Matches |-> 0]
    /\ occupant = [s \in Slots |-> IF Source[s].type = "fixed" THEN Source[s].pid ELSE NULL]
    /\ audit    = [m \in Matches |-> [status |-> InitStatus[m], winner |-> NULL]]
    /\ req      = [w \in Workers |-> Idle]

----------------------------------------------------------------------------
(* Group standings (standingsForGroup): wins, then game difference, then   *)
(* display name, over matches that count.  Evaluated on the status, winner,*)
(* margin and occupant functions it is given: inside SaveScore's           *)
(* transaction the first three already hold the new score.                 *)

CountedStatus == {"completed", "walkover", "retired"}

GroupMatches(g) == {m \in Matches : GroupOf[m] = g}

Plays(oc, p, m) == \E i \in {1, 2} : oc[<<m, i>>] = p

Field(oc, g) == {p \in Participants : \E m \in GroupMatches(g) : Plays(oc, p, m)}

Played(st, oc, p, g) == {m \in GroupMatches(g) : st[m] \in CountedStatus /\ Plays(oc, p, m)}

Won(st, wn, oc, p, g) == Cardinality({m \in Played(st, oc, p, g) : wn[m] = p})

GameDiff(st, mg, oc, p, g) ==
    SumFunction([m \in Played(st, oc, p, g) |->
                   IF oc[<<m, 1>>] = p THEN mg[m] ELSE 0 - mg[m]])

Rows(st, wn, mg, oc, g) ==
    {[pid |-> p, won |-> Won(st, wn, oc, p, g), diff |-> GameDiff(st, mg, oc, p, g)] :
        p \in Field(oc, g)}

(* ORDER BY won DESC, game difference DESC, display_name *)
Above(x, y) ==
    \/ x.won > y.won
    \/ x.won = y.won /\ x.diff > y.diff
    \/ x.won = y.won /\ x.diff = y.diff /\ NameOrder[x.pid] < NameOrder[y.pid]

(* The participant at a 1-based rank, NULL when the rank is beyond the field. *)
Standing(st, wn, mg, oc, g, rank) ==
    LET rows == Rows(st, wn, mg, oc, g)
        at   == {x \in rows : Cardinality({y \in rows : Above(y, x)}) = rank - 1}
    IN  IF at = {} THEN NULL ELSE (CHOOSE x \in at : TRUE).pid

----------------------------------------------------------------------------
Consumers(m) == {s \in Slots : Source[s].type = "match_winner" /\ Source[s].match = m}

PlacementSlots(g) == {s \in Slots : Source[s].type = "group_placement" /\ Source[s].group = g}

(* The 409 rule: a match whose slots a correction may no longer change. *)
OpenStatus == {"pending", "scheduled", "bye"}

Started(m) == status[m] \notin OpenStatus \/ scored[m]

(* FOR UPDATE on the source match, held by a transaction between its steps. *)
RowLocked(m) == \E w \in Workers : req[w].pc \in {"counted", "locking"} /\ req[w].match = m

Remaining(g) == {m \in GroupMatches(g) : ~decidedStatus(status[m])}

Finish(w) == req' = [req EXCEPT ![w] = Idle]

(* SubmitScore up to SaveScore: the score is validated and the winning     *)
(* slot is resolved to a participant from a read outside the transaction.  *)
SubmitScore(w, m, o) ==
    /\ req[w].pc = "idle"
    /\ ValidOutcome(o)
    /\ o.slot # 0 => occupant[<<m, o.slot>>] # NULL
    /\ req' = [req EXCEPT ![w] =
                 [Idle EXCEPT !.pc = "submitted", !.match = m,
                              !.status = statusForCompletion(o.completion),
                              !.winner = IF o.slot = 0 THEN NULL ELSE occupant[<<m, o.slot>>],
                              !.sets = o.sets, !.margin = o.margin]]
    /\ UNCHANGED dbVars

(* Mutant: re-scoring a decided match as decided leaves its group alone. *)
AffectsGroupOnToggle(r) ==
    GroupOf[r.match] # NULL /\ decidedStatus(status[r.match]) # decidedStatus(r.status)

(* Mutant: reopening a decided match leaves its group alone. *)
AffectsGroupIfDecided(r) == GroupOf[r.match] # NULL /\ decidedStatus(r.status)

AffectsGroup(r) ==
    GroupOf[r.match] # NULL /\ (decidedStatus(status[r.match]) \/ decidedStatus(r.status))

(* SaveScore on a group match: lock the row, then count the undecided      *)
(* matches of the group with this match's new status.                      *)
CountRemaining(w) ==
    /\ req[w].pc = "submitted"
    /\ AffectsGroup(req[w])
    /\ ~RowLocked(req[w].match)
    /\ LET r    == req[w]
           left == Remaining(GroupOf[r.match]) \ {r.match}
       IN  req' = [req EXCEPT ![w].pc = "counted",
                              ![w].complete = (left = {} /\ decidedStatus(r.status))]
    /\ UNCHANGED dbVars

(* The slots SaveScore may have to rewrite. *)
Touched(r) ==
    (IF winner[r.match] # r.winner THEN Consumers(r.match) ELSE {})
    \cup (IF AffectsGroup(r) THEN PlacementSlots(GroupOf[r.match]) ELSE {})

(* The SELECT ... FOR UPDATE of those slots and their matches takes its    *)
(* snapshot.  While it waits for the row locks below, Postgres re-reads    *)
(* the rows it locks, but EXISTS(match_scores) stays the snapshot's.       *)
LockSlots(w) ==
    /\ \/ req[w].pc = "submitted" /\ ~AffectsGroup(req[w]) /\ ~RowLocked(req[w].match)
       \/ req[w].pc = "counted"
    /\ req' = [req EXCEPT ![w].pc = "locking",
                          ![w].seen = {m \in Matches : scored[m] /\ \E s \in Touched(req[w]) : s[1] = m}]
    /\ UNCHANGED dbVars

(* Mutant: a correction that removes the winner leaves the consumers. *)
RebuiltWhenWon(r) ==
    [s \in Slots |-> IF r.winner \notin {NULL, winner[r.match]} /\ s \in Consumers(r.match)
                     THEN r.winner ELSE occupant[s]]

(* The slots after SaveScore: winner feeds when the winner changed, and    *)
(* the placements of its group (RebuildGroupPlacements).                   *)
Rebuilt(r) ==
    LET st == [status EXCEPT ![r.match] = r.status]
        wn == [winner EXCEPT ![r.match] = r.winner]
        mg == [margin EXCEPT ![r.match] = r.margin]
    IN  [s \in Slots |->
           IF winner[r.match] # r.winner /\ s \in Consumers(r.match) THEN r.winner
           ELSE IF AffectsGroup(r) /\ s \in PlacementSlots(GroupOf[r.match])
                THEN IF r.complete
                     THEN Standing(st, wn, mg, occupant, GroupOf[r.match], Source[s].rank)
                     ELSE NULL
           ELSE occupant[s]]

(* Mutant: scores on a match moved back to "scheduled" do not lock it. *)
LockedByStatusOnly(r, new) ==
    {s \in Slots : new[s] # occupant[s] /\ status[s[1]] \notin OpenStatus}

(* Mutant: a live match is locked, a finished one is not. *)
LockedWhileLive(r, new) ==
    {s \in Slots : /\ new[s] # occupant[s]
                   /\ ~decidedStatus(status[s[1]])
                   /\ status[s[1]] = "live" \/ s[1] \in r.seen}

LockedSlots(r, new) ==
    {s \in Slots : new[s] # occupant[s] /\ (status[s[1]] \notin OpenStatus \/ s[1] \in r.seen)}

(* Mutant: a re-score with the same winner is not audited. *)
RecordIfWinnerChanged(r) ==
    IF winner[r.match] = r.winner THEN UNCHANGED audit
    ELSE audit' = [audit EXCEPT ![r.match] = [status |-> r.status, winner |-> r.winner]]

(* The match.score audit entry, written inside the transaction. *)
RecordTx(r) == audit' = [audit EXCEPT ![r.match] = [status |-> r.status, winner |-> r.winner]]

(* The rest of SaveScore's transaction, once no other transaction holds    *)
(* the matches it waits for: refuse (409, rollback) when a slot of a       *)
(* started match would change, else write everything and commit.  A        *)
(* decided group match goes on to MaybeResolveGroups.                      *)
CommitScore(w) ==
    LET r   == req[w]
        m   == r.match
        new == Rebuilt(r)
    IN  /\ LockedSlots(r, new) = {}
        /\ status'   = [status EXCEPT ![m] = r.status]
        /\ winner'   = [winner EXCEPT ![m] = r.winner]
        /\ scored'   = [scored EXCEPT ![m] = r.sets]
        /\ margin'   = [margin EXCEPT ![m] = r.margin]
        /\ occupant' = new
        /\ RecordTx(r)
        /\ req'      = [req EXCEPT ![w] =
                          IF decidedStatus(r.status) /\ GroupOf[m] # NULL
                          THEN [Idle EXCEPT !.pc = "scored", !.match = m]
                          ELSE Idle]

RefuseScore(w) ==
    /\ LockedSlots(req[w], Rebuilt(req[w])) # {}
    /\ Finish(w)
    /\ UNCHANGED dbVars

SaveScore(w) ==
    /\ req[w].pc = "locking"
    /\ \A s \in Touched(req[w]) : ~RowLocked(s[1])
    /\ CommitScore(w) \/ RefuseScore(w)

(* Mutant: nothing re-checks the group stage after the commit. *)
NoResolveAfterScore(w) == req[w].pc = "scored" /\ Finish(w) /\ UNCHANGED dbVars

(* MaybeResolveGroups, after the commit and outside its transaction. *)
MaybeResolveGroups(w) ==
    /\ req[w].pc = "scored"
    /\ IF \A g \in Groups : Remaining(g) = {}
       THEN req' = [req EXCEPT ![w] = [Idle EXCEPT !.pc = "resolving"]]
       ELSE Finish(w)
    /\ UNCHANGED dbVars

(* The organiser's own call of ResolveGroups. *)
CallResolveGroups(w) ==
    /\ ManualResolve
    /\ Groups # {}
    /\ req[w].pc = "idle"
    /\ req' = [req EXCEPT ![w] = [Idle EXCEPT !.pc = "resolving"]]
    /\ UNCHANGED dbVars

(* ResolveGroups reads the standings of every referenced group... *)
ReadStandings(w) ==
    /\ req[w].pc = "resolving"
    /\ req' = [req EXCEPT ![w] =
                 [Idle EXCEPT !.pc = "placing",
                              !.placed = [s \in Slots |->
                                 IF Source[s].type = "group_placement"
                                 THEN Standing(status, winner, margin, occupant,
                                               Source[s].group, Source[s].rank)
                                 ELSE NULL]]]
    /\ UNCHANGED dbVars

(* ...then writes each placement slot, whatever its match is doing, skipping *)
(* ranks beyond the field.                                                 *)
WritePlacements(w) ==
    /\ req[w].pc = "placing"
    /\ occupant' = [s \in Slots |->
                      IF req[w].placed[s] # NULL THEN req[w].placed[s] ELSE occupant[s]]
    /\ Finish(w)
    /\ UNCHANGED <<status, winner, scored, margin, audit>>

(* SetStatus: the guard reads the match, the write is a later UPDATE. *)
CheckStatus(w, m, new) ==
    /\ req[w].pc = "idle"
    /\ ~decidedStatus(status[m])
    /\ req' = [req EXCEPT ![w] = [Idle EXCEPT !.pc = "checked", !.match = m, !.status = new]]
    /\ UNCHANGED dbVars

SetStatus(w) ==
    /\ req[w].pc = "checked"
    /\ ~RowLocked(req[w].match)
    /\ status' = [status EXCEPT ![req[w].match] = req[w].status]
    /\ Finish(w)
    /\ UNCHANGED <<winner, scored, margin, occupant, audit>>

(* The request dies (crash, cancelled context): Postgres rolls back. *)
Fail(w) ==
    /\ MayFail
    /\ req[w].pc # "idle"
    /\ Finish(w)
    /\ UNCHANGED dbVars

Progress(w) ==
    \/ CountRemaining(w)
    \/ LockSlots(w)
    \/ SaveScore(w)
    \/ MaybeResolveGroups(w)
    \/ ReadStandings(w)
    \/ WritePlacements(w)
    \/ SetStatus(w)

Arrive(w) ==
    \/ \E m \in Reported, o \in Submissions : SubmitScore(w, m, o)
    \/ \E m \in Reported, new \in StatusRequests : CheckStatus(w, m, new)
    \/ CallResolveGroups(w)

Next == \E w \in Workers : Arrive(w) \/ Progress(w) \/ Fail(w)

Spec == Init /\ [][Next]_vars

(* The server does not stop while some accepted request can take a step.  *)
(* This is all the fairness used: one request may starve behind others,    *)
(* and nothing makes a client send one.                                    *)
FairSpec == Spec /\ WF_vars(\E w \in Workers : Progress(w))

----------------------------------------------------------------------------
(* Properties *)

(* A knockout slot fed by a match always holds that match's recorded       *)
(* winner: SaveScore rewrites every direct consumer in the transaction     *)
(* that changes the winner, however corrections interleave.                *)
FeedConsistent ==
    \A s \in Slots :
        Source[s].type = "match_winner" => occupant[s] = winner[Source[s].match]

(* Only ResolveGroups, which has no such check, ever changes who plays in  *)
(* a match that is live or decided at that moment: every score correction  *)
(* and group rebuild that would do so is refused as a whole, also when the *)
(* match was started while the correction waited for its row.              *)
LiveMatchesSpared ==
    [][\A s \in Slots :
         occupant'[s] # occupant[s] =>
            status[s[1]] \in OpenStatus \/ \E w \in Workers : WritePlacements(w)]_vars

(* The 409 rule in full: nor does a correction change who plays in a match *)
(* that has scores ("409 if any changed slot's match has started",         *)
(* SaveScore).                                                             *)
CorrectionsSpareStarted ==
    [][\A s \in Slots :
         occupant'[s] # occupant[s] =>
            ~Started(s[1]) \/ \E w \in Workers : WritePlacements(w)]_vars

(* The result a match shows (its winner, and its status once decided) is   *)
(* the one its latest audit entry records: no path decides a match or      *)
(* changes its winner outside the audited transaction.                     *)
ResultAudited ==
    \A m \in Matches :
        /\ audit[m].winner = winner[m]
        /\ decidedStatus(status[m]) => audit[m].status = status[m]

(* The recorded winner of a match is one of the two sides in its slots. *)
WinnerPlays == \A m \in Matches : winner[m] # NULL => Plays(occupant, winner[m], m)

(* Once the score endpoint decided a match, only the score endpoint moves  *)
(* it out of that status: the status endpoint cannot demote it.            *)
DecidedOnlyCorrected ==
    \A m \in Matches : decidedStatus(audit[m].status) => status[m] = audit[m].status

Quiescent == \A w \in Workers : req[w].pc = "idle"

(* With no request in flight, a complete group's knockout slots hold its   *)
(* current standings.                                                      *)
PlacementsCurrent ==
    Quiescent => \A g \in Groups : Remaining(g) = {} =>
        \A s \in PlacementSlots(g) :
            occupant[s] = Standing(status, winner, margin, occupant, g, Source[s].rank)

(* With no request in flight, a group that a correction reopened (or that  *)
(* never finished) leaves its knockout slots unresolved.                   *)
OpenGroupUnresolved ==
    Quiescent => \A g \in Groups : Remaining(g) # {} =>
        \A s \in PlacementSlots(g) : occupant[s] = NULL

(* When every group match stays decided, the knockout placements are       *)
(* eventually filled, although two overlapping last scores may each have   *)
(* seen the other's match undecided: the post-commit MaybeResolveGroups of *)
(* the later one repairs it.                                               *)
GroupStageResolves ==
    (<>[](\A g \in Groups : Remaining(g) = {})) =>
        <>[](\A g \in Groups : \A s \in PlacementSlots(g) : occupant[s] # NULL)
=============================================================================
