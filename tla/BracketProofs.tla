---------------------------- MODULE BracketProofs ----------------------------
(***************************************************************************)
(* Theorems about Bracket for every division, every set of submissions and *)
(* any number of overlapping requests.                                     *)
(***************************************************************************)
EXTENDS Bracket, TLAPS

USE NullAssumption, SourceAssumption, DrawAssumption, FeedAssumption, InputAssumption

(* A request record with no request in it is well formed. *)
LEMMA IdleType == Idle \in Requests
  BY DEF Idle, Requests, Steps

(* Whatever scores it is computed from, a standings rank names a           *)
(* participant of the division or nobody.                                  *)
LEMMA StandingType ==
  ASSUME NEW st, NEW wn, NEW mg, NEW oc, NEW g, NEW rank
  PROVE  Standing(st, wn, mg, oc, g, rank) \in Participants \cup {NULL}
<1> DEFINE rows == Rows(st, wn, mg, oc, g)
           at   == {x \in rows : Cardinality({y \in rows : Above(y, x)}) = rank - 1}
<1>1. \A x \in rows : x.pid \in Participants
  BY DEF Rows, Field
<1>2. CASE at = {}
  BY <1>2 DEF Standing
<1>3. CASE at # {}
  <2>1. (CHOOSE x \in at : TRUE) \in at
    BY <1>3
  <2>2. (CHOOSE x \in at : TRUE).pid \in Participants
    BY <1>1, <2>1
  <2> QED
    BY <1>3, <2>2 DEF Standing
<1> QED
  BY <1>2, <1>3

(* The slots SaveScore would write are well typed. *)
LEMMA RebuiltType ==
  ASSUME TypeOK, NEW r \in Requests
  PROVE  Rebuilt(r) \in [Slots -> Participants \cup {NULL}]
<1> DEFINE st == [status EXCEPT ![r.match] = r.status]
           wn == [winner EXCEPT ![r.match] = r.winner]
           mg == [margin EXCEPT ![r.match] = r.margin]
<1>1. \A s \in Slots : Standing(st, wn, mg, occupant, GroupOf[r.match], Source[s].rank)
                          \in Participants \cup {NULL}
  BY StandingType
<1>2. r.winner \in Participants \cup {NULL} /\ occupant \in [Slots -> Participants \cup {NULL}]
  BY DEF Requests, TypeOK
<1> HIDE DEF st, wn, mg
<1> QED
  BY <1>1, <1>2 DEF Rebuilt, st, wn, mg

(* The persisted draw is well typed. *)
LEMMA TypeInit == Init => TypeOK
<1> SUFFICES ASSUME Init PROVE TypeOK
  OBVIOUS
<1>1. \A w \in Workers : req[w] = Idle /\ req[w].pc = "idle"
  BY DEF Init, Idle
<1>2. /\ status \in [Matches -> MatchStatus]
      /\ winner \in [Matches -> Participants \cup {NULL}]
      /\ scored \in [Matches -> BOOLEAN]
      /\ margin \in [Matches -> Int]
      /\ audit \in [Matches -> [status : MatchStatus, winner : Participants \cup {NULL}]]
  BY DEF Init, MatchStatus
<1>3. occupant \in [Slots -> Participants \cup {NULL}]
  BY DEF Init, Sources
<1>4. req \in [Workers -> Requests]
  BY IdleType DEF Init
<1> QED
  BY <1>1, <1>2, <1>3, <1>4 DEF TypeOK

(* One request moving to a well-formed record, with a match and a status   *)
(* where its step needs them, keeps every request well formed.             *)
LEMMA RequestType ==
  ASSUME TypeOK, NEW w \in Workers, NEW r \in Requests,
         r.pc \in {"submitted", "counted", "locking", "scored", "checked"} => r.match \in Matches,
         r.pc \in {"submitted", "counted", "locking", "checked"} => r.status \in MatchStatus,
         req' = [req EXCEPT ![w] = r]
  PROVE  /\ req' \in [Workers -> Requests]
         /\ \A v \in Workers :
              /\ req'[v].pc \in {"submitted", "counted", "locking", "scored", "checked"} =>
                    req'[v].match \in Matches
              /\ req'[v].pc \in {"submitted", "counted", "locking", "checked"} =>
                    req'[v].status \in MatchStatus
<1>1. req \in [Workers -> Requests]
  BY DEF TypeOK
<1>2. \A v \in Workers : req'[v] = IF v = w THEN r ELSE req[v]
  BY <1>1
<1> QED
  BY <1>1, <1>2 DEF TypeOK

(* The same for a request that ends. *)
LEMMA FinishType ==
  ASSUME TypeOK, NEW w \in Workers, Finish(w)
  PROVE  /\ req' \in [Workers -> Requests]
         /\ \A v \in Workers :
              /\ req'[v].pc \in {"submitted", "counted", "locking", "scored", "checked"} =>
                    req'[v].match \in Matches
              /\ req'[v].pc \in {"submitted", "counted", "locking", "checked"} =>
                    req'[v].status \in MatchStatus
<1>1. Idle.pc = "idle"
  BY DEF Idle
<1> QED
  BY <1>1, IdleType, RequestType DEF Finish

(* What the snapshot of SaveScore's SELECT ... FOR UPDATE adds to a        *)
(* request: the downstream matches with scores, nothing else.              *)
LockedAs(w, r) ==
    /\ req' = [req EXCEPT ![w] = r] /\ UNCHANGED dbVars
    /\ r.pc = "locking"
    /\ r.match = req[w].match /\ r.match \in Matches
    /\ r.status = req[w].status /\ r.status \in MatchStatus
    /\ r.winner = req[w].winner /\ r.complete = req[w].complete /\ r.placed = req[w].placed
    /\ r.seen = {m \in Matches : scored[m] /\ \E s \in Touched(req[w]) : s[1] = m}

LEMMA LockStep ==
  ASSUME TypeOK, NEW w \in Workers, LockSlots(w)
  PROVE  \E r \in Requests : LockedAs(w, r)
<1> DEFINE S == {m \in Matches : scored[m] /\ \E s \in Touched(req[w]) : s[1] = m}
           r == [req[w] EXCEPT !.pc = "locking", !.seen = S]
<1>1. req[w] \in Requests /\ req[w].match \in Matches /\ req[w].status \in MatchStatus
  BY DEF LockSlots, TypeOK
<1>2. req' = [req EXCEPT ![w] = r] /\ UNCHANGED dbVars
  BY <1>1 DEF LockSlots, TypeOK
<1>3. S \in SUBSET Matches
  OBVIOUS
<1> HIDE DEF S
<1>4. /\ r \in Requests /\ r.pc = "locking" /\ r.seen = S
      /\ r.match = req[w].match /\ r.status = req[w].status
      /\ r.winner = req[w].winner /\ r.complete = req[w].complete /\ r.placed = req[w].placed
  BY <1>1, <1>3 DEF Requests, Steps
<1> HIDE DEF r
<1> QED
  BY <1>1, <1>2, <1>4 DEF LockedAs, S

(* Committing a score keeps the division well typed. *)
LEMMA CommitType ==
  ASSUME TypeOK, NEW w \in Workers,
         req[w].pc = "locking", CommitScore(w)
  PROVE  TypeOK'
<1> DEFINE r == req[w]
<1>1. r \in Requests /\ r.match \in Matches /\ r.status \in MatchStatus
  BY DEF TypeOK
<1>2. /\ r.winner \in Participants \cup {NULL}
      /\ r.sets \in BOOLEAN
      /\ r.margin \in Int
  BY <1>1 DEF Requests
<1>3. Rebuilt(r) \in [Slots -> Participants \cup {NULL}]
  BY <1>1, RebuiltType
<1>4. /\ status' \in [Matches -> MatchStatus]
      /\ winner' \in [Matches -> Participants \cup {NULL}]
      /\ scored' \in [Matches -> BOOLEAN]
      /\ margin' \in [Matches -> Int]
      /\ audit' \in [Matches -> [status : MatchStatus, winner : Participants \cup {NULL}]]
  BY <1>1, <1>2 DEF CommitScore, RecordTx, TypeOK
<1>5. occupant' \in [Slots -> Participants \cup {NULL}]
  BY <1>3 DEF CommitScore
<1> DEFINE d == [Idle EXCEPT !.pc = "scored", !.match = r.match]
<1>6. d \in Requests /\ d.pc = "scored" /\ d.match \in Matches
  BY <1>1, IdleType DEF Idle, Requests, Steps
<1>7. CASE decidedStatus(r.status) /\ GroupOf[r.match] # NULL
  <2>1. req' = [req EXCEPT ![w] = d]
    BY <1>7 DEF CommitScore
  <2> HIDE DEF d
  <2> QED
    BY <1>4, <1>5, <1>6, <2>1, RequestType DEF TypeOK
<1>8. CASE ~(decidedStatus(r.status) /\ GroupOf[r.match] # NULL)
  <2>1. Finish(w)
    BY <1>8 DEF CommitScore, Finish
  <2> QED
    BY <1>4, <1>5, <2>1, FinishType DEF TypeOK
<1> QED
  BY <1>7, <1>8

(* Every step keeps the division and the requests well typed. *)
LEMMA TypeStep == TypeOK /\ [Next]_vars => TypeOK'
<1> SUFFICES ASSUME TypeOK, [Next]_vars PROVE TypeOK'
  OBVIOUS
<1> USE DEF dbVars
<1>1. ASSUME NEW w \in Workers, NEW m \in Reported, NEW o \in Submissions, SubmitScore(w, m, o)
      PROVE  TypeOK'
  <2> DEFINE r == [Idle EXCEPT !.pc = "submitted", !.match = m,
                               !.status = statusForCompletion(o.completion),
                               !.winner = IF o.slot = 0 THEN NULL ELSE occupant[<<m, o.slot>>],
                               !.sets = o.sets, !.margin = o.margin]
  <2>1. m \in Matches /\ o \in Outcomes
    OBVIOUS
  <2>2. o.sets \in BOOLEAN /\ o.margin \in Int /\ o.slot \in 0 .. 2
    BY <2>1 DEF Outcomes
  <2>3. statusForCompletion(o.completion) \in MatchStatus
    BY DEF statusForCompletion, MatchStatus
  <2>4. (IF o.slot = 0 THEN NULL ELSE occupant[<<m, o.slot>>]) \in Participants \cup {NULL}
    BY <2>1, <2>2 DEF TypeOK, Slots
  <2>5. r \in Requests /\ r.pc = "submitted" /\ r.match = m
        /\ r.status = statusForCompletion(o.completion)
    BY <2>1, <2>2, <2>3, <2>4 DEF Idle, Requests, Steps
  <2>6. req' = [req EXCEPT ![w] = r]
    BY <1>1 DEF SubmitScore
  <2> HIDE DEF r
  <2> QED
    BY <1>1, <2>1, <2>3, <2>5, <2>6, RequestType DEF SubmitScore, TypeOK
<1>2. ASSUME NEW w \in Workers, CountRemaining(w)
      PROVE  TypeOK'
  <2> DEFINE c == (Remaining(GroupOf[req[w].match]) \ {req[w].match} = {}
                   /\ decidedStatus(req[w].status))
             r == [req[w] EXCEPT !.pc = "counted", !.complete = c]
  <2>1. req[w] \in Requests /\ req[w].match \in Matches /\ req[w].status \in MatchStatus
    BY <1>2 DEF CountRemaining, TypeOK
  <2>2. c \in BOOLEAN
    BY DEF decidedStatus
  <2>3. req' = [req EXCEPT ![w] = r]
    BY <1>2, <2>1 DEF CountRemaining, TypeOK
  <2> HIDE DEF c
  <2>4. r \in Requests /\ r.match = req[w].match /\ r.status = req[w].status
    BY <2>1, <2>2 DEF Requests, Steps
  <2> HIDE DEF r
  <2>7. UNCHANGED dbVars
    BY <1>2 DEF CountRemaining
  <2> QED
    BY <2>1, <2>3, <2>4, <2>7, RequestType DEF TypeOK
<1>3. ASSUME NEW w \in Workers, RefuseScore(w)
      PROVE  TypeOK'
  BY <1>3, FinishType DEF RefuseScore, TypeOK
<1>4. ASSUME NEW w \in Workers, SaveScore(w)
      PROVE  TypeOK'
  BY <1>3, <1>4, CommitType DEF SaveScore
<1>5. ASSUME NEW w \in Workers, LockSlots(w)
      PROVE  TypeOK'
  <2>1. PICK r \in Requests : LockedAs(w, r)
    BY <1>5, LockStep
  <2>2. /\ req' = [req EXCEPT ![w] = r] /\ UNCHANGED dbVars
        /\ r.match \in Matches /\ r.status \in MatchStatus
    BY <2>1 DEF LockedAs
  <2> QED
    BY <2>2, RequestType DEF TypeOK
<1> DEFINE v == [Idle EXCEPT !.pc = "resolving"]
<1>6. v \in Requests /\ v.pc = "resolving"
  BY IdleType DEF Idle, Requests, Steps
<1> HIDE DEF v
<1>7. ASSUME NEW w \in Workers, req' = [req EXCEPT ![w] = v], UNCHANGED dbVars
      PROVE  TypeOK'
  BY <1>6, <1>7, RequestType DEF TypeOK
<1>8. ASSUME NEW w \in Workers, MaybeResolveGroups(w)
      PROVE  TypeOK'
  <2>1. CASE \A g \in Groups : Remaining(g) = {}
    BY <1>7, <1>8, <2>1 DEF MaybeResolveGroups, v
  <2>2. CASE ~ \A g \in Groups : Remaining(g) = {}
    BY <1>8, <2>2, FinishType DEF MaybeResolveGroups, TypeOK
  <2> QED
    BY <2>1, <2>2
<1>9. ASSUME NEW w \in Workers, CallResolveGroups(w)
      PROVE  TypeOK'
  BY <1>7, <1>9 DEF CallResolveGroups, v
<1>10. ASSUME NEW w \in Workers, ReadStandings(w)
       PROVE  TypeOK'
  <2> DEFINE pl == [s \in Slots |->
                       IF Source[s].type = "group_placement"
                       THEN Standing(status, winner, margin, occupant, Source[s].group, Source[s].rank)
                       ELSE NULL]
             r  == [Idle EXCEPT !.pc = "placing", !.placed = pl]
  <2>1. pl \in [Slots -> Participants \cup {NULL}]
    BY StandingType
  <2>2. req' = [req EXCEPT ![w] = r]
    BY <1>10 DEF ReadStandings
  <2> HIDE DEF pl
  <2>3. r \in Requests /\ r.pc = "placing"
    BY <2>1, IdleType DEF Idle, Requests, Steps
  <2> HIDE DEF r
  <2>4. UNCHANGED dbVars
    BY <1>10 DEF ReadStandings
  <2> QED
    BY <2>2, <2>3, <2>4, RequestType DEF TypeOK
<1>11. ASSUME NEW w \in Workers, WritePlacements(w)
       PROVE  TypeOK'
  <2>1. req[w].placed \in [Slots -> Participants \cup {NULL}]
    BY DEF TypeOK, Requests
  <2>2. occupant' \in [Slots -> Participants \cup {NULL}]
    BY <1>11, <2>1 DEF WritePlacements, TypeOK
  <2> QED
    BY <1>11, <2>2, FinishType DEF WritePlacements, TypeOK
<1>12. ASSUME NEW w \in Workers, NEW m \in Reported, NEW new \in StatusRequests, CheckStatus(w, m, new)
       PROVE  TypeOK'
  <2> DEFINE r == [Idle EXCEPT !.pc = "checked", !.match = m, !.status = new]
  <2>1. m \in Matches /\ new \in MatchStatus
    BY DEF MatchStatus
  <2>2. r \in Requests /\ r.pc = "checked" /\ r.match = m /\ r.status = new
    BY <2>1, IdleType DEF Idle, Requests, Steps
  <2>3. req' = [req EXCEPT ![w] = r]
    BY <1>12 DEF CheckStatus
  <2> HIDE DEF r
  <2> QED
    BY <1>12, <2>1, <2>2, <2>3, RequestType DEF CheckStatus, TypeOK
<1>13. ASSUME NEW w \in Workers, SetStatus(w)
       PROVE  TypeOK'
  <2>1. status' \in [Matches -> MatchStatus]
    BY <1>13 DEF SetStatus, TypeOK
  <2> QED
    BY <1>13, <2>1, FinishType DEF SetStatus, TypeOK
<1>14. ASSUME NEW w \in Workers, Fail(w)
       PROVE  TypeOK'
  BY <1>14, FinishType DEF Fail, TypeOK
<1>15. CASE UNCHANGED vars
  BY <1>15 DEF vars, TypeOK
<1> QED
  BY <1>1, <1>2, <1>4, <1>5, <1>8, <1>9, <1>10, <1>11, <1>12, <1>13, <1>14, <1>15
     DEF Next, Arrive, Progress

(* However requests interleave, matches, slots, audit entries and requests *)
(* in flight hold values of their columns' types, and a transaction that   *)
(* rebuilds group placements works on a group match.                       *)
THEOREM TypeCorrect == Spec => []TypeOK
<1> QED
  BY TypeInit, TypeStep, PTL DEF Spec

----------------------------------------------------------------------------
(* Winner feeds.  FeedConsistent alone is not inductive: WritePlacements   *)
(* writes what ReadStandings put aside, so the strengthening says that     *)
(* only group-placement slots were put aside.                              *)

OnlyPlacementsPlaced ==
    \A w \in Workers : \A s \in Slots :
        req[w].placed[s] # NULL => Source[s].type = "group_placement"

FeedInv == TypeOK /\ FeedConsistent /\ OnlyPlacementsPlaced

(* A step that replaces one request by one with nothing put aside keeps    *)
(* OnlyPlacementsPlaced.                                                   *)
LEMMA PlacedKept ==
  ASSUME TypeOK, OnlyPlacementsPlaced, NEW w \in Workers, NEW r,
         \A s \in Slots : r.placed[s] # NULL => Source[s].type = "group_placement",
         req' = [req EXCEPT ![w] = r]
  PROVE  OnlyPlacementsPlaced'
<1>1. \A v \in Workers : req'[v] = IF v = w THEN r ELSE req[v]
  BY DEF TypeOK
<1> QED
  BY <1>1 DEF OnlyPlacementsPlaced

(* A request with nothing in flight has no placements put aside. *)
LEMMA IdlePlacesNothing == \A s \in Slots : Idle.placed[s] = NULL
  BY DEF Idle

(* Ending a request leaves nothing put aside for it. *)
LEMMA FinishKeepsPlaced ==
  ASSUME TypeOK, OnlyPlacementsPlaced, NEW w \in Workers, Finish(w)
  PROVE  OnlyPlacementsPlaced'
  BY IdlePlacesNothing, PlacedKept DEF Finish

(* SaveScore's transaction leaves every winner feed equal to its source's  *)
(* winner, also when the winner is replaced or taken back.                 *)
LEMMA CommitFeeds ==
  ASSUME FeedInv, NEW w \in Workers,
         req[w].pc = "locking", CommitScore(w)
  PROVE  FeedConsistent' /\ OnlyPlacementsPlaced'
<1> DEFINE r == req[w]
<1>1. TypeOK /\ r.match \in Matches
  BY DEF FeedInv, TypeOK
<1>2. winner' = [winner EXCEPT ![r.match] = r.winner] /\ occupant' = Rebuilt(r)
  BY DEF CommitScore
<1>3. ASSUME NEW s \in Slots, Source[s].type = "match_winner"
      PROVE  occupant'[s] = winner'[Source[s].match]
  <2>1. occupant[s] = winner[Source[s].match] /\ Source[s].match \in Matches
    BY <1>3 DEF FeedInv, FeedConsistent
  <2>2. s \notin PlacementSlots(GroupOf[r.match])
    BY <1>3 DEF PlacementSlots
  <2>3. s \in Consumers(r.match) <=> Source[s].match = r.match
    BY <1>3 DEF Consumers
  <2>4. occupant'[s] = IF winner[r.match] # r.winner /\ s \in Consumers(r.match)
                       THEN r.winner ELSE occupant[s]
    BY <1>2, <2>2 DEF Rebuilt
  <2> QED
    BY <1>1, <1>2, <2>1, <2>3, <2>4 DEF TypeOK
<1>4. OnlyPlacementsPlaced'
  <2>1. \A s \in Slots : [Idle EXCEPT !.pc = "scored", !.match = r.match].placed[s] = NULL
    BY DEF Idle
  <2>2. PICK q : q \in {Idle, [Idle EXCEPT !.pc = "scored", !.match = r.match]}
                 /\ req' = [req EXCEPT ![w] = q]
    BY DEF CommitScore
  <2>3. \A s \in Slots : q.placed[s] = NULL
    BY <2>1, <2>2, IdlePlacesNothing
  <2> QED
    BY <1>1, <2>2, <2>3, PlacedKept DEF FeedInv
<1> QED
  BY <1>3, <1>4 DEF FeedConsistent

(* A step that only replaces such a request changes no feed. *)
LEMMA RequestKeepsFeeds ==
  ASSUME FeedInv, NEW w \in Workers, NEW r,
         \A s \in Slots : r.placed[s] # NULL => Source[s].type = "group_placement",
         req' = [req EXCEPT ![w] = r], UNCHANGED <<occupant, winner>>
  PROVE  FeedConsistent' /\ OnlyPlacementsPlaced'
<1>1. OnlyPlacementsPlaced'
  BY PlacedKept DEF FeedInv
<1>2. FeedConsistent'
  BY DEF FeedInv, FeedConsistent
<1> QED
  BY <1>1, <1>2

(* Every step keeps the winner feeds equal to their sources' winners. *)
LEMMA FeedStep == FeedInv /\ [Next]_vars => FeedInv'
<1> SUFFICES ASSUME FeedInv, [Next]_vars PROVE FeedConsistent' /\ OnlyPlacementsPlaced'
  BY TypeStep DEF FeedInv
<1> USE DEF dbVars
<1>0. TypeOK /\ FeedConsistent /\ OnlyPlacementsPlaced
  BY DEF FeedInv
<1>1. ASSUME NEW w \in Workers, NEW m \in Reported, NEW o \in Submissions, SubmitScore(w, m, o)
      PROVE  FeedConsistent' /\ OnlyPlacementsPlaced'
  <2> DEFINE r == [Idle EXCEPT !.pc = "submitted", !.match = m,
                               !.status = statusForCompletion(o.completion),
                               !.winner = IF o.slot = 0 THEN NULL ELSE occupant[<<m, o.slot>>],
                               !.sets = o.sets, !.margin = o.margin]
  <2>1. \A s \in Slots : r.placed[s] = NULL
    BY DEF Idle
  <2>2. req' = [req EXCEPT ![w] = r] /\ UNCHANGED dbVars
    BY <1>1 DEF SubmitScore
  <2> HIDE DEF r
  <2> QED
    BY <1>0, <2>1, <2>2, RequestKeepsFeeds
<1>2. ASSUME NEW w \in Workers, CountRemaining(w)
      PROVE  FeedConsistent' /\ OnlyPlacementsPlaced'
  <2> DEFINE c == (Remaining(GroupOf[req[w].match]) \ {req[w].match} = {}
                   /\ decidedStatus(req[w].status))
             r == [req[w] EXCEPT !.pc = "counted", !.complete = c]
  <2>1. req' = [req EXCEPT ![w] = r] /\ UNCHANGED dbVars
    BY <1>0, <1>2 DEF CountRemaining, TypeOK
  <2>2. r.placed = req[w].placed
    BY <1>0 DEF TypeOK, Requests
  <2> HIDE DEF r
  <2>3. \A s \in Slots : r.placed[s] # NULL => Source[s].type = "group_placement"
    BY <1>0, <2>2 DEF OnlyPlacementsPlaced
  <2> QED
    BY <2>1, <2>3, RequestKeepsFeeds
<1>3. ASSUME NEW w \in Workers, Finish(w), UNCHANGED <<occupant, winner>>
      PROVE  FeedConsistent' /\ OnlyPlacementsPlaced'
  BY <1>0, <1>3, FinishKeepsPlaced DEF FeedConsistent
<1>4. ASSUME NEW w \in Workers, SaveScore(w)
      PROVE  FeedConsistent' /\ OnlyPlacementsPlaced'
  BY <1>3, <1>4, CommitFeeds DEF SaveScore, RefuseScore
<1>5. ASSUME NEW w \in Workers, LockSlots(w)
      PROVE  FeedConsistent' /\ OnlyPlacementsPlaced'
  <2>1. PICK r \in Requests : LockedAs(w, r)
    BY <1>0, <1>5, LockStep
  <2>2. req' = [req EXCEPT ![w] = r] /\ r.placed = req[w].placed /\ UNCHANGED dbVars
    BY <2>1 DEF LockedAs
  <2>3. \A s \in Slots : r.placed[s] # NULL => Source[s].type = "group_placement"
    BY <1>0, <2>2 DEF OnlyPlacementsPlaced
  <2> QED
    BY <2>2, <2>3, RequestKeepsFeeds
<1>6. ASSUME NEW w \in Workers, req' = [req EXCEPT ![w] = [Idle EXCEPT !.pc = "resolving"]],
             UNCHANGED dbVars
      PROVE  FeedConsistent' /\ OnlyPlacementsPlaced'
  <2>1. \A s \in Slots : [Idle EXCEPT !.pc = "resolving"].placed[s] = NULL
    BY DEF Idle
  <2>2. PICK r : r = [Idle EXCEPT !.pc = "resolving"]
    OBVIOUS
  <2>3. req' = [req EXCEPT ![w] = r] /\ \A s \in Slots : r.placed[s] = NULL
    BY <1>6, <2>1, <2>2
  <2>4. \A s \in Slots : r.placed[s] # NULL => Source[s].type = "group_placement"
    BY <2>3
  <2>5. UNCHANGED <<occupant, winner>>
    BY <1>6
  <2> QED
    BY <2>3, <2>4, <2>5, RequestKeepsFeeds
<1>7. ASSUME NEW w \in Workers, MaybeResolveGroups(w)
      PROVE  FeedConsistent' /\ OnlyPlacementsPlaced'
  BY <1>3, <1>6, <1>7 DEF MaybeResolveGroups
<1>8. ASSUME NEW w \in Workers, CallResolveGroups(w)
      PROVE  FeedConsistent' /\ OnlyPlacementsPlaced'
  BY <1>6, <1>8 DEF CallResolveGroups
<1>9. ASSUME NEW w \in Workers, ReadStandings(w)
      PROVE  FeedConsistent' /\ OnlyPlacementsPlaced'
  <2> DEFINE pl == [s \in Slots |->
                       IF Source[s].type = "group_placement"
                       THEN Standing(status, winner, margin, occupant, Source[s].group, Source[s].rank)
                       ELSE NULL]
             r  == [Idle EXCEPT !.pc = "placing", !.placed = pl]
  <2>1. \A s \in Slots : pl[s] # NULL => Source[s].type = "group_placement"
    OBVIOUS
  <2>2. req' = [req EXCEPT ![w] = r] /\ UNCHANGED dbVars
    BY <1>9 DEF ReadStandings
  <2> HIDE DEF pl
  <2>3. r.placed = pl
    BY DEF Idle
  <2> HIDE DEF r
  <2> QED
    BY <1>0, <2>1, <2>2, <2>3, RequestKeepsFeeds
<1>10. ASSUME NEW w \in Workers, WritePlacements(w)
       PROVE  FeedConsistent' /\ OnlyPlacementsPlaced'
  <2>1. \A s \in Slots : Source[s].type = "match_winner" => occupant'[s] = occupant[s]
    BY <1>0, <1>10 DEF WritePlacements, OnlyPlacementsPlaced
  <2>2. UNCHANGED winner /\ Finish(w)
    BY <1>10 DEF WritePlacements
  <2> QED
    BY <1>0, <2>1, <2>2, FinishKeepsPlaced DEF FeedConsistent
<1>11. ASSUME NEW w \in Workers, NEW m \in Reported, NEW new \in StatusRequests, CheckStatus(w, m, new)
       PROVE  FeedConsistent' /\ OnlyPlacementsPlaced'
  <2> DEFINE r == [Idle EXCEPT !.pc = "checked", !.match = m, !.status = new]
  <2>1. \A s \in Slots : r.placed[s] = NULL
    BY DEF Idle
  <2>2. req' = [req EXCEPT ![w] = r] /\ UNCHANGED dbVars
    BY <1>11 DEF CheckStatus
  <2> HIDE DEF r
  <2> QED
    BY <1>0, <2>1, <2>2, RequestKeepsFeeds
<1>12. ASSUME NEW w \in Workers, SetStatus(w)
       PROVE  FeedConsistent' /\ OnlyPlacementsPlaced'
  BY <1>3, <1>12 DEF SetStatus
<1>13. ASSUME NEW w \in Workers, Fail(w)
       PROVE  FeedConsistent' /\ OnlyPlacementsPlaced'
  BY <1>3, <1>13 DEF Fail
<1>14. CASE UNCHANGED vars
  BY <1>0, <1>14 DEF vars, FeedConsistent, OnlyPlacementsPlaced
<1> QED
  BY <1>1, <1>2, <1>4, <1>5, <1>7, <1>8, <1>9, <1>10, <1>11, <1>12, <1>13, <1>14
     DEF Next, Arrive, Progress

(* However score corrections, status changes and group resolutions         *)
(* overlap, a knockout slot fed by a match always holds the winner that    *)
(* match records: SaveScore's rebuild of the direct consumers is enough.   *)
THEOREM WinnerFeedsConsistent == Spec => []FeedConsistent
<1>1. Init => FeedInv
  <2> SUFFICES ASSUME Init PROVE FeedConsistent /\ OnlyPlacementsPlaced
    BY TypeInit DEF FeedInv
  <2>1. FeedConsistent
    BY DEF Init, FeedConsistent
  <2>2. OnlyPlacementsPlaced
    BY IdlePlacesNothing DEF Init, OnlyPlacementsPlaced
  <2> QED
    BY <2>1, <2>2
<1>2. FeedInv => FeedConsistent
  BY DEF FeedInv
<1> QED
  BY <1>1, <1>2, FeedStep, PTL DEF Spec
----------------------------------------------------------------------------
(* What a step may do to slots and results. *)

(* A committed score changes no slot of a match that is live or decided at *)
(* that moment, nor of one its snapshot saw with scores.                   *)
LEMMA CommitSpares ==
  ASSUME NEW w \in Workers, CommitScore(w), NEW s \in Slots, occupant'[s] # occupant[s]
  PROVE  status[s[1]] \in OpenStatus /\ s[1] \notin req[w].seen
  BY DEF CommitScore, LockedSlots

(* No step but a score commit and ResolveGroups' writes changes a slot. *)
LEMMA WhoWritesSlots ==
  ASSUME Next, UNCHANGED occupant => FALSE
  PROVE  \E w \in Workers : WritePlacements(w) \/ (req[w].pc = "locking" /\ CommitScore(w))
<1>1. PICK w \in Workers : Arrive(w) \/ Progress(w) \/ Fail(w)
  BY DEF Next
<1>2. ~Arrive(w)
  <2>1. \A m, o : SubmitScore(w, m, o) => UNCHANGED occupant
    BY DEF SubmitScore, dbVars
  <2>2. \A m, new : CheckStatus(w, m, new) => UNCHANGED occupant
    BY DEF CheckStatus, dbVars
  <2>3. CallResolveGroups(w) => UNCHANGED occupant
    BY DEF CallResolveGroups, dbVars
  <2> QED
    BY <2>1, <2>2, <2>3 DEF Arrive
<1>3. ~Fail(w)
  BY DEF Fail, dbVars
<1>4. ~(CountRemaining(w) \/ LockSlots(w) \/ MaybeResolveGroups(w) \/ ReadStandings(w)
        \/ SetStatus(w) \/ RefuseScore(w))
  BY DEF CountRemaining, LockSlots, MaybeResolveGroups, ReadStandings, SetStatus, RefuseScore, dbVars
<1> QED
  BY <1>1, <1>2, <1>3, <1>4 DEF Progress, SaveScore

(* Whatever overlaps, a score correction never changes who plays in a      *)
(* match that is live or decided when it commits, also when the match was  *)
(* started while the correction waited for its row; of all steps only      *)
(* ResolveGroups' writes can.                                              *)
THEOREM LiveMatchesKept == Spec => LiveMatchesSpared
<1> DEFINE Spares == \A s \in Slots :
                        occupant'[s] # occupant[s] =>
                           status[s[1]] \in OpenStatus \/ \E w \in Workers : WritePlacements(w)
<1>1. [Next]_vars => [Spares]_vars
  <2> SUFFICES ASSUME Next, NEW s \in Slots, occupant'[s] # occupant[s]
               PROVE  status[s[1]] \in OpenStatus \/ \E w \in Workers : WritePlacements(w)
    OBVIOUS
  <2> QED
    BY WhoWritesSlots, CommitSpares
<1> QED
  BY <1>1, PTL DEF Spec, LiveMatchesSpared

(* ResultAudited needs to know that a request at the status endpoint never *)
(* carries a decided status.                                               *)
StatusChangeUndecided ==
    \A w \in Workers : req[w].pc = "checked" => ~decidedStatus(req[w].status)

AuditInv == TypeOK /\ ResultAudited /\ StatusChangeUndecided

(* A step that replaces a request by one that is not a status change, or   *)
(* by an undecided one, and leaves results alone.                          *)
LEMMA RequestKeepsAudit ==
  ASSUME AuditInv, NEW w \in Workers, NEW r,
         r.pc = "checked" => ~decidedStatus(r.status),
         req' = [req EXCEPT ![w] = r]
  PROVE  StatusChangeUndecided'
<1>1. \A v \in Workers : req'[v] = IF v = w THEN r ELSE req[v]
  BY DEF AuditInv, TypeOK
<1> QED
  BY <1>1 DEF AuditInv, StatusChangeUndecided

(* Ending a request without touching results keeps results audited. *)
LEMMA FinishKeepsAudit ==
  ASSUME AuditInv, NEW w \in Workers, Finish(w)
  PROVE  StatusChangeUndecided'
<1>1. Idle.pc = "idle"
  BY DEF Idle
<1> QED
  BY <1>1, RequestKeepsAudit DEF Finish

(* SaveScore's transaction records the result it commits. *)
LEMMA CommitAudits ==
  ASSUME AuditInv, NEW w \in Workers,
         req[w].pc = "locking", CommitScore(w)
  PROVE  ResultAudited' /\ StatusChangeUndecided'
<1> DEFINE r == req[w]
<1>1. r.match \in Matches
  BY DEF AuditInv, TypeOK
<1>2. /\ status' = [status EXCEPT ![r.match] = r.status]
      /\ winner' = [winner EXCEPT ![r.match] = r.winner]
      /\ audit'  = [audit EXCEPT ![r.match] = [status |-> r.status, winner |-> r.winner]]
  BY DEF CommitScore, RecordTx
<1>3. ResultAudited'
  <2> SUFFICES ASSUME NEW m \in Matches
               PROVE  /\ audit'[m].winner = winner'[m]
                      /\ decidedStatus(status'[m]) => audit'[m].status = status'[m]
    BY DEF ResultAudited
  <2>1. CASE m = r.match
    BY <1>1, <1>2, <2>1 DEF AuditInv, TypeOK
  <2>2. CASE m # r.match
    BY <1>1, <1>2, <2>2 DEF AuditInv, TypeOK, ResultAudited
  <2> QED
    BY <2>1, <2>2
<1>4. StatusChangeUndecided'
  <2>1. [Idle EXCEPT !.pc = "scored", !.match = r.match].pc = "scored" /\ Idle.pc = "idle"
    BY DEF Idle
  <2>2. PICK q : q \in {Idle, [Idle EXCEPT !.pc = "scored", !.match = r.match]}
                 /\ req' = [req EXCEPT ![w] = q]
    BY DEF CommitScore
  <2>3. q.pc # "checked"
    BY <2>1, <2>2
  <2> QED
    BY <2>2, <2>3, RequestKeepsAudit
<1> QED
  BY <1>3, <1>4

(* Every step keeps every result equal to its latest audit entry. *)
LEMMA AuditStep == AuditInv /\ [Next]_vars => AuditInv'
<1> SUFFICES ASSUME AuditInv, [Next]_vars PROVE ResultAudited' /\ StatusChangeUndecided'
  BY TypeStep DEF AuditInv
<1> DEFINE Same == UNCHANGED <<status, winner, audit>>
<1>0. TypeOK /\ ResultAudited /\ StatusChangeUndecided
  BY DEF AuditInv
<1>1. Same => ResultAudited'
  BY <1>0 DEF ResultAudited
<1>2. ASSUME NEW w \in Workers, NEW r, r.pc # "checked", req' = [req EXCEPT ![w] = r], Same
      PROVE  ResultAudited' /\ StatusChangeUndecided'
  BY <1>1, <1>2, RequestKeepsAudit
<1>3. ASSUME NEW w \in Workers, Finish(w), Same
      PROVE  ResultAudited' /\ StatusChangeUndecided'
  BY <1>1, <1>3, FinishKeepsAudit
<1>4. ASSUME NEW w \in Workers, NEW m \in Reported, NEW o \in Submissions, SubmitScore(w, m, o)
      PROVE  ResultAudited' /\ StatusChangeUndecided'
  <2> DEFINE r == [Idle EXCEPT !.pc = "submitted", !.match = m,
                               !.status = statusForCompletion(o.completion),
                               !.winner = IF o.slot = 0 THEN NULL ELSE occupant[<<m, o.slot>>],
                               !.sets = o.sets, !.margin = o.margin]
  <2>1. r.pc = "submitted"
    BY DEF Idle
  <2>2. req' = [req EXCEPT ![w] = r] /\ Same
    BY <1>4 DEF SubmitScore, dbVars
  <2> HIDE DEF r
  <2> QED
    BY <1>2, <2>1, <2>2
<1>5. ASSUME NEW w \in Workers, CountRemaining(w)
      PROVE  ResultAudited' /\ StatusChangeUndecided'
  <2> DEFINE c == (Remaining(GroupOf[req[w].match]) \ {req[w].match} = {}
                   /\ decidedStatus(req[w].status))
             r == [req[w] EXCEPT !.pc = "counted", !.complete = c]
  <2>1. req' = [req EXCEPT ![w] = r] /\ Same
    BY <1>0, <1>5 DEF CountRemaining, TypeOK, dbVars
  <2>2. r.pc = "counted"
    BY <1>0 DEF TypeOK, Requests
  <2> HIDE DEF r
  <2> QED
    BY <1>2, <2>1, <2>2
<1>6. ASSUME NEW w \in Workers, SaveScore(w)
      PROVE  ResultAudited' /\ StatusChangeUndecided'
  BY <1>3, <1>6, CommitAudits DEF SaveScore, RefuseScore, dbVars
<1>7. ASSUME NEW w \in Workers, LockSlots(w)
      PROVE  ResultAudited' /\ StatusChangeUndecided'
  <2>1. PICK r \in Requests : LockedAs(w, r)
    BY <1>0, <1>7, LockStep
  <2>2. req' = [req EXCEPT ![w] = r] /\ r.pc = "locking" /\ Same
    BY <2>1 DEF LockedAs, dbVars
  <2> QED
    BY <1>2, <2>2
<1>8. [Idle EXCEPT !.pc = "resolving"].pc = "resolving"
  BY DEF Idle
<1>9. ASSUME NEW w \in Workers, MaybeResolveGroups(w)
      PROVE  ResultAudited' /\ StatusChangeUndecided'
  BY <1>2, <1>3, <1>8, <1>9 DEF MaybeResolveGroups, dbVars
<1>10. ASSUME NEW w \in Workers, CallResolveGroups(w)
       PROVE  ResultAudited' /\ StatusChangeUndecided'
  BY <1>2, <1>8, <1>10 DEF CallResolveGroups, dbVars
<1>11. ASSUME NEW w \in Workers, ReadStandings(w)
       PROVE  ResultAudited' /\ StatusChangeUndecided'
  <2> DEFINE pl == [s \in Slots |->
                       IF Source[s].type = "group_placement"
                       THEN Standing(status, winner, margin, occupant, Source[s].group, Source[s].rank)
                       ELSE NULL]
             r  == [Idle EXCEPT !.pc = "placing", !.placed = pl]
  <2>1. req' = [req EXCEPT ![w] = r] /\ Same
    BY <1>11 DEF ReadStandings, dbVars
  <2> HIDE DEF pl
  <2>2. r.pc = "placing"
    BY DEF Idle
  <2> HIDE DEF r
  <2> QED
    BY <1>2, <2>1, <2>2
<1>12. ASSUME NEW w \in Workers, WritePlacements(w)
       PROVE  ResultAudited' /\ StatusChangeUndecided'
  BY <1>3, <1>12 DEF WritePlacements
<1>13. ASSUME NEW w \in Workers, NEW m \in Reported, NEW new \in StatusRequests, CheckStatus(w, m, new)
       PROVE  ResultAudited' /\ StatusChangeUndecided'
  <2> DEFINE r == [Idle EXCEPT !.pc = "checked", !.match = m, !.status = new]
  <2>1. r.status = new
    BY DEF Idle
  <2>2. ~decidedStatus(new)
    BY DEF decidedStatus
  <2>3. req' = [req EXCEPT ![w] = r] /\ Same
    BY <1>13 DEF CheckStatus, dbVars
  <2> HIDE DEF r
  <2> QED
    BY <1>1, <2>1, <2>2, <2>3, RequestKeepsAudit
<1>14. ASSUME NEW w \in Workers, SetStatus(w)
       PROVE  ResultAudited' /\ StatusChangeUndecided'
  <2>1. ~decidedStatus(req[w].status) /\ req[w].match \in Matches
    BY <1>0, <1>14 DEF SetStatus, StatusChangeUndecided, TypeOK
  <2>2. /\ status' = [status EXCEPT ![req[w].match] = req[w].status]
        /\ UNCHANGED <<winner, audit>>
        /\ Finish(w)
    BY <1>14 DEF SetStatus
  <2>3. \A m \in Matches : decidedStatus(status'[m]) => status'[m] = status[m]
    BY <1>0, <2>1, <2>2 DEF TypeOK
  <2>4. ResultAudited'
    BY <1>0, <2>2, <2>3 DEF ResultAudited
  <2> QED
    BY <2>2, <2>4, FinishKeepsAudit
<1>15. ASSUME NEW w \in Workers, Fail(w)
       PROVE  ResultAudited' /\ StatusChangeUndecided'
  BY <1>3, <1>15 DEF Fail, dbVars
<1>16. CASE UNCHANGED vars
  BY <1>0, <1>1, <1>16 DEF vars, StatusChangeUndecided
<1> QED
  BY <1>4, <1>5, <1>6, <1>7, <1>9, <1>10, <1>11, <1>12, <1>13, <1>14, <1>15, <1>16
     DEF Next, Arrive, Progress

(* Whatever overlaps, the winner of every match and the status of every    *)
(* decided one are those of its latest match.score audit entry.            *)
THEOREM ResultsAlwaysAudited == Spec => []ResultAudited
<1>1. Init => AuditInv
  <2> SUFFICES ASSUME Init PROVE ResultAudited /\ StatusChangeUndecided
    BY TypeInit DEF AuditInv
  <2>1. ResultAudited
    BY DEF Init, ResultAudited
  <2>2. StatusChangeUndecided
    BY DEF Init, Idle, StatusChangeUndecided
  <2> QED
    BY <2>1, <2>2
<1>2. AuditInv => ResultAudited
  BY DEF AuditInv
<1> QED
  BY <1>1, <1>2, AuditStep, PTL DEF Spec

----------------------------------------------------------------------------
(* One request at a time.  The properties below are lost when              *)
(* requests overlap (README, section 3), so these theorems are about a     *)
(* server that answers one request after the other.                        *)

OneAtATime == \A v, w \in Workers : v = w

(* A status change that passed its guard is still about an undecided match.*)
CheckedStillOpen ==
    \A w \in Workers : req[w].pc = "checked" => ~decidedStatus(status[req[w].match])

DecidedInv == AuditInv /\ DecidedOnlyCorrected /\ CheckedStillOpen

(* The group placements, at every moment: a knockout slot shows its        *)
(* group's current standings, or nobody while the group is unfinished.     *)
SlotsFollowGroups ==
    \A g \in Groups : \A s \in PlacementSlots(g) :
        \/ occupant[s] = Standing(status, winner, margin, occupant, g, Source[s].rank)
        \/ occupant[s] = NULL /\ Remaining(g) # {}

(* What a request read about its group still holds. *)
CountFresh ==
    \A w \in Workers : req[w].pc \in {"counted", "locking"} /\ AffectsGroup(req[w]) =>
        (req[w].complete <=> /\ Remaining(GroupOf[req[w].match]) \ {req[w].match} = {}
                             /\ decidedStatus(req[w].status))

PlacedFresh ==
    \A w \in Workers : req[w].pc = "placing" =>
        \A s \in Slots : req[w].placed[s] # NULL =>
            /\ Source[s].type = "group_placement"
            /\ req[w].placed[s] = Standing(status, winner, margin, occupant,
                                           Source[s].group, Source[s].rank)

PlaceInv == DecidedInv /\ SlotsFollowGroups /\ CountFresh /\ PlacedFresh

(* With no organiser resolving groups by hand, groups are only resolved    *)
(* once all are finished.                                                  *)
OpenSlotsEmpty ==
    \A g \in Groups : Remaining(g) # {} => \A s \in PlacementSlots(g) : occupant[s] = NULL

ResolveFresh ==
    \A w \in Workers : req[w].pc \in {"resolving", "placing"} =>
        \A g \in Groups : Remaining(g) = {}

OpenInv == PlaceInv /\ OpenSlotsEmpty /\ ResolveFresh

(* A winner is only recorded with a result that decides the match, and the *)
(* winner a request is about to record still plays the match.              *)
WinnerDecided == \A m \in Matches : winner[m] # NULL => status[m] \in CountedStatus

WinnerFresh ==
    \A w \in Workers :
        req[w].pc \in {"submitted", "counted", "locking"} /\ req[w].winner # NULL =>
            /\ req[w].status \in CountedStatus
            /\ Plays(occupant, req[w].winner, req[w].match)

WinnerInv == PlaceInv /\ WinnerPlays /\ WinnerDecided /\ WinnerFresh

(* With one request in flight, replacing it replaces all there is. *)
LEMMA Alone ==
  ASSUME OneAtATime, TypeOK, NEW w \in Workers, NEW r, req' = [req EXCEPT ![w] = r]
  PROVE  \A v \in Workers : req'[v] = r
  BY DEF OneAtATime, TypeOK

(* A new request that is not a status change waits for nothing to stay     *)
(* undecided.                                                              *)
LEMMA NoCheckPending ==
  ASSUME OneAtATime, TypeOK, NEW w \in Workers, NEW r, r.pc # "checked",
         req' = [req EXCEPT ![w] = r]
  PROVE  CheckedStillOpen'
<1>1. \A v \in Workers : req'[v] = r
  BY Alone
<1> QED
  BY <1>1 DEF CheckedStillOpen

(* The same for a request that ends. *)
LEMMA FinishChecksNothing ==
  ASSUME OneAtATime, TypeOK, NEW w \in Workers, Finish(w)
  PROVE  CheckedStillOpen'
<1>1. Idle.pc = "idle"
  BY DEF Idle
<1> QED
  BY <1>1, NoCheckPending DEF Finish

(* SaveScore writes the status and its audit entry together. *)
LEMMA CommitDecides ==
  ASSUME OneAtATime, DecidedInv, NEW w \in Workers,
         req[w].pc = "locking", CommitScore(w)
  PROVE  DecidedOnlyCorrected' /\ CheckedStillOpen'
<1> DEFINE r == req[w]
<1>1. TypeOK /\ r.match \in Matches
  BY DEF DecidedInv, AuditInv, TypeOK
<1>2. /\ status' = [status EXCEPT ![r.match] = r.status]
      /\ audit'  = [audit EXCEPT ![r.match] = [status |-> r.status, winner |-> r.winner]]
  BY DEF CommitScore, RecordTx
<1>3. DecidedOnlyCorrected'
  <2> SUFFICES ASSUME NEW m \in Matches, decidedStatus(audit'[m].status)
               PROVE  status'[m] = audit'[m].status
    BY DEF DecidedOnlyCorrected
  <2>1. CASE m = r.match
    BY <1>1, <1>2, <2>1 DEF TypeOK
  <2>2. CASE m # r.match
    BY <1>1, <1>2, <2>2 DEF TypeOK, DecidedInv, DecidedOnlyCorrected
  <2> QED
    BY <2>1, <2>2
<1>4. CheckedStillOpen'
  <2>1. [Idle EXCEPT !.pc = "scored", !.match = r.match].pc = "scored" /\ Idle.pc = "idle"
    BY DEF Idle
  <2>2. PICK q : q \in {Idle, [Idle EXCEPT !.pc = "scored", !.match = r.match]}
                 /\ req' = [req EXCEPT ![w] = q]
    BY DEF CommitScore
  <2>3. q.pc # "checked"
    BY <2>1, <2>2
  <2> QED
    BY <1>1, <2>2, <2>3, NoCheckPending
<1> QED
  BY <1>3, <1>4

(* Every step of a lone request leaves decided matches to the score        *)
(* endpoint.                                                               *)
LEMMA DecidedStep ==
  ASSUME OneAtATime, DecidedInv, [Next]_vars
  PROVE  DecidedInv'
<1> SUFFICES DecidedOnlyCorrected' /\ CheckedStillOpen'
  BY AuditStep DEF DecidedInv
<1> DEFINE Same == UNCHANGED <<status, audit>>
<1>0. TypeOK /\ DecidedOnlyCorrected /\ CheckedStillOpen
  BY DEF DecidedInv, AuditInv
<1>1. Same => DecidedOnlyCorrected'
  BY <1>0 DEF DecidedOnlyCorrected
<1>2. ASSUME NEW w \in Workers, NEW r, r.pc # "checked", req' = [req EXCEPT ![w] = r], Same
      PROVE  DecidedOnlyCorrected' /\ CheckedStillOpen'
  BY <1>0, <1>1, <1>2, NoCheckPending
<1>3. ASSUME NEW w \in Workers, Finish(w), Same
      PROVE  DecidedOnlyCorrected' /\ CheckedStillOpen'
  BY <1>0, <1>1, <1>3, FinishChecksNothing
<1>4. ASSUME NEW w \in Workers, NEW m \in Reported, NEW o \in Submissions, SubmitScore(w, m, o)
      PROVE  DecidedOnlyCorrected' /\ CheckedStillOpen'
  <2> DEFINE r == [Idle EXCEPT !.pc = "submitted", !.match = m,
                               !.status = statusForCompletion(o.completion),
                               !.winner = IF o.slot = 0 THEN NULL ELSE occupant[<<m, o.slot>>],
                               !.sets = o.sets, !.margin = o.margin]
  <2>1. r.pc = "submitted"
    BY DEF Idle
  <2>2. req' = [req EXCEPT ![w] = r] /\ Same
    BY <1>4 DEF SubmitScore, dbVars
  <2> HIDE DEF r
  <2> QED
    BY <1>2, <2>1, <2>2
<1>5. ASSUME NEW w \in Workers, CountRemaining(w)
      PROVE  DecidedOnlyCorrected' /\ CheckedStillOpen'
  <2> DEFINE c == (Remaining(GroupOf[req[w].match]) \ {req[w].match} = {}
                   /\ decidedStatus(req[w].status))
             r == [req[w] EXCEPT !.pc = "counted", !.complete = c]
  <2>1. req' = [req EXCEPT ![w] = r] /\ Same
    BY <1>0, <1>5 DEF CountRemaining, TypeOK, dbVars
  <2>2. r.pc = "counted"
    BY <1>0 DEF TypeOK, Requests
  <2> HIDE DEF r
  <2> QED
    BY <1>2, <2>1, <2>2
<1>6. ASSUME NEW w \in Workers, SaveScore(w)
      PROVE  DecidedOnlyCorrected' /\ CheckedStillOpen'
  BY <1>3, <1>6, CommitDecides DEF SaveScore, RefuseScore, dbVars
<1>7. ASSUME NEW w \in Workers, LockSlots(w)
      PROVE  DecidedOnlyCorrected' /\ CheckedStillOpen'
  <2>1. PICK r \in Requests : LockedAs(w, r)
    BY <1>0, <1>7, LockStep
  <2>2. req' = [req EXCEPT ![w] = r] /\ r.pc = "locking" /\ Same
    BY <2>1 DEF LockedAs, dbVars
  <2> QED
    BY <1>2, <2>2
<1>8. [Idle EXCEPT !.pc = "resolving"].pc = "resolving"
  BY DEF Idle
<1>9. ASSUME NEW w \in Workers, MaybeResolveGroups(w)
      PROVE  DecidedOnlyCorrected' /\ CheckedStillOpen'
  BY <1>2, <1>3, <1>8, <1>9 DEF MaybeResolveGroups, dbVars
<1>10. ASSUME NEW w \in Workers, CallResolveGroups(w)
       PROVE  DecidedOnlyCorrected' /\ CheckedStillOpen'
  BY <1>2, <1>8, <1>10 DEF CallResolveGroups, dbVars
<1>11. ASSUME NEW w \in Workers, ReadStandings(w)
       PROVE  DecidedOnlyCorrected' /\ CheckedStillOpen'
  <2> DEFINE pl == [s \in Slots |->
                       IF Source[s].type = "group_placement"
                       THEN Standing(status, winner, margin, occupant, Source[s].group, Source[s].rank)
                       ELSE NULL]
             r  == [Idle EXCEPT !.pc = "placing", !.placed = pl]
  <2>1. req' = [req EXCEPT ![w] = r] /\ Same
    BY <1>11 DEF ReadStandings, dbVars
  <2> HIDE DEF pl
  <2>2. r.pc = "placing"
    BY DEF Idle
  <2> HIDE DEF r
  <2> QED
    BY <1>2, <2>1, <2>2
<1>12. ASSUME NEW w \in Workers, WritePlacements(w)
       PROVE  DecidedOnlyCorrected' /\ CheckedStillOpen'
  BY <1>3, <1>12 DEF WritePlacements
<1>13. ASSUME NEW w \in Workers, NEW m \in Reported, NEW new \in StatusRequests, CheckStatus(w, m, new)
       PROVE  DecidedOnlyCorrected' /\ CheckedStillOpen'
  <2> DEFINE r == [Idle EXCEPT !.pc = "checked", !.match = m, !.status = new]
  <2>1. r.match = m
    BY DEF Idle
  <2>2. req' = [req EXCEPT ![w] = r] /\ Same /\ ~decidedStatus(status[m])
    BY <1>13 DEF CheckStatus, dbVars
  <2> HIDE DEF r
  <2>3. \A v \in Workers : req'[v] = r
    BY <1>0, <2>2, Alone
  <2>4. CheckedStillOpen'
    BY <2>1, <2>2, <2>3 DEF CheckedStillOpen
  <2> QED
    BY <1>1, <2>2, <2>4
<1>14. ASSUME NEW w \in Workers, SetStatus(w)
       PROVE  DecidedOnlyCorrected' /\ CheckedStillOpen'
  <2>1. ~decidedStatus(status[req[w].match]) /\ req[w].match \in Matches
    BY <1>0, <1>14 DEF SetStatus, CheckedStillOpen, TypeOK
  <2>2. /\ status' = [status EXCEPT ![req[w].match] = req[w].status]
        /\ UNCHANGED audit
        /\ Finish(w)
    BY <1>14 DEF SetStatus
  <2>3. \A m \in Matches : decidedStatus(audit[m].status) => status'[m] = status[m]
    BY <1>0, <2>1, <2>2 DEF TypeOK, DecidedOnlyCorrected
  <2>4. DecidedOnlyCorrected'
    BY <1>0, <2>2, <2>3 DEF DecidedOnlyCorrected
  <2> QED
    BY <1>0, <2>2, <2>4, FinishChecksNothing
<1>15. ASSUME NEW w \in Workers, Fail(w)
       PROVE  DecidedOnlyCorrected' /\ CheckedStillOpen'
  BY <1>3, <1>15 DEF Fail, dbVars
<1>16. CASE UNCHANGED vars
  BY <1>0, <1>1, <1>16 DEF vars, CheckedStillOpen
<1> QED
  BY <1>4, <1>5, <1>6, <1>7, <1>9, <1>10, <1>11, <1>12, <1>13, <1>14, <1>15, <1>16
     DEF Next, Arrive, Progress

(* The persisted draw has nothing decided by a score. *)
LEMMA DecidedInit == Init => DecidedInv
<1> SUFFICES ASSUME Init PROVE DecidedInv
  OBVIOUS
<1>1. TypeOK
  BY TypeInit
<1>2. ResultAudited /\ DecidedOnlyCorrected
  BY DEF Init, ResultAudited, DecidedOnlyCorrected
<1>3. \A w \in Workers : req[w].pc = "idle"
  BY DEF Init, Idle
<1>4. StatusChangeUndecided /\ CheckedStillOpen
  BY <1>3 DEF StatusChangeUndecided, CheckedStillOpen
<1> QED
  BY <1>1, <1>2, <1>4 DEF DecidedInv, AuditInv

(* While requests do not overlap, also with organisers resolving groups by *)
(* hand, a match the score endpoint decided keeps that status until the    *)
(* score endpoint changes it: SetStatus' guard is enough.                  *)
THEOREM DecisionsStand ==
  ASSUME OneAtATime
  PROVE  Spec => []DecidedOnlyCorrected
<1>1. DecidedInv /\ [Next]_vars => DecidedInv'
  BY DecidedStep
<1>2. DecidedInv => DecidedOnlyCorrected
  BY DEF DecidedInv
<1> QED
  BY <1>1, <1>2, DecidedInit, PTL DEF Spec

----------------------------------------------------------------------------
(* The 409 rule in full. *)

(* While a lone request waits for its locks nothing it saw can change. *)
SeenFresh ==
    \A w \in Workers : req[w].pc = "locking" =>
        req[w].seen = {m \in Matches : scored[m] /\ \E s \in Touched(req[w]) : s[1] = m}

SeenInv == TypeOK /\ SeenFresh

(* A lone request that waits for no locks has seen nothing that may change.*)
LEMMA NothingSeen ==
  ASSUME OneAtATime, TypeOK, NEW w \in Workers, NEW r, req' = [req EXCEPT ![w] = r],
         r.pc # "locking"
  PROVE  SeenFresh'
<1>1. \A v \in Workers : req'[v] = r
  BY Alone
<1> QED
  BY <1>1 DEF SeenFresh

(* The same for a request that ends. *)
LEMMA FinishSeesNothing ==
  ASSUME OneAtATime, TypeOK, NEW w \in Workers, Finish(w)
  PROVE  SeenFresh'
<1>1. Idle.pc = "idle"
  BY DEF Idle
<1> QED
  BY <1>1, NothingSeen DEF Finish

(* A lone request that has just taken its snapshot is up to date. *)
LEMMA LockSees ==
  ASSUME OneAtATime, TypeOK, NEW w \in Workers, LockSlots(w)
  PROVE  SeenFresh'
<1>1. PICK r \in Requests : LockedAs(w, r)
  BY LockStep
<1>2. /\ req' = [req EXCEPT ![w] = r] /\ UNCHANGED dbVars
      /\ r.match = req[w].match /\ r.status = req[w].status /\ r.winner = req[w].winner
      /\ r.seen = {m \in Matches : scored[m] /\ \E s \in Touched(req[w]) : s[1] = m}
  BY <1>1 DEF LockedAs
<1>3. \A v \in Workers : req'[v] = r
  BY <1>2, Alone
<1>4. AffectsGroup(r)' <=> AffectsGroup(req[w])
  BY <1>2 DEF AffectsGroup, dbVars
<1>5. Touched(r)' = Touched(req[w])
  BY <1>2, <1>4 DEF Touched, dbVars
<1>6. r.seen = {m \in Matches : scored'[m] /\ \E s \in Touched(r)' : s[1] = m}
  BY <1>2, <1>5 DEF dbVars
<1> QED
  BY <1>3, <1>6 DEF SeenFresh

(* Every step of a lone request leaves nothing it saw out of date. *)
LEMMA SeenStep ==
  ASSUME OneAtATime, SeenInv, [Next]_vars
  PROVE  SeenInv'
<1> SUFFICES SeenFresh'
  BY TypeStep DEF SeenInv
<1>0. TypeOK /\ SeenFresh
  BY DEF SeenInv
<1>1. ASSUME NEW w \in Workers, NEW m \in Reported, NEW o \in Submissions, SubmitScore(w, m, o)
      PROVE  SeenFresh'
  <2> DEFINE r == [Idle EXCEPT !.pc = "submitted", !.match = m,
                               !.status = statusForCompletion(o.completion),
                               !.winner = IF o.slot = 0 THEN NULL ELSE occupant[<<m, o.slot>>],
                               !.sets = o.sets, !.margin = o.margin]
  <2>1. r.pc = "submitted"
    BY DEF Idle
  <2>2. req' = [req EXCEPT ![w] = r]
    BY <1>1 DEF SubmitScore
  <2> HIDE DEF r
  <2> QED
    BY <1>0, <2>1, <2>2, NothingSeen
<1>2. ASSUME NEW w \in Workers, CountRemaining(w)
      PROVE  SeenFresh'
  <2> DEFINE c == (Remaining(GroupOf[req[w].match]) \ {req[w].match} = {}
                   /\ decidedStatus(req[w].status))
             r == [req[w] EXCEPT !.pc = "counted", !.complete = c]
  <2>1. req' = [req EXCEPT ![w] = r]
    BY <1>0, <1>2 DEF CountRemaining, TypeOK
  <2>2. r.pc = "counted"
    BY <1>0 DEF TypeOK, Requests
  <2> HIDE DEF r
  <2> QED
    BY <1>0, <2>1, <2>2, NothingSeen
<1>3. ASSUME NEW w \in Workers, CommitScore(w)
      PROVE  SeenFresh'
  <2>1. [Idle EXCEPT !.pc = "scored", !.match = req[w].match].pc = "scored" /\ Idle.pc = "idle"
    BY DEF Idle
  <2>2. PICK q : q \in {Idle, [Idle EXCEPT !.pc = "scored", !.match = req[w].match]}
                 /\ req' = [req EXCEPT ![w] = q]
    BY <1>3 DEF CommitScore
  <2>3. q.pc # "locking"
    BY <2>1, <2>2
  <2> QED
    BY <1>0, <2>2, <2>3, NothingSeen
<1>4. ASSUME NEW w \in Workers, Finish(w)
      PROVE  SeenFresh'
  BY <1>0, <1>4, FinishSeesNothing
<1>5. ASSUME NEW w \in Workers, req' = [req EXCEPT ![w] = [Idle EXCEPT !.pc = "resolving"]]
      PROVE  SeenFresh'
  <2>1. [Idle EXCEPT !.pc = "resolving"].pc = "resolving"
    BY DEF Idle
  <2> QED
    BY <1>0, <1>5, <2>1, NothingSeen
<1>6. ASSUME NEW w \in Workers, ReadStandings(w)
      PROVE  SeenFresh'
  <2> DEFINE pl == [s \in Slots |->
                       IF Source[s].type = "group_placement"
                       THEN Standing(status, winner, margin, occupant, Source[s].group, Source[s].rank)
                       ELSE NULL]
             r  == [Idle EXCEPT !.pc = "placing", !.placed = pl]
  <2>1. req' = [req EXCEPT ![w] = r]
    BY <1>6 DEF ReadStandings
  <2> HIDE DEF pl
  <2>2. r.pc = "placing"
    BY DEF Idle
  <2> HIDE DEF r
  <2> QED
    BY <1>0, <2>1, <2>2, NothingSeen
<1>7. ASSUME NEW w \in Workers, NEW m \in Reported, NEW new \in StatusRequests, CheckStatus(w, m, new)
      PROVE  SeenFresh'
  <2>1. [Idle EXCEPT !.pc = "checked", !.match = m, !.status = new].pc = "checked"
    BY DEF Idle
  <2>2. \E r : r.pc = "checked" /\ req' = [req EXCEPT ![w] = r]
    BY <1>7, <2>1 DEF CheckStatus
  <2> QED
    BY <1>0, <2>2, NothingSeen
<1>8. ASSUME NEW w \in Workers, MaybeResolveGroups(w)
      PROVE  SeenFresh'
  BY <1>4, <1>5, <1>8 DEF MaybeResolveGroups
<1>9. ASSUME NEW w \in Workers, CallResolveGroups(w)
      PROVE  SeenFresh'
  BY <1>5, <1>9 DEF CallResolveGroups
<1>10. ASSUME NEW w \in Workers, RefuseScore(w) \/ WritePlacements(w) \/ SetStatus(w) \/ Fail(w)
       PROVE  SeenFresh'
  BY <1>4, <1>10 DEF RefuseScore, WritePlacements, SetStatus, Fail
<1>11. ASSUME NEW w \in Workers, LockSlots(w)
       PROVE  SeenFresh'
  BY <1>0, <1>11, LockSees
<1>12. CASE UNCHANGED vars
  BY <1>0, <1>12 DEF vars, SeenFresh, Touched, AffectsGroup
<1> QED
  BY <1>1, <1>2, <1>3, <1>6, <1>7, <1>8, <1>9, <1>10, <1>11, <1>12
     DEF Next, Arrive, Progress, SaveScore

(* While requests do not overlap, a score correction that would change who *)
(* plays in a match that is live, decided or has scores is refused: what   *)
(* SaveScore's locking SELECT saw of the scores still holds when it writes.*)
THEOREM StartedMatchesKept ==
  ASSUME OneAtATime
  PROVE  Spec => CorrectionsSpareStarted
<1> DEFINE Spares == \A s \in Slots :
                        occupant'[s] # occupant[s] =>
                           ~Started(s[1]) \/ \E w \in Workers : WritePlacements(w)
<1>1. Init => SeenInv
  <2> SUFFICES ASSUME Init PROVE SeenFresh
    BY TypeInit DEF SeenInv
  <2>1. \A w \in Workers : req[w].pc = "idle"
    BY DEF Init, Idle
  <2> QED
    BY <2>1 DEF SeenFresh
<1>2. SeenInv /\ [Next]_vars => SeenInv'
  BY SeenStep
<1>3. SeenInv /\ [Next]_vars => [Spares]_vars
  <2> SUFFICES ASSUME SeenInv, Next, NEW s \in Slots, occupant'[s] # occupant[s],
                      NEW w \in Workers, req[w].pc = "locking", CommitScore(w)
               PROVE  ~Started(s[1])
    BY WhoWritesSlots
  <2>1. status[s[1]] \in OpenStatus /\ s[1] \notin req[w].seen
    BY CommitSpares
  <2>2. Rebuilt(req[w])[s] # occupant[s]
    BY DEF CommitScore
  <2>3. s \in Touched(req[w])
    BY <2>2 DEF Rebuilt, Touched
  <2>4. s[1] \in Matches
    BY DEF Slots
  <2>5. ~scored[s[1]]
    BY <2>1, <2>3, <2>4 DEF SeenInv, SeenFresh
  <2> QED
    BY <2>1, <2>5 DEF Started
<1> QED
  BY <1>1, <1>2, <1>3, PTL DEF Spec, CorrectionsSpareStarted

----------------------------------------------------------------------------
(* Group placements. *)

(* A group's standings depend on the group's own matches and on nothing    *)
(* else in the division: on who plays them, which of them count, and what  *)
(* those record.                                                           *)
LEMMA StandingLocal ==
  ASSUME NEW st, NEW wn, NEW mg, NEW oc, NEW st2, NEW wn2, NEW mg2, NEW oc2, NEW g, NEW rank,
         \A m \in GroupMatches(g) :
            /\ st2[m] \in CountedStatus <=> st[m] \in CountedStatus
            /\ st[m] \in CountedStatus => wn2[m] = wn[m] /\ mg2[m] = mg[m]
            /\ \A i \in {1, 2} : oc2[<<m, i>>] = oc[<<m, i>>]
  PROVE  Standing(st2, wn2, mg2, oc2, g, rank) = Standing(st, wn, mg, oc, g, rank)
<1>1. ASSUME NEW p, NEW m \in GroupMatches(g)
      PROVE  Plays(oc2, p, m) <=> Plays(oc, p, m)
  <2>1. oc2[<<m, 1>>] = oc[<<m, 1>>] /\ oc2[<<m, 2>>] = oc[<<m, 2>>]
    OBVIOUS
  <2>2. Plays(oc2, p, m) <=> oc2[<<m, 1>>] = p \/ oc2[<<m, 2>>] = p
    BY Zenon DEF Plays
  <2>3. Plays(oc, p, m) <=> oc[<<m, 1>>] = p \/ oc[<<m, 2>>] = p
    BY Zenon DEF Plays
  <2> QED
    BY <2>1, <2>2, <2>3
<1>2. Field(oc2, g) = Field(oc, g)
  BY <1>1 DEF Field
<1>3. \A p : Played(st2, oc2, p, g) = Played(st, oc, p, g)
  BY <1>1 DEF Played
<1>4. \A p : \A m \in Played(st, oc, p, g) :
          wn2[m] = wn[m] /\ mg2[m] = mg[m] /\ oc2[<<m, 1>>] = oc[<<m, 1>>]
  <2> SUFFICES ASSUME NEW p, NEW m \in Played(st, oc, p, g)
               PROVE  wn2[m] = wn[m] /\ mg2[m] = mg[m] /\ oc2[<<m, 1>>] = oc[<<m, 1>>]
    BY Zenon
  <2>1. m \in GroupMatches(g) /\ st[m] \in CountedStatus
    BY DEF Played
  <2> QED
    BY <2>1
<1>5. ASSUME NEW p
      PROVE  Won(st2, wn2, oc2, p, g) = Won(st, wn, oc, p, g)
  <2>1. PICK S : S = Played(st, oc, p, g)
    OBVIOUS
  <2>2. \A m \in S : wn2[m] = wn[m]
    BY <1>4, <2>1
  <2>3. {m \in S : wn2[m] = p} = {m \in S : wn[m] = p}
    BY <2>2
  <2> QED
    BY <1>3, <2>1, <2>3 DEF Won
<1>6. ASSUME NEW p
      PROVE  GameDiff(st2, mg2, oc2, p, g) = GameDiff(st, mg, oc, p, g)
  <2>1. [m \in Played(st2, oc2, p, g) |-> IF oc2[<<m, 1>>] = p THEN mg2[m] ELSE 0 - mg2[m]]
          = [m \in Played(st, oc, p, g) |-> IF oc[<<m, 1>>] = p THEN mg[m] ELSE 0 - mg[m]]
    BY <1>3, <1>4
  <2> QED
    BY <2>1 DEF GameDiff
<1>7. Rows(st2, wn2, mg2, oc2, g) = Rows(st, wn, mg, oc, g)
  BY <1>2, <1>5, <1>6 DEF Rows
<1> QED
  BY <1>7 DEF Standing

(* Nobody stands anywhere in a group without matches. *)
LEMMA EmptyGroupStanding ==
  ASSUME NEW st, NEW wn, NEW mg, NEW oc, NEW g, NEW rank, GroupMatches(g) = {}
  PROVE  Standing(st, wn, mg, oc, g, rank) = NULL
<1>1. Field(oc, g) = {}
  BY DEF Field
<1>2. Rows(st, wn, mg, oc, g) = {}
  BY <1>1 DEF Rows
<1> QED
  BY <1>2 DEF Standing

(* Every rank names somebody of the group's own matches, or nobody, and no *)
(* two ranks name the same participant: the table has one row for each.    *)
LEMMA OneRankEach ==
  ASSUME NEW st, NEW wn, NEW mg, NEW oc, NEW g, NEW i \in Int,
         Standing(st, wn, mg, oc, g, i) # NULL
  PROVE  /\ Standing(st, wn, mg, oc, g, i) \in Field(oc, g)
         /\ \A j \in Int \ {i} : Standing(st, wn, mg, oc, g, j) # Standing(st, wn, mg, oc, g, i)
<1> DEFINE rows  == Rows(st, wn, mg, oc, g)
           at(k) == {x \in rows : Cardinality({y \in rows : Above(y, x)}) = k - 1}
<1>1. \A x \in rows : x.pid \in Field(oc, g)
  BY DEF Rows
<1>2. \A x, y \in rows : x.pid = y.pid => x = y
  BY DEF Rows
<1>3. ASSUME NEW k, at(k) # {}
      PROVE  \E x \in at(k) : Standing(st, wn, mg, oc, g, k) = x.pid
  <2>1. (CHOOSE x \in at(k) : TRUE) \in at(k)
    BY <1>3
  <2> QED
    BY <1>3, <2>1 DEF Standing
<1>4. \A k : at(k) = {} => Standing(st, wn, mg, oc, g, k) = NULL
  BY DEF Standing
<1>5. PICK x \in at(i) : Standing(st, wn, mg, oc, g, i) = x.pid
  BY <1>3, <1>4
<1>6. x \in rows /\ Standing(st, wn, mg, oc, g, i) \in Field(oc, g)
  BY <1>1, <1>5
<1>7. ASSUME NEW j \in Int \ {i}, Standing(st, wn, mg, oc, g, j) = x.pid
      PROVE  FALSE
  <2>1. PICK y \in at(j) : Standing(st, wn, mg, oc, g, j) = y.pid
    BY <1>3, <1>4, <1>5, <1>7
  <2>2. y = x
    BY <1>2, <1>6, <1>7, <2>1
  <2>3. Cardinality({z \in rows : Above(z, x)}) = i - 1 /\ Cardinality({z \in rows : Above(z, x)}) = j - 1
    BY <1>5, <2>1, <2>2
  <2> QED
    BY <2>3
<1> QED
  BY <1>5, <1>6, <1>7

(* A lone request that has read nothing about the groups leaves nothing to *)
(* go stale.                                                               *)
LEMMA NothingRead ==
  ASSUME OneAtATime, TypeOK, NEW w \in Workers, NEW r, req' = [req EXCEPT ![w] = r],
         r.pc \notin {"counted", "locking", "placing"}
  PROVE  CountFresh' /\ PlacedFresh'
<1>1. \A v \in Workers : req'[v] = r
  BY Alone
<1> QED
  BY <1>1 DEF CountFresh, PlacedFresh

(* The same for a request that ends. *)
LEMMA FinishReadNothing ==
  ASSUME OneAtATime, TypeOK, NEW w \in Workers, Finish(w)
  PROVE  CountFresh' /\ PlacedFresh'
<1>1. Idle.pc = "idle"
  BY DEF Idle
<1> QED
  BY <1>1, NothingRead DEF Finish

(* No slot of a group match is fed by a match or by a group. *)
LEMMA GroupSlotsFixed ==
  ASSUME NEW m \in Matches, GroupOf[m] # NULL, NEW i \in {1, 2}
  PROVE  <<m, i>> \in Slots /\ Source[<<m, i>>].type \notin {"match_winner", "group_placement"}
<1>1. <<m, i>> \in Slots /\ <<m, i>>[1] = m
  BY DEF Slots
<1> QED
  BY <1>1

(* SaveScore leaves every group's placements in line with its matches: its *)
(* own group's are rebuilt from the new score, the other groups' matches   *)
(* and placements it does not touch.                                       *)
LEMMA CommitPlaces ==
  ASSUME PlaceInv, NEW w \in Workers, CommitScore(w),
         req[w].pc = "locking"
  PROVE  SlotsFollowGroups' /\ (OpenSlotsEmpty => OpenSlotsEmpty')
<1> DEFINE r == req[w]
           m == r.match
<1>1. TypeOK /\ m \in Matches /\ r.status \in MatchStatus
  BY DEF PlaceInv, DecidedInv, AuditInv, TypeOK
<1>2. /\ status' = [status EXCEPT ![m] = r.status]
      /\ winner' = [winner EXCEPT ![m] = r.winner]
      /\ margin' = [margin EXCEPT ![m] = r.margin]
      /\ occupant' = Rebuilt(r)
  BY DEF CommitScore
<1>3. ASSUME NEW n \in Matches, n # m
      PROVE  status'[n] = status[n] /\ winner'[n] = winner[n] /\ margin'[n] = margin[n]
  BY <1>1, <1>2, <1>3 DEF TypeOK
<1>4. status'[m] = r.status
  BY <1>1, <1>2 DEF TypeOK
<1> SUFFICES ASSUME NEW g \in Groups, NEW s \in PlacementSlots(g)
             PROVE  /\ \/ occupant'[s]
                              = Standing(status', winner', margin', occupant', g, Source[s].rank)
                       \/ occupant'[s] = NULL /\ Remaining(g)' # {}
                    /\ OpenSlotsEmpty /\ Remaining(g)' # {} => occupant'[s] = NULL
  BY DEF SlotsFollowGroups, OpenSlotsEmpty
<1>5. g # NULL /\ s \in Slots /\ Source[s].type = "group_placement" /\ Source[s].group = g
  BY DEF PlacementSlots
<1>6. s \notin Consumers(m)
  BY <1>5 DEF Consumers
<1>7. \A n \in GroupMatches(g) : n \in Matches /\ GroupOf[n] = g
  BY DEF GroupMatches
<1>8. \A n \in GroupMatches(g) : \A i \in {1, 2} : occupant'[<<n, i>>] = occupant[<<n, i>>]
  <2> TAKE n \in GroupMatches(g)
  <2> TAKE i \in {1, 2}
  <2>1. n \in Matches /\ GroupOf[n] # NULL
    BY <1>5, <1>7
  <2>2. <<n, i>> \in Slots /\ Source[<<n, i>>].type \notin {"match_winner", "group_placement"}
    BY <2>1, GroupSlotsFixed
  <2>3. <<n, i>> \notin Consumers(m) /\ <<n, i>> \notin PlacementSlots(GroupOf[m])
    BY <2>2 DEF Consumers, PlacementSlots
  <2> QED
    BY <1>2, <2>2, <2>3 DEF Rebuilt
<1>9. /\ \/ occupant[s] = Standing(status, winner, margin, occupant, g, Source[s].rank)
         \/ occupant[s] = NULL /\ Remaining(g) # {}
      /\ OpenSlotsEmpty /\ Remaining(g) # {} => occupant[s] = NULL
  BY DEF PlaceInv, SlotsFollowGroups, OpenSlotsEmpty
<1>10. CASE GroupOf[m] = g /\ AffectsGroup(r)
  <2> DEFINE st == [status EXCEPT ![m] = r.status]
             wn == [winner EXCEPT ![m] = r.winner]
             mg == [margin EXCEPT ![m] = r.margin]
  <2>1. s \in PlacementSlots(GroupOf[m])
    BY <1>10
  <2>2. occupant'[s] = IF r.complete THEN Standing(st, wn, mg, occupant, g, Source[s].rank) ELSE NULL
    BY <1>2, <1>5, <1>6, <1>10, <2>1 DEF Rebuilt
  <2>3. Standing(status', winner', margin', occupant', g, Source[s].rank)
          = Standing(st, wn, mg, occupant, g, Source[s].rank)
    <3> HIDE DEF st, wn, mg, m, r
    <3>1. status' = st /\ winner' = wn /\ margin' = mg
      BY <1>2 DEF st, wn, mg
    <3>2. PICK oc : oc = occupant
      OBVIOUS
    <3>3. PICK oc2 : oc2 = occupant'
      OBVIOUS
    <3>4. \A n \in GroupMatches(g) : \A i \in {1, 2} : oc2[<<n, i>>] = oc[<<n, i>>]
      BY <1>8, <3>2, <3>3
    <3> QED
      BY <3>1, <3>2, <3>3, <3>4, StandingLocal
  <2>4. r.complete <=> Remaining(g) \ {m} = {} /\ decidedStatus(r.status)
    BY <1>10 DEF PlaceInv, CountFresh
  <2>5. Remaining(g)' = {} <=> Remaining(g) \ {m} = {} /\ decidedStatus(r.status)
    <3>1. m \in GroupMatches(g)
      BY <1>1, <1>10 DEF GroupMatches
    <3>2. \A n \in GroupMatches(g) \ {m} : status'[n] = status[n]
      BY <1>3, <1>7
    <3> HIDE DEF m, r
    <3> QED
      BY <1>4, <3>1, <3>2 DEF Remaining
  <2> HIDE DEF st, wn, mg
  <2> QED
    BY <2>2, <2>3, <2>4, <2>5
<1>11. CASE GroupOf[m] = g /\ ~AffectsGroup(r)
  <2>1. ~decidedStatus(status[m]) /\ ~decidedStatus(r.status)
    BY <1>5, <1>11 DEF AffectsGroup
  <2>2. m \in GroupMatches(g)
    BY <1>1, <1>11 DEF GroupMatches
  <2>3. m \in Remaining(g) /\ m \in Remaining(g)'
    BY <1>4, <2>1, <2>2 DEF Remaining
  <2>4. occupant'[s] = occupant[s]
    BY <1>2, <1>5, <1>6, <1>11 DEF Rebuilt
  <2>5. status[m] \notin CountedStatus /\ status'[m] \notin CountedStatus
    BY <1>4, <2>1 DEF CountedStatus, decidedStatus
  <2>6. \A n \in GroupMatches(g) :
           /\ status'[n] \in CountedStatus <=> status[n] \in CountedStatus
           /\ status[n] \in CountedStatus => winner'[n] = winner[n] /\ margin'[n] = margin[n]
    BY <1>3, <1>7, <2>5
  <2>7. Standing(status', winner', margin', occupant', g, Source[s].rank)
          = Standing(status, winner, margin, occupant, g, Source[s].rank)
    BY <1>8, <2>6, StandingLocal
  <2> QED
    BY <1>9, <2>3, <2>4, <2>7
<1>12. CASE GroupOf[m] # g
  <2>1. m \notin GroupMatches(g)
    BY <1>7, <1>12
  <2>2. \A n \in GroupMatches(g) : status'[n] = status[n] /\ winner'[n] = winner[n] /\ margin'[n] = margin[n]
    BY <1>3, <1>7, <2>1
  <2>3. Remaining(g)' = Remaining(g)
    BY <2>2 DEF Remaining
  <2>4. Standing(status', winner', margin', occupant', g, Source[s].rank)
          = Standing(status, winner, margin, occupant, g, Source[s].rank)
    BY <1>8, <2>2, StandingLocal
  <2>5. s \notin PlacementSlots(GroupOf[m])
    BY <1>5, <1>12 DEF PlacementSlots
  <2>6. occupant'[s] = occupant[s]
    BY <1>2, <1>5, <1>6, <2>5 DEF Rebuilt
  <2> QED
    BY <1>9, <2>3, <2>4, <2>6
<1> QED
  BY <1>10, <1>11, <1>12

(* ResolveGroups writes current standings: it fills knockout slots that    *)
(* were empty and changes none that was filled, however early it is called.*)
LEMMA ResolveFills ==
  ASSUME PlaceInv, NEW w \in Workers, WritePlacements(w), NEW s \in Slots
  PROVE  /\ occupant[s] # NULL => occupant'[s] = occupant[s]
         /\ occupant'[s] # occupant[s] =>
              /\ Source[s].type = "group_placement" /\ Source[s].group \in Groups
              /\ occupant'[s] = Standing(status, winner, margin, occupant,
                                         Source[s].group, Source[s].rank)
<1>1. req[w].pc = "placing"
  BY DEF WritePlacements
<1>2. occupant'[s] = IF req[w].placed[s] # NULL THEN req[w].placed[s] ELSE occupant[s]
  BY DEF WritePlacements
<1> DEFINE g == Source[s].group
<1>3. CASE req[w].placed[s] # NULL
  <2>1. /\ Source[s].type = "group_placement"
        /\ req[w].placed[s] = Standing(status, winner, margin, occupant, g, Source[s].rank)
    BY <1>1, <1>3 DEF PlaceInv, PlacedFresh
  <2>2. g \in Groups /\ s \in PlacementSlots(g)
    BY <2>1, GroupAssumption DEF PlacementSlots
  <2>3. \/ occupant[s] = Standing(status, winner, margin, occupant, g, Source[s].rank)
        \/ occupant[s] = NULL /\ Remaining(g) # {}
    BY <2>2 DEF PlaceInv, SlotsFollowGroups
  <2> QED
    BY <1>2, <1>3, <2>1, <2>2, <2>3
<1>4. CASE req[w].placed[s] = NULL
  BY <1>2, <1>4
<1> QED
  BY <1>3, <1>4

(* No slot of a group match is written by ResolveGroups. *)
LEMMA ResolveSparesGroups ==
  ASSUME PlaceInv, NEW w \in Workers, WritePlacements(w), NEW m \in Matches, GroupOf[m] # NULL
  PROVE  \A i \in {1, 2} : occupant'[<<m, i>>] = occupant[<<m, i>>]
<1> TAKE i \in {1, 2}
<1>1. PICK s : s = <<m, i>>
  OBVIOUS
<1>2. s \in Slots /\ Source[s].type \notin {"match_winner", "group_placement"}
  BY <1>1, GroupSlotsFixed
<1>3. occupant'[s] = occupant[s]
  BY <1>2, ResolveFills
<1> QED
  BY <1>1, <1>3

(* Every step of a lone request keeps the placements in line with the      *)
(* groups.                                                                 *)
LEMMA PlaceStep ==
  ASSUME OneAtATime, PlaceInv, [Next]_vars
  PROVE  PlaceInv'
<1> DEFINE Goal == SlotsFollowGroups' /\ CountFresh' /\ PlacedFresh'
<1> SUFFICES Goal
  BY DecidedStep DEF PlaceInv
<1>0. TypeOK /\ SlotsFollowGroups /\ CheckedStillOpen /\ StatusChangeUndecided
  BY DEF PlaceInv, DecidedInv, AuditInv
<1>1. UNCHANGED <<status, winner, margin, occupant>> => SlotsFollowGroups'
  BY <1>0 DEF SlotsFollowGroups, Remaining
<1>2. ASSUME NEW w \in Workers, NEW r, req' = [req EXCEPT ![w] = r], UNCHANGED dbVars,
             r.pc \notin {"counted", "locking", "placing"}
      PROVE  Goal
  BY <1>0, <1>1, <1>2, NothingRead DEF dbVars
<1>3. ASSUME NEW w \in Workers, Finish(w), UNCHANGED dbVars
      PROVE  Goal
  BY <1>0, <1>1, <1>3, FinishReadNothing DEF dbVars
<1>4. ASSUME NEW w \in Workers, NEW m \in Reported, NEW o \in Submissions, SubmitScore(w, m, o)
      PROVE  Goal
  <2> DEFINE r == [Idle EXCEPT !.pc = "submitted", !.match = m,
                               !.status = statusForCompletion(o.completion),
                               !.winner = IF o.slot = 0 THEN NULL ELSE occupant[<<m, o.slot>>],
                               !.sets = o.sets, !.margin = o.margin]
  <2>1. r.pc = "submitted"
    BY DEF Idle
  <2>2. req' = [req EXCEPT ![w] = r] /\ UNCHANGED dbVars
    BY <1>4 DEF SubmitScore
  <2> HIDE DEF r
  <2> QED
    BY <1>2, <2>1, <2>2
<1>5. ASSUME NEW w \in Workers, CountRemaining(w)
      PROVE  Goal
  <2> DEFINE left == Remaining(GroupOf[req[w].match]) \ {req[w].match}
             c == (left = {} /\ decidedStatus(req[w].status))
             r == [req[w] EXCEPT !.pc = "counted", !.complete = c]
  <2>1. req' = [req EXCEPT ![w] = r] /\ UNCHANGED dbVars
    BY <1>0, <1>5 DEF CountRemaining, TypeOK
  <2> HIDE DEF left
  <2>2. c \in BOOLEAN
    BY DEF decidedStatus
  <2> HIDE DEF c
  <2>3. /\ r.pc = "counted" /\ r.complete = c
        /\ r.match = req[w].match /\ r.status = req[w].status
    BY <1>0, <2>2 DEF TypeOK, Requests
  <2> HIDE DEF r
  <2>4. \A v \in Workers : req'[v] = r
    BY <1>0, <2>1, Alone
  <2>5. CountFresh'
    <3>1. PICK q : q = r
      OBVIOUS
    <3>2. Remaining(GroupOf[q.match])' = Remaining(GroupOf[q.match])
      BY <2>1 DEF dbVars, Remaining
    <3>3. left = Remaining(GroupOf[q.match]) \ {q.match}
      BY <2>3, <3>1 DEF left
    <3>4. q.complete <=> (Remaining(GroupOf[q.match])' \ {q.match} = {} /\ decidedStatus(q.status))
      BY <2>3, <3>1, <3>2, <3>3 DEF c
    <3>5. \A v \in Workers : req'[v] = q
      BY <2>4, <3>1
    <3> QED
      BY <3>4, <3>5 DEF CountFresh
  <2>6. PlacedFresh'
    BY <2>3, <2>4 DEF PlacedFresh
  <2> QED
    BY <1>1, <2>1, <2>5, <2>6 DEF dbVars
<1>6. ASSUME NEW w \in Workers, CommitScore(w)
      PROVE  CountFresh' /\ PlacedFresh'
  <2>1. [Idle EXCEPT !.pc = "scored", !.match = req[w].match].pc = "scored" /\ Idle.pc = "idle"
    BY DEF Idle
  <2>2. PICK q : q \in {Idle, [Idle EXCEPT !.pc = "scored", !.match = req[w].match]}
                 /\ req' = [req EXCEPT ![w] = q]
    BY <1>6 DEF CommitScore
  <2>3. q.pc \notin {"counted", "locking", "placing"}
    BY <2>1, <2>2
  <2> QED
    BY <1>0, <2>2, <2>3, NothingRead
<1>7. ASSUME NEW w \in Workers, SaveScore(w)
      PROVE  Goal
  <2>1. CASE CommitScore(w)
    BY <1>6, <1>7, <2>1, CommitPlaces DEF SaveScore
  <2>2. CASE RefuseScore(w)
    BY <1>3, <2>2 DEF RefuseScore
  <2> QED
    BY <1>7, <2>1, <2>2 DEF SaveScore
<1>8. ASSUME NEW w \in Workers, LockSlots(w)
      PROVE  Goal
  <2>1. PICK r \in Requests : LockedAs(w, r)
    BY <1>0, <1>8, LockStep
  <2>2. /\ req' = [req EXCEPT ![w] = r] /\ r.pc = "locking" /\ UNCHANGED dbVars
        /\ r.match = req[w].match /\ r.status = req[w].status /\ r.complete = req[w].complete
    BY <2>1 DEF LockedAs
  <2>3. \A v \in Workers : req'[v] = r
    BY <1>0, <2>2, Alone
  <2>4. \/ ~AffectsGroup(req[w])
        \/ req[w].complete <=> /\ Remaining(GroupOf[req[w].match]) \ {req[w].match} = {}
                               /\ decidedStatus(req[w].status)
    BY <1>8 DEF LockSlots, PlaceInv, CountFresh
  <2>5. AffectsGroup(r)' => AffectsGroup(req[w])
    BY <2>2 DEF AffectsGroup, dbVars
  <2>6. Remaining(GroupOf[r.match])' = Remaining(GroupOf[req[w].match])
    BY <2>2 DEF Remaining, dbVars
  <2>7. AffectsGroup(r)' =>
           (r.complete <=> /\ Remaining(GroupOf[r.match])' \ {r.match} = {}
                           /\ decidedStatus(r.status))
    BY <2>2, <2>4, <2>5, <2>6
  <2>8. CountFresh'
    BY <2>3, <2>7 DEF CountFresh
  <2>9. PlacedFresh'
    BY <2>2, <2>3 DEF PlacedFresh
  <2> QED
    BY <1>1, <2>2, <2>8, <2>9 DEF dbVars
<1>9. [Idle EXCEPT !.pc = "resolving"].pc = "resolving"
  BY DEF Idle
<1>10. ASSUME NEW w \in Workers, MaybeResolveGroups(w)
      PROVE  Goal
  BY <1>2, <1>3, <1>10, <1>9 DEF MaybeResolveGroups
<1>11. ASSUME NEW w \in Workers, CallResolveGroups(w)
       PROVE  Goal
  BY <1>2, <1>9, <1>11 DEF CallResolveGroups
<1>12. ASSUME NEW w \in Workers, ReadStandings(w)
       PROVE  Goal
  <2> DEFINE pl == [s \in Slots |->
                       IF Source[s].type = "group_placement"
                       THEN Standing(status, winner, margin, occupant, Source[s].group, Source[s].rank)
                       ELSE NULL]
             r  == [Idle EXCEPT !.pc = "placing", !.placed = pl]
  <2>1. \A s \in Slots : pl[s] # NULL =>
           /\ Source[s].type = "group_placement"
           /\ pl[s] = Standing(status, winner, margin, occupant, Source[s].group, Source[s].rank)
    OBVIOUS
  <2>2. req' = [req EXCEPT ![w] = r] /\ UNCHANGED dbVars /\ req[w].pc = "resolving"
    BY <1>12 DEF ReadStandings
  <2> HIDE DEF pl
  <2>3. r.placed = pl /\ r.pc = "placing"
    BY DEF Idle
  <2> HIDE DEF r
  <2>4. \A v \in Workers : req'[v] = r
    BY <1>0, <2>2, Alone
  <2>6. CountFresh'
    BY <2>3, <2>4 DEF CountFresh
  <2>7. PlacedFresh'
    BY <2>1, <2>2, <2>3, <2>4 DEF PlacedFresh, dbVars
  <2> QED
    BY <1>1, <2>2, <2>6, <2>7 DEF dbVars
<1>13. ASSUME NEW w \in Workers, WritePlacements(w)
       PROVE  Goal
  <2>1. UNCHANGED <<status, winner, margin>> /\ Finish(w)
    BY <1>13 DEF WritePlacements
  <2>2. SlotsFollowGroups'
    <3> SUFFICES ASSUME NEW g \in Groups, NEW s \in PlacementSlots(g)
                 PROVE  \/ occupant'[s]
                              = Standing(status', winner', margin', occupant', g, Source[s].rank)
                        \/ occupant'[s] = NULL /\ Remaining(g)' # {}
      BY DEF SlotsFollowGroups
    <3>1. s \in Slots /\ Source[s].group = g
      BY DEF PlacementSlots
    <3>2. \A n \in GroupMatches(g) : \A i \in {1, 2} : occupant'[<<n, i>>] = occupant[<<n, i>>]
      <4> TAKE n \in GroupMatches(g)
      <4>1. n \in Matches /\ GroupOf[n] # NULL
        BY DEF GroupMatches
      <4> QED
        BY <1>13, <4>1, ResolveSparesGroups
    <3>3. \A n \in GroupMatches(g) :
             /\ status'[n] \in CountedStatus <=> status[n] \in CountedStatus
             /\ status[n] \in CountedStatus => winner'[n] = winner[n] /\ margin'[n] = margin[n]
      BY <2>1
    <3>4. Standing(status', winner', margin', occupant', g, Source[s].rank)
            = Standing(status, winner, margin, occupant, g, Source[s].rank)
      BY <3>2, <3>3, StandingLocal
    <3>5. \/ occupant[s] = Standing(status, winner, margin, occupant, g, Source[s].rank)
          \/ occupant[s] = NULL /\ Remaining(g) # {}
      BY <1>0 DEF SlotsFollowGroups
    <3>6. Remaining(g)' = Remaining(g)
      BY <2>1 DEF Remaining
    <3>7. \/ occupant'[s] = occupant[s]
          \/ occupant'[s] = Standing(status, winner, margin, occupant, g, Source[s].rank)
      BY <1>13, <3>1, ResolveFills
    <3> QED
      BY <3>4, <3>5, <3>6, <3>7
  <2> QED
    BY <1>0, <2>1, <2>2, FinishReadNothing
<1>14. ASSUME NEW w \in Workers, NEW m \in Reported, NEW new \in StatusRequests, CheckStatus(w, m, new)
       PROVE  Goal
  <2> DEFINE r == [Idle EXCEPT !.pc = "checked", !.match = m, !.status = new]
  <2>1. r.pc = "checked"
    BY DEF Idle
  <2>2. req' = [req EXCEPT ![w] = r] /\ UNCHANGED dbVars
    BY <1>14 DEF CheckStatus
  <2> HIDE DEF r
  <2> QED
    BY <1>2, <2>1, <2>2
<1>15. ASSUME NEW w \in Workers, SetStatus(w)
       PROVE  Goal
  <2> DEFINE m == req[w].match
  <2>1. m \in Matches /\ ~decidedStatus(status[m]) /\ ~decidedStatus(req[w].status)
    BY <1>0, <1>15 DEF SetStatus, CheckedStillOpen, StatusChangeUndecided, TypeOK
  <2>2. /\ status' = [status EXCEPT ![m] = req[w].status]
        /\ UNCHANGED <<winner, margin, occupant>>
        /\ Finish(w)
    BY <1>15 DEF SetStatus
  <2>3. status'[m] = req[w].status /\ \A n \in Matches \ {m} : status'[n] = status[n]
    BY <1>0, <2>1, <2>2 DEF TypeOK
  <2>4. ASSUME NEW g \in Groups
        PROVE  Remaining(g)' = Remaining(g)
    <3>1. \A n \in GroupMatches(g) : decidedStatus(status'[n]) <=> decidedStatus(status[n])
      BY <2>1, <2>3 DEF GroupMatches
    <3> QED
      BY <3>1 DEF Remaining
  <2>5. SlotsFollowGroups'
    <3> SUFFICES ASSUME NEW g \in Groups, NEW s \in PlacementSlots(g)
                 PROVE  \/ occupant'[s]
                              = Standing(status', winner', margin', occupant', g, Source[s].rank)
                        \/ occupant'[s] = NULL /\ Remaining(g)' # {}
      BY DEF SlotsFollowGroups
    <3>1. \/ occupant[s] = Standing(status, winner, margin, occupant, g, Source[s].rank)
          \/ occupant[s] = NULL /\ Remaining(g) # {}
      BY <1>0 DEF SlotsFollowGroups
    <3>2. status[m] \notin CountedStatus /\ status'[m] \notin CountedStatus
      BY <2>1, <2>3 DEF CountedStatus, decidedStatus
    <3>3. \A n \in GroupMatches(g) :
             /\ status'[n] \in CountedStatus <=> status[n] \in CountedStatus
             /\ status[n] \in CountedStatus => winner'[n] = winner[n] /\ margin'[n] = margin[n]
             /\ \A i \in {1, 2} : occupant'[<<n, i>>] = occupant[<<n, i>>]
      BY <2>2, <2>3, <3>2 DEF GroupMatches
    <3>4. Standing(status', winner', margin', occupant', g, Source[s].rank)
            = Standing(status, winner, margin, occupant, g, Source[s].rank)
      BY <3>3, StandingLocal
    <3> QED
      BY <2>2, <2>4, <3>1, <3>4
  <2> QED
    BY <1>0, <2>2, <2>5, FinishReadNothing
<1>16. ASSUME NEW w \in Workers, Fail(w)
       PROVE  Goal
  BY <1>3, <1>16 DEF Fail
<1>17. CASE UNCHANGED vars
  <2>1. UNCHANGED dbVars /\ req' = req
    BY <1>17 DEF vars, dbVars
  <2>2. CountFresh' /\ PlacedFresh'
    BY <2>1 DEF PlaceInv, CountFresh, PlacedFresh, AffectsGroup, Remaining, dbVars
  <2> QED
    BY <1>1, <2>1, <2>2 DEF dbVars
<1> HIDE DEF Goal
<1> QED
  BY <1>4, <1>5, <1>7, <1>8, <1>10, <1>12, <1>13, <1>14, <1>15, <1>16, <1>17, <1>11
     DEF Next, Arrive, Progress

(* The persisted draw has no placement filled, and every group with a      *)
(* match still has it to play.                                             *)
LEMMA PlaceInit == Init => PlaceInv
<1> SUFFICES ASSUME Init PROVE SlotsFollowGroups /\ CountFresh /\ PlacedFresh
  BY DecidedInit DEF PlaceInv
<1>1. \A w \in Workers : req[w].pc = "idle"
  BY DEF Init, Idle
<1>2. CountFresh /\ PlacedFresh
  BY <1>1 DEF CountFresh, PlacedFresh
<1>3. ASSUME NEW g \in Groups, NEW s \in PlacementSlots(g)
      PROVE  \/ occupant[s] = Standing(status, winner, margin, occupant, g, Source[s].rank)
             \/ occupant[s] = NULL /\ Remaining(g) # {}
  <2>1. occupant[s] = NULL
    BY DEF Init, PlacementSlots
  <2>2. CASE GroupMatches(g) = {}
    <3>1. Standing(status, winner, margin, occupant, g, Source[s].rank) = NULL
      BY <2>2, EmptyGroupStanding
    <3> QED
      BY <2>1, <3>1
  <2>3. CASE GroupMatches(g) # {}
    <3>1. PICK m \in GroupMatches(g) : TRUE
      BY <2>3
    <3>2. m \in Matches /\ GroupOf[m] # NULL
      BY <3>1 DEF GroupMatches
    <3>3. status[m] = "pending"
      BY <3>2, GroupAssumption DEF Init
    <3>4. m \in Remaining(g)
      BY <3>1, <3>3 DEF Remaining, decidedStatus
    <3> QED
      BY <2>1, <3>4
  <2> QED
    BY <2>2, <2>3
<1> QED
  BY <1>2, <1>3 DEF SlotsFollowGroups

(* While requests do not overlap, also with organisers resolving groups by *)
(* hand, the knockout slots of a complete group hold its current           *)
(* standings, however scores were corrected and wherever a request died:   *)
(* the rebuild inside SaveScore's transaction is enough.                   *)
THEOREM PlacementsStayCurrent ==
  ASSUME OneAtATime
  PROVE  Spec => []PlacementsCurrent
<1>1. PlaceInv /\ [Next]_vars => PlaceInv'
  BY PlaceStep
<1>2. PlaceInv => PlacementsCurrent
  BY DEF PlaceInv, SlotsFollowGroups, PlacementsCurrent
<1> QED
  BY <1>1, <1>2, PlaceInit, PTL DEF Spec

(* Whoever a group sends to the knockout plays in the group, and nobody is *)
(* sent to two of its ranks, not even while a correction is being applied. *)
QualifiersOnce ==
    \A g \in Groups : \A s \in PlacementSlots(g) :
        occupant[s] # NULL =>
            /\ occupant[s] \in Field(occupant, g)
            /\ \A t \in PlacementSlots(g) :
                 Source[t].rank # Source[s].rank => occupant[t] # occupant[s]

(* While requests do not overlap, the knockout has nobody twice for one    *)
(* group and nobody from outside it (resolveGroups and the rebuild inside  *)
(* SaveScore fill every rank from one table).                              *)
THEOREM QualifyOnce ==
  ASSUME OneAtATime
  PROVE  Spec => []QualifiersOnce
<1>1. PlaceInv /\ [Next]_vars => PlaceInv'
  BY PlaceStep
<1>2. PlaceInv => QualifiersOnce
  <2> SUFFICES ASSUME PlaceInv, NEW g \in Groups, NEW s \in PlacementSlots(g),
                      occupant[s] # NULL
               PROVE  /\ occupant[s] \in Field(occupant, g)
                      /\ \A t \in PlacementSlots(g) :
                           Source[t].rank # Source[s].rank => occupant[t] # occupant[s]
    BY DEF QualifiersOnce
  <2> DEFINE At(i) == Standing(status, winner, margin, occupant, g, i)
  <2>1. \A t \in PlacementSlots(g) : Source[t].rank \in Int
    BY SourceAssumption DEF PlacementSlots, Sources
  <2>2. \A t \in PlacementSlots(g) : occupant[t] # NULL => occupant[t] = At(Source[t].rank)
    BY DEF PlaceInv, SlotsFollowGroups
  <2>3. At(Source[s].rank) # NULL
    BY <2>2
  <2>4. /\ At(Source[s].rank) \in Field(occupant, g)
        /\ \A j \in Int \ {Source[s].rank} : At(j) # At(Source[s].rank)
    BY <2>1, <2>3, OneRankEach
  <2> QED
    BY <2>1, <2>2, <2>4
<1> QED
  BY <1>1, <1>2, PlaceInit, PTL DEF Spec

(* A lone request that is not about to resolve groups needs none finished. *)
LEMMA NothingResolved ==
  ASSUME OneAtATime, TypeOK, NEW w \in Workers, NEW r, req' = [req EXCEPT ![w] = r],
         r.pc \notin {"resolving", "placing"}
  PROVE  ResolveFresh'
<1>1. \A v \in Workers : req'[v] = r
  BY Alone
<1> QED
  BY <1>1 DEF ResolveFresh

(* The same for a request that ends. *)
LEMMA FinishResolvesNothing ==
  ASSUME OneAtATime, TypeOK, NEW w \in Workers, Finish(w)
  PROVE  ResolveFresh'
<1>1. Idle.pc = "idle"
  BY DEF Idle
<1> QED
  BY <1>1, NothingResolved DEF Finish

(* SaveScore fills no slot of an unfinished group. *)
LEMMA CommitKeepsOpen ==
  ASSUME OneAtATime, OpenInv, NEW w \in Workers, CommitScore(w),
         req[w].pc = "locking"
  PROVE  OpenSlotsEmpty' /\ ResolveFresh'
<1>1. PlaceInv /\ TypeOK /\ OpenSlotsEmpty
  BY DEF OpenInv, PlaceInv, DecidedInv, AuditInv
<1>2. OpenSlotsEmpty'
  BY <1>1, CommitPlaces
<1>3. [Idle EXCEPT !.pc = "scored", !.match = req[w].match].pc = "scored" /\ Idle.pc = "idle"
  BY DEF Idle
<1>4. PICK q : q \in {Idle, [Idle EXCEPT !.pc = "scored", !.match = req[w].match]}
               /\ req' = [req EXCEPT ![w] = q]
  BY DEF CommitScore
<1>5. q.pc \notin {"resolving", "placing"}
  BY <1>3, <1>4
<1> QED
  BY <1>1, <1>2, <1>4, <1>5, NothingResolved

(* Every step of a lone request, with no organiser resolving groups by     *)
(* hand, leaves the slots of unfinished groups empty.                      *)
LEMMA OpenStep ==
  ASSUME OneAtATime, ~ManualResolve, OpenInv, [Next]_vars
  PROVE  OpenInv'
<1> DEFINE Goal == OpenSlotsEmpty' /\ ResolveFresh'
<1>0. /\ TypeOK /\ PlaceInv /\ OpenSlotsEmpty /\ ResolveFresh
      /\ CheckedStillOpen /\ StatusChangeUndecided
  BY DEF OpenInv, PlaceInv, DecidedInv, AuditInv
<1> SUFFICES Goal
  BY <1>0, PlaceStep DEF OpenInv
<1>1. UNCHANGED dbVars => OpenSlotsEmpty'
  BY <1>0 DEF OpenSlotsEmpty, Remaining, dbVars
<1>2. ASSUME NEW w \in Workers, NEW r, req' = [req EXCEPT ![w] = r], UNCHANGED dbVars,
             r.pc \notin {"resolving", "placing"}
      PROVE  Goal
  BY <1>0, <1>1, <1>2, NothingResolved
<1>3. ASSUME NEW w \in Workers, Finish(w), UNCHANGED dbVars
      PROVE  Goal
  BY <1>0, <1>1, <1>3, FinishResolvesNothing
<1>4. ASSUME NEW w \in Workers, NEW r, req' = [req EXCEPT ![w] = r], UNCHANGED dbVars,
             \A g \in Groups : Remaining(g) = {}
      PROVE  Goal
  <2>1. \A g \in Groups : Remaining(g)' = {}
    BY <1>4 DEF Remaining, dbVars
  <2>2. ResolveFresh'
    BY <2>1 DEF ResolveFresh
  <2> QED
    BY <1>1, <1>4, <2>2
<1>5. ASSUME NEW w \in Workers, NEW m \in Reported, NEW o \in Submissions, SubmitScore(w, m, o)
      PROVE  Goal
  <2> DEFINE r == [Idle EXCEPT !.pc = "submitted", !.match = m,
                               !.status = statusForCompletion(o.completion),
                               !.winner = IF o.slot = 0 THEN NULL ELSE occupant[<<m, o.slot>>],
                               !.sets = o.sets, !.margin = o.margin]
  <2>1. r.pc = "submitted"
    BY DEF Idle
  <2>2. req' = [req EXCEPT ![w] = r] /\ UNCHANGED dbVars
    BY <1>5 DEF SubmitScore
  <2> HIDE DEF r
  <2> QED
    BY <1>2, <2>1, <2>2
<1>6. ASSUME NEW w \in Workers, CountRemaining(w)
      PROVE  Goal
  <2> DEFINE c == (Remaining(GroupOf[req[w].match]) \ {req[w].match} = {}
                   /\ decidedStatus(req[w].status))
             r == [req[w] EXCEPT !.pc = "counted", !.complete = c]
  <2>1. req' = [req EXCEPT ![w] = r] /\ UNCHANGED dbVars
    BY <1>0, <1>6 DEF CountRemaining, TypeOK
  <2>2. r.pc = "counted"
    BY <1>0 DEF TypeOK, Requests
  <2> HIDE DEF r
  <2> QED
    BY <1>2, <2>1, <2>2
<1>7. ASSUME NEW w \in Workers, SaveScore(w)
      PROVE  Goal
  <2>1. CASE CommitScore(w)
    BY <1>7, <2>1, CommitKeepsOpen DEF SaveScore
  <2>2. CASE RefuseScore(w)
    BY <1>3, <2>2 DEF RefuseScore
  <2> QED
    BY <1>7, <2>1, <2>2 DEF SaveScore
<1>8. ASSUME NEW w \in Workers, LockSlots(w)
      PROVE  Goal
  <2>1. PICK r \in Requests : LockedAs(w, r)
    BY <1>0, <1>8, LockStep
  <2>2. req' = [req EXCEPT ![w] = r] /\ r.pc = "locking" /\ UNCHANGED dbVars
    BY <2>1 DEF LockedAs
  <2> QED
    BY <1>2, <2>2
<1>9. ASSUME NEW w \in Workers, MaybeResolveGroups(w)
      PROVE  Goal
  <2>1. CASE \A g \in Groups : Remaining(g) = {}
    BY <1>4, <1>9, <2>1 DEF MaybeResolveGroups
  <2>2. CASE ~ \A g \in Groups : Remaining(g) = {}
    BY <1>3, <1>9, <2>2 DEF MaybeResolveGroups
  <2> QED
    BY <2>1, <2>2
<1>10. ASSUME NEW w \in Workers, ReadStandings(w)
       PROVE  Goal
  <2> DEFINE pl == [s \in Slots |->
                       IF Source[s].type = "group_placement"
                       THEN Standing(status, winner, margin, occupant, Source[s].group, Source[s].rank)
                       ELSE NULL]
             r  == [Idle EXCEPT !.pc = "placing", !.placed = pl]
  <2>1. req' = [req EXCEPT ![w] = r] /\ UNCHANGED dbVars /\ req[w].pc = "resolving"
    BY <1>10 DEF ReadStandings
  <2>2. \A g \in Groups : Remaining(g) = {}
    BY <1>0, <2>1 DEF ResolveFresh
  <2> HIDE DEF r
  <2> QED
    BY <1>4, <2>1, <2>2
<1>11. ASSUME NEW w \in Workers, WritePlacements(w)
       PROVE  Goal
  <2>1. UNCHANGED status /\ Finish(w) /\ req[w].pc = "placing"
    BY <1>11 DEF WritePlacements
  <2>2. \A g \in Groups : Remaining(g) = {}
    BY <1>0, <2>1 DEF ResolveFresh
  <2>3. \A g \in Groups : Remaining(g)' = {}
    BY <2>1, <2>2 DEF Remaining
  <2>4. OpenSlotsEmpty'
    BY <2>3 DEF OpenSlotsEmpty
  <2> QED
    BY <1>0, <2>1, <2>4, FinishResolvesNothing
<1>12. ASSUME NEW w \in Workers, NEW m \in Reported, NEW new \in StatusRequests, CheckStatus(w, m, new)
       PROVE  Goal
  <2> DEFINE r == [Idle EXCEPT !.pc = "checked", !.match = m, !.status = new]
  <2>1. r.pc = "checked"
    BY DEF Idle
  <2>2. req' = [req EXCEPT ![w] = r] /\ UNCHANGED dbVars
    BY <1>12 DEF CheckStatus
  <2> HIDE DEF r
  <2> QED
    BY <1>2, <2>1, <2>2
<1>13. ASSUME NEW w \in Workers, SetStatus(w)
       PROVE  Goal
  <2> DEFINE m == req[w].match
  <2>1. m \in Matches /\ ~decidedStatus(status[m])
    BY <1>0, <1>13 DEF SetStatus, CheckedStillOpen, TypeOK
  <2>2. /\ status' = [status EXCEPT ![m] = req[w].status]
        /\ UNCHANGED occupant
        /\ Finish(w)
    BY <1>13 DEF SetStatus
  <2>3. \A n \in Matches : ~decidedStatus(status'[n]) => ~decidedStatus(status[n])
    BY <1>0, <2>1, <2>2 DEF TypeOK
  <2>4. ASSUME NEW g \in Groups, Remaining(g)' # {}
        PROVE  Remaining(g) # {}
    BY <2>3, <2>4 DEF Remaining, GroupMatches
  <2>5. OpenSlotsEmpty'
    BY <1>0, <2>2, <2>4 DEF OpenSlotsEmpty
  <2> QED
    BY <1>0, <2>2, <2>5, FinishResolvesNothing
<1>14. ASSUME NEW w \in Workers, Fail(w)
       PROVE  Goal
  BY <1>3, <1>14 DEF Fail
<1>15. CASE UNCHANGED vars
  <2>1. UNCHANGED dbVars /\ req' = req
    BY <1>15 DEF vars, dbVars
  <2>2. ResolveFresh'
    BY <1>0, <2>1 DEF ResolveFresh, Remaining, dbVars
  <2> QED
    BY <1>1, <2>1, <2>2
<1>16. \A w \in Workers : ~CallResolveGroups(w)
  BY DEF CallResolveGroups
<1> HIDE DEF Goal
<1> QED
  BY <1>0, <1>5, <1>6, <1>7, <1>8, <1>9, <1>10, <1>11, <1>12, <1>13, <1>14, <1>15, <1>16
     DEF OpenInv, Next, Arrive, Progress

(* While requests do not overlap and nobody resolves groups by hand, a     *)
(* group with a match left to play, also one that a correction reopened,   *)
(* has nobody in its knockout slots.                                       *)
THEOREM OpenGroupsStayUnresolved ==
  ASSUME OneAtATime, ~ManualResolve
  PROVE  Spec => []OpenGroupUnresolved
<1>1. Init => OpenInv
  <2> SUFFICES ASSUME Init PROVE OpenSlotsEmpty /\ ResolveFresh
    BY PlaceInit DEF OpenInv
  <2>1. OpenSlotsEmpty
    BY DEF Init, OpenSlotsEmpty, PlacementSlots
  <2>2. \A w \in Workers : req[w].pc = "idle"
    BY DEF Init, Idle
  <2> QED
    BY <2>1, <2>2 DEF ResolveFresh
<1>2. OpenInv /\ [Next]_vars => OpenInv'
  BY OpenStep
<1>3. OpenInv => OpenGroupUnresolved
  BY DEF OpenInv, OpenSlotsEmpty, OpenGroupUnresolved
<1> QED
  BY <1>1, <1>2, <1>3, PTL DEF Spec

----------------------------------------------------------------------------
(* Winners. *)

(* Who plays a match depends on the match's two slots only. *)
LEMMA PlaysLocal ==
  ASSUME NEW oc, NEW oc2, NEW p, NEW m, Plays(oc, p, m),
         \A i \in {1, 2} : oc2[<<m, i>>] = oc[<<m, i>>]
  PROVE  Plays(oc2, p, m)
  BY DEF Plays

(* A lone request with no score under way has no winner to go stale. *)
LEMMA NoWinnerRead ==
  ASSUME OneAtATime, TypeOK, NEW w \in Workers, NEW r, req' = [req EXCEPT ![w] = r],
         r.pc \notin {"submitted", "counted", "locking"}
  PROVE  WinnerFresh'
<1>1. \A v \in Workers : req'[v] = r
  BY Alone
<1> QED
  BY <1>1 DEF WinnerFresh

(* The same for a request that ends. *)
LEMMA FinishNoWinner ==
  ASSUME OneAtATime, TypeOK, NEW w \in Workers, Finish(w)
  PROVE  WinnerFresh'
<1>1. Idle.pc = "idle"
  BY DEF Idle
<1> QED
  BY <1>1, NoWinnerRead DEF Finish

(* A committed score leaves every recorded winner in its match: its own    *)
(* slots it does not write, those of another match with a winner it may    *)
(* not.                                                                    *)
LEMMA CommitWinners ==
  ASSUME OneAtATime, WinnerInv, NEW w \in Workers,
         CommitScore(w),
         req[w].pc = "locking"
  PROVE  WinnerPlays' /\ WinnerDecided' /\ WinnerFresh'
<1> DEFINE r == req[w]
           m == r.match
<1>1. TypeOK /\ m \in Matches
  BY DEF WinnerInv, PlaceInv, DecidedInv, AuditInv, TypeOK
<1>2. /\ status' = [status EXCEPT ![m] = r.status]
      /\ winner' = [winner EXCEPT ![m] = r.winner]
      /\ occupant' = Rebuilt(r)
  BY DEF CommitScore
<1>3. status'[m] = r.status /\ winner'[m] = r.winner
  BY <1>1, <1>2 DEF TypeOK
<1>4. ASSUME NEW n \in Matches, n # m
      PROVE  status'[n] = status[n] /\ winner'[n] = winner[n]
  BY <1>1, <1>2, <1>4 DEF TypeOK
<1>5. r.winner # NULL => r.status \in CountedStatus /\ Plays(occupant, r.winner, m)
  BY DEF WinnerInv, WinnerFresh
<1>6. \A i \in {1, 2} : occupant'[<<m, i>>] = occupant[<<m, i>>]
  <2> TAKE i \in {1, 2}
  <2>1. <<m, i>> \in Slots /\ <<m, i>>[1] = m
    BY <1>1 DEF Slots
  <2>2. <<m, i>> \notin Consumers(m)
    BY <2>1 DEF Consumers
  <2>3. AffectsGroup(r) => <<m, i>> \notin PlacementSlots(GroupOf[m])
    BY <1>1, <2>1 DEF PlacementSlots, AffectsGroup
  <2> QED
    BY <1>2, <2>1, <2>2, <2>3 DEF Rebuilt
<1>7. WinnerDecided'
  <2> SUFFICES ASSUME NEW n \in Matches, winner'[n] # NULL PROVE status'[n] \in CountedStatus
    BY DEF WinnerDecided
  <2>1. CASE n = m
    BY <1>3, <1>5, <2>1
  <2>2. CASE n # m
    BY <1>4, <2>2 DEF WinnerInv, WinnerDecided
  <2> QED
    BY <2>1, <2>2
<1>8. WinnerPlays'
  <2> SUFFICES ASSUME NEW n \in Matches, winner'[n] # NULL PROVE Plays(occupant', winner'[n], n)
    BY DEF WinnerPlays
  <2>1. CASE n = m
    BY <1>3, <1>5, <1>6, <2>1, PlaysLocal
  <2>2. CASE n # m
    <3>1. winner[n] # NULL /\ winner'[n] = winner[n]
      BY <1>4, <2>2
    <3>2. status[n] \in CountedStatus /\ Plays(occupant, winner[n], n)
      BY <3>1 DEF WinnerInv, WinnerDecided, WinnerPlays
    <3>3. status[n] \notin OpenStatus
      BY <3>2 DEF OpenStatus, CountedStatus
    <3>4. \A i \in {1, 2} : occupant'[<<n, i>>] = occupant[<<n, i>>]
      <4> TAKE i \in {1, 2}
      <4>1. <<n, i>> \in Slots /\ <<n, i>>[1] = n
        BY DEF Slots
      <4> QED
        BY <3>3, <4>1, CommitSpares
    <3> QED
      BY <3>1, <3>2, <3>4, PlaysLocal
  <2> QED
    BY <2>1, <2>2
<1>9. WinnerFresh'
  <2>1. [Idle EXCEPT !.pc = "scored", !.match = m].pc = "scored" /\ Idle.pc = "idle"
    BY DEF Idle
  <2>2. PICK q : q \in {Idle, [Idle EXCEPT !.pc = "scored", !.match = m]}
                 /\ req' = [req EXCEPT ![w] = q]
    BY DEF CommitScore
  <2>3. q.pc \notin {"submitted", "counted", "locking"}
    BY <2>1, <2>2
  <2> QED
    BY <1>1, <2>2, <2>3, NoWinnerRead
<1> QED
  BY <1>7, <1>8, <1>9

(* Every step of a lone request keeps recorded winners in their matches.   *)
LEMMA WinnerStep ==
  ASSUME OneAtATime, WinnerInv, [Next]_vars
  PROVE  WinnerInv'
<1> DEFINE Goal == WinnerPlays' /\ WinnerDecided' /\ WinnerFresh'
<1> SUFFICES Goal
  BY PlaceStep DEF WinnerInv
<1>0. /\ TypeOK /\ PlaceInv /\ WinnerPlays /\ WinnerDecided /\ WinnerFresh
      /\ CheckedStillOpen
  BY DEF WinnerInv, PlaceInv, DecidedInv, AuditInv
<1>1. UNCHANGED dbVars => WinnerPlays' /\ WinnerDecided'
  BY <1>0 DEF WinnerPlays, WinnerDecided, dbVars
<1>2. ASSUME NEW w \in Workers, NEW r, req' = [req EXCEPT ![w] = r], UNCHANGED dbVars,
             r.pc \notin {"submitted", "counted", "locking"}
      PROVE  Goal
  BY <1>0, <1>1, <1>2, NoWinnerRead
<1>3. ASSUME NEW w \in Workers, Finish(w), UNCHANGED dbVars
      PROVE  Goal
  BY <1>0, <1>1, <1>3, FinishNoWinner
<1>4. ASSUME NEW w \in Workers, NEW m \in Reported, NEW o \in Submissions, SubmitScore(w, m, o)
      PROVE  Goal
  <2> DEFINE p == IF o.slot = 0 THEN NULL ELSE occupant[<<m, o.slot>>]
             r == [Idle EXCEPT !.pc = "submitted", !.match = m,
                               !.status = statusForCompletion(o.completion),
                               !.winner = p, !.sets = o.sets, !.margin = o.margin]
  <2>1. o \in Outcomes /\ ValidOutcome(o)
    BY <1>4 DEF SubmitScore
  <2>2. o.slot \in 0 .. 2 /\ o.completion \in CompletionKinds
    BY <2>1 DEF Outcomes
  <2>3. p # NULL => o.slot \in {1, 2} /\ occupant[<<m, o.slot>>] = p
    BY <2>2
  <2>4. p # NULL => statusForCompletion(o.completion) \in CountedStatus
    BY <2>1, <2>2, <2>3 DEF ValidOutcome, CompletionKinds, statusForCompletion, CountedStatus
  <2>5. p # NULL => Plays(occupant, p, m)
    BY <2>3 DEF Plays
  <2>6. req' = [req EXCEPT ![w] = r] /\ UNCHANGED dbVars
    BY <1>4 DEF SubmitScore
  <2> HIDE DEF p
  <2>7. r.match = m /\ r.winner = p /\ r.status = statusForCompletion(o.completion)
    BY DEF Idle
  <2> HIDE DEF r
  <2>8. PICK q : q = r
    OBVIOUS
  <2>9. \A v \in Workers : req'[v] = q
    BY <1>0, <2>6, <2>8, Alone
  <2>10. q.winner # NULL => q.status \in CountedStatus /\ Plays(occupant', q.winner, q.match)
    BY <2>4, <2>5, <2>6, <2>7, <2>8 DEF dbVars
  <2>11. WinnerFresh'
    BY <2>9, <2>10 DEF WinnerFresh
  <2> QED
    BY <1>1, <2>6, <2>11
<1>5. ASSUME NEW w \in Workers, CountRemaining(w)
      PROVE  Goal
  <2> DEFINE c == (Remaining(GroupOf[req[w].match]) \ {req[w].match} = {}
                   /\ decidedStatus(req[w].status))
             r == [req[w] EXCEPT !.pc = "counted", !.complete = c]
  <2>1. req' = [req EXCEPT ![w] = r] /\ UNCHANGED dbVars /\ req[w].pc = "submitted"
    BY <1>0, <1>5 DEF CountRemaining, TypeOK
  <2> HIDE DEF c
  <2>2. r.match = req[w].match /\ r.status = req[w].status /\ r.winner = req[w].winner
    BY <1>0 DEF TypeOK, Requests
  <2> HIDE DEF r
  <2>3. PICK q : q = r
    OBVIOUS
  <2>4. \A v \in Workers : req'[v] = q
    BY <1>0, <2>1, <2>3, Alone
  <2>5. q.winner # NULL => q.status \in CountedStatus /\ Plays(occupant', q.winner, q.match)
    BY <1>0, <2>1, <2>2, <2>3 DEF WinnerFresh, dbVars
  <2>6. WinnerFresh'
    BY <2>4, <2>5 DEF WinnerFresh
  <2> QED
    BY <1>1, <2>1, <2>6
<1>6. ASSUME NEW w \in Workers, SaveScore(w)
      PROVE  Goal
  <2>1. CASE CommitScore(w)
    BY <1>6, <2>1, CommitWinners DEF SaveScore
  <2>2. CASE RefuseScore(w)
    BY <1>3, <2>2 DEF RefuseScore
  <2> QED
    BY <1>6, <2>1, <2>2 DEF SaveScore
<1>7. ASSUME NEW w \in Workers, LockSlots(w)
      PROVE  Goal
  <2>1. PICK r \in Requests : LockedAs(w, r)
    BY <1>0, <1>7, LockStep
  <2>2. /\ req' = [req EXCEPT ![w] = r] /\ UNCHANGED dbVars
        /\ r.match = req[w].match /\ r.status = req[w].status /\ r.winner = req[w].winner
    BY <2>1 DEF LockedAs
  <2>3. \A v \in Workers : req'[v] = r
    BY <1>0, <2>2, Alone
  <2>4. req[w].pc \in {"submitted", "counted"}
    BY <1>7 DEF LockSlots
  <2>5. r.winner # NULL => r.status \in CountedStatus /\ Plays(occupant', r.winner, r.match)
    BY <1>0, <2>2, <2>4 DEF WinnerFresh, dbVars
  <2>6. WinnerFresh'
    BY <2>3, <2>5 DEF WinnerFresh
  <2> QED
    BY <1>1, <2>2, <2>6
<1>8. [Idle EXCEPT !.pc = "resolving"].pc = "resolving"
  BY DEF Idle
<1>9. ASSUME NEW w \in Workers, MaybeResolveGroups(w)
      PROVE  Goal
  BY <1>2, <1>3, <1>8, <1>9 DEF MaybeResolveGroups
<1>10. ASSUME NEW w \in Workers, ReadStandings(w)
       PROVE  Goal
  <2> DEFINE pl == [s \in Slots |->
                       IF Source[s].type = "group_placement"
                       THEN Standing(status, winner, margin, occupant, Source[s].group, Source[s].rank)
                       ELSE NULL]
             r  == [Idle EXCEPT !.pc = "placing", !.placed = pl]
  <2>1. req' = [req EXCEPT ![w] = r] /\ UNCHANGED dbVars
    BY <1>10 DEF ReadStandings
  <2> HIDE DEF pl
  <2>2. r.pc = "placing"
    BY DEF Idle
  <2> HIDE DEF r
  <2> QED
    BY <1>2, <2>1, <2>2
<1>11. ASSUME NEW w \in Workers, WritePlacements(w)
       PROVE  Goal
  <2>1. UNCHANGED <<status, winner>> /\ Finish(w)
    BY <1>11 DEF WritePlacements
  <2>2. ASSUME NEW m \in Matches, winner[m] # NULL
        PROVE  Plays(occupant', winner[m], m)
    <3>1. Plays(occupant, winner[m], m)
      BY <1>0, <2>2 DEF WinnerPlays
    <3>2. PICK i \in {1, 2} : occupant[<<m, i>>] = winner[m]
      BY <3>1 DEF Plays
    <3>3. <<m, i>> \in Slots
      BY DEF Slots
    <3>4. occupant'[<<m, i>>] = occupant[<<m, i>>]
      <4>1. PICK s : s = <<m, i>>
        OBVIOUS
      <4> QED
        BY <1>0, <1>11, <2>2, <3>2, <3>3, <4>1, ResolveFills
    <3> QED
      BY <3>2, <3>4 DEF Plays
  <2>3. WinnerPlays' /\ WinnerDecided'
    BY <1>0, <2>1, <2>2 DEF WinnerPlays, WinnerDecided
  <2> QED
    BY <1>0, <2>1, <2>3, FinishNoWinner
<1>12. ASSUME NEW w \in Workers, NEW m \in Reported, NEW new \in StatusRequests, CheckStatus(w, m, new)
       PROVE  Goal
  <2> DEFINE r == [Idle EXCEPT !.pc = "checked", !.match = m, !.status = new]
  <2>1. r.pc = "checked"
    BY DEF Idle
  <2>2. req' = [req EXCEPT ![w] = r] /\ UNCHANGED dbVars
    BY <1>12 DEF CheckStatus
  <2> HIDE DEF r
  <2> QED
    BY <1>2, <2>1, <2>2
<1>13. ASSUME NEW w \in Workers, SetStatus(w)
       PROVE  Goal
  <2> DEFINE m == req[w].match
  <2>1. m \in Matches /\ ~decidedStatus(status[m])
    BY <1>0, <1>13 DEF SetStatus, CheckedStillOpen, TypeOK
  <2>2. winner[m] = NULL
    BY <1>0, <2>1 DEF WinnerDecided, CountedStatus, decidedStatus
  <2>3. /\ status' = [status EXCEPT ![m] = req[w].status]
        /\ UNCHANGED <<winner, occupant>>
        /\ Finish(w)
    BY <1>13 DEF SetStatus
  <2>4. \A n \in Matches : winner'[n] # NULL => status'[n] = status[n]
    BY <1>0, <2>1, <2>2, <2>3 DEF TypeOK
  <2>5. WinnerDecided' /\ WinnerPlays'
    BY <1>0, <2>3, <2>4 DEF WinnerDecided, WinnerPlays
  <2> QED
    BY <1>0, <2>3, <2>5, FinishNoWinner
<1>14. ASSUME NEW w \in Workers, Fail(w)
       PROVE  Goal
  BY <1>3, <1>14 DEF Fail
<1>15. CASE UNCHANGED vars
  <2>1. UNCHANGED dbVars /\ req' = req
    BY <1>15 DEF vars, dbVars
  <2>2. WinnerFresh'
    BY <1>0, <2>1 DEF WinnerFresh, dbVars
  <2> QED
    BY <1>1, <2>1, <2>2
<1>16. ASSUME NEW w \in Workers, CallResolveGroups(w)
       PROVE  Goal
  BY <1>2, <1>8, <1>16 DEF CallResolveGroups
<1> HIDE DEF Goal
<1> QED
  BY <1>4, <1>5, <1>6, <1>7, <1>9, <1>10, <1>11, <1>12, <1>13, <1>14, <1>15, <1>16
     DEF Next, Arrive, Progress

(* While requests do not overlap, the recorded winner of every match is    *)
(* one of its two sides, however feeds and placements were corrected after *)
(* it and whenever organisers resolved groups: what a correction would     *)
(* change in a match with a winner is refused, and ResolveGroups only      *)
(* writes what a slot already shows.                                       *)
THEOREM WinnersPlayTheirMatches ==
  ASSUME OneAtATime
  PROVE  Spec => []WinnerPlays
<1>1. Init => WinnerInv
  <2> SUFFICES ASSUME Init PROVE WinnerPlays /\ WinnerDecided /\ WinnerFresh
    BY PlaceInit DEF WinnerInv
  <2>1. WinnerPlays /\ WinnerDecided
    BY DEF Init, WinnerPlays, WinnerDecided
  <2>2. \A w \in Workers : req[w].pc = "idle"
    BY DEF Init, Idle
  <2> QED
    BY <2>1, <2>2 DEF WinnerFresh
<1>2. WinnerInv /\ [Next]_vars => WinnerInv'
  BY WinnerStep
<1>3. WinnerInv => WinnerPlays
  BY DEF WinnerInv
<1> QED
  BY <1>1, <1>2, <1>3, PTL DEF Spec

=============================================================================
