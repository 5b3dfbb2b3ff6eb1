# A TLA+ verification of tourney-api

tourney-api is a Go modular monolith over Postgres: draws, live scoring,
scheduling and role-based access for tennis and padel tournaments. Every HTTP
request is a goroutine that runs SQL statements at READ COMMITTED, so the
interesting behaviour is what two requests do to each other between their
statements. This project models those requests, the in-memory parts beside them
(the rate limiter and the hub of the live stream) and the pure algorithms they
call, model-checks them with TLC on small instances and proves their safety
properties with TLAPS for every size.

## 1. Inventory

| Part | State | Operations | What makes it correct |
|---|---|---|---|
| `internal/match` | `matches`, `match_scores`, `match_participants` | SubmitScore/SaveScore (score, correct, reopen), SetStatus | winner feeds follow the recorded winner; started matches are never rewritten; results are audited; decided matches are only reopened by a correction |
| `internal/draw` (resolution) | knockout slots typed by their source | RebuildGroupPlacements, MaybeResolveGroups, ResolveGroups | a finished group fills its slots with its standings, a reopened one clears them |
| `internal/draw` (generators), `match/scoring.go` | none, pure | single elimination, manual pairs, round robin, group to knockout; ValidateScore | every pair meets once, every winner feeds one slot, every advancer appears once; a score is accepted exactly when it can have been played |
| `internal/draw` (manual setup) | fixtures under an advisory lock | AddManualMatch, GenerateRoundRobinFixtures, DeleteManualMatch, SetGroups | no duplicate fixture, whatever overlaps |
| `internal/platform` | `users.role`, `users.status` | ChangeRole, SetUserStatus, invitations | an active super admin always remains |
| `internal/auth` sessions | `auth_sessions` | Login, Refresh/Rotate, Logout, RevokeAllForUser | revocation is immediate and final, replays end the session |
| `internal/auth` impersonation | child sessions | StartImpersonation, ExitImpersonation | no nesting, one at a time, nothing borrowed survives its owner |
| `internal/auth` OTP, invitations | `otp_challenges`, `invitations` | Request, VerifyAndSignIn, CreateInvitation, RevokeInvitation | a new code retires the old one, an attempt cap, an all-or-nothing sign-in, a terminal revocation |
| `internal/auth` rate limit | sliding windows in memory | Allow, Reset | at most the limit per window, a bounded map |
| `internal/schedule` | `schedule_slots`, stamps on `matches` | WriteSlot, DeleteSlot | no court or pair booked twice, stamps mirror slots |
| `internal/realtime` | subscribers per topic | Subscribe, Publish, unsubscribe | no send on a closed channel, changes reach whoever keeps up, a hidden tournament goes silent, subscriptions are released |
| `internal/tournament`, `event`, `participant`, `audit` | one table each | create, read, update, delete | unique slugs, cascades |
| `internal/server`, `config`, `email`, `storage`, `cmd` | none of their own | routing, start-up, I/O | - |

Interaction: SaveScore calls RebuildGroupPlacements inside its transaction and
MaybeResolveGroups after it; scheduling writes `matches.status` (pending and
scheduled) and mirrors its slots on `matches`; administration and revoked
invitations end sessions inside their own transactions; a first sign-in creates
accounts; score, status and slot requests broadcast through the hub, on a topic
that depends on the tournament's status and the division's `is_public`. What is
hard: values read before a transaction and used in it, guards separated from
their UPDATE, counts taken before a row lock, requests that die between two
statements, channels closed while others send. `PROJECT.json` lists the hazards
at their lines.

## 2. Modules

| Module | Models | Kind |
|---|---|---|
| `Bracket` | scoring, status changes and group resolution of one division | component |
| `Accounts` | what user administration promises: atomic changes, last-admin guard | abstract specification |
| `UserAdmin` | the row-lock transactions that implement `Accounts` | component, refinement |
| `Sessions` | sessions, refresh rotation, impersonation, teardown | component, composed with `Accounts` |
| `SignIn` | one-time codes and invitations | component |
| `Limiter` | the sliding-window rate limiter | component |
| `Draws` | draw generators, group setup and the rows they become | pure operators |
| `Scoring` | the rules of a score | pure operators |
| `Formats` | `Draws` and `Scoring` called one request at a time, with reference definitions | composition |
| `CourtCalendar` | what the schedule promises about courts | abstract specification |
| `Timetable` | fixtures and their schedule: manual matches, the generator, slots, scores | component, refinement |
| `LiveStream` | the hub, its readers, the broadcasting requests and the publication switches | component |
| `BracketProofs`, `UserAdminProofs`, `SessionsProofs`, `SignInProofs`, `TimetableProofs`, `LimiterProofs`, `LiveStreamProofs`, `FormatsProofs` | theorems | proofs |
| `MCBracket`, `MCUserAdmin`, `MCSessions`, `MCSignIn`, `MCLimiter`, `MCFormats`, `MCTimetable`, `MCLiveStream` | instances for TLC | model checking |

### Bracket

`Matches`, `Source`, `GroupOf` and `InitStatus` are a division as Build or
SetGroups persisted it: `Source[<<m, i>>]` is the typed source of slot `i` of
match `m` (`match_participants.source_*`). The variables are table columns:
`status`, `winner`, `scored` (has `match_scores` rows), `margin` (games of side 1
minus games of side 2, all that standings use), `occupant`, and `audit`, the
"after" of the latest `match.score` entry. `req[w]` holds what request `w` has
read so far.

A score is `SubmitScore` (validation and resolving the winner, outside any
transaction), `CountRemaining` if it affects a group (row lock and count),
`LockSlots` (the snapshot of the SELECT that locks the consumers or the placement
slots), `SaveScore` (once the locks are there, the rest of the transaction), and
after a decided group match `MaybeResolveGroups`, `ReadStandings` and
`WritePlacements`. `CommitScore` and `RefuseScore` are the two ends of the
transaction: all writes, or the 409. `req[w].seen` holds the downstream matches
that had scores in the snapshot: their status is re-read once the lock is there,
`EXISTS(match_scores)` is not, as Postgres does it. The
status endpoint is `CheckStatus` then `SetStatus`. `Fail` is a request that
dies between two steps.

Abstractions. ValidateScore is reduced to the shape of what it accepts
(`ValidOutcome`): which completions carry a winner and sets. ResolveGroups reads all standings in one step. Names decide ties and are
assumed distinct (`NameAssumption`). A standing is worked out from the columns it
is given, so the same operator serves the state and what a request has read. Scheduling moves a match between pending
and scheduled; no rule here tells the two apart, so it is left out.

### Accounts and UserAdmin

`Accounts` has one action per administrative operation, each with its guard.
`UserAdmin` splits ChangeRole and SetUserStatus into the lock of the target
row, the statement of otherActiveSuperAdmins (`otherActiveSuperAdmins` takes
the snapshot, `LockOther` waits for and re-checks each row) and the UPDATE.
Locks live until `Close`. `Abort` is a failed transaction, the victim of a
deadlock included, so there is no deadlock in the model. Accounts appear
through `Register`.

### Sessions

A row of `auth_sessions` is `sess[s]`; a refresh token is the generation `gen`
of its session, so presenting the previous token is `RotateReplay`. Login,
Logout, StartImpersonation and ExitImpersonation take one step per SQL
statement, because each runs on its own connection. `Fail` is a statement that
fails, after which the request returns its error with the statements before it
committed; `Lookup` is a read whose error the code takes for "not there", so a
sign-out that cannot find its session skips the parent and an exit that cannot
find the parent abandons it. SetUserStatus, ChangeRole
and Rotate are single steps: they hold the row lock they need, an INSERT of a
session waits for a locked user row through its foreign key, and `UserAdmin`
shows the first two atomic. An OTP sign-in opens its session like `Login` does.
Accounts all exist from the start here. The reasons "suspended",
"role_changed" and "invitation_revoked" are one value, "removed". ChangeRole's
and SetUserStatus's audit entries, `last_seen_at` and `last_login_at` are left
out.

### SignIn and Limiter

`codes` are the rows of `otp_challenges` in order of `created_at`, `invites`
those of `invitations`, `account` is `users.status` by address. A request is
`Request` (past the rate limits), `CheckAllowlist`, `IssueBegin` (the transaction
begins and fixes `created_at`), `IssueRead` and `IssueRetire` (the UPDATE: the
live codes of its snapshot, then those of them that are live still once nobody
else has them locked), `IssueInsert` (the second statement and the commit; the
rows retired stay locked until then) and `SendOTP`, which may fail. A
verification is `VerifyAndSignIn` (the allowlist, outside the transaction),
`LockRead` and `LockLive` (the snapshot of the SELECT, then the newest of its
challenges that is live still, FOR UPDATE; a wrong code gives the row
back), `RecordFailure` as a statement of its own, or `upsertFromInvitation` and
`CommitSignIn`, which makes everything visible together. `Die` is a request that
ends anywhere, losing what it has not committed.

`tried`, `lost`, `beside`, `opened` and `deaths` are history: wrong codes compared
with a challenge, those whose own request died before it recorded the failure,
the Issues that had taken their snapshot and not committed when this one
committed, sessions it opened, lost requests. They state the properties as what
the code guarantees under overlap: the attempt cap is exceeded by at most the
other requests in flight and the guesses that were lost, and two codes of one
address are live together only if neither Issue had committed when the other
looked. That is less than the code's comments claim, which the run
`dropped_guess` and `MCSignInTwoLive.cfg` check and refute. A code is named by
its challenge, since hashing is out of reach. RevokeInvitation is one step: its
first statement locks the invitation row that MarkAccepted would write.

`Limiter` is one step per method, since each holds the mutex throughout; `now`,
which Allow reads just before it locks, is taken as read at the lock. A bucket is
a set of numbered stamps with their ages, which `Elapse` advances; the order in
the code's slice is that of the ages. A refused attempt is recorded like an
admitted one. `granted` is history: what was admitted since Reset or the drop
that bounds the map last cleared the bucket. A sweep leaves it alone, so
`WindowRespected` says that sweeping never loosens a limit. `SignIn` does not call
`Limiter`: what it shows holds however many requests the limits let through.

### Draws, Scoring and Formats

Each generator is an operator with the source's name, over teams that are numbers
and matches numbered from 1. Shared loops are shared operators: `wireFedRounds`
also stands for the loop in buildKnockoutFromSlots, `TwoStages` for the assembly
that GenerateGroupKnockout and groupKnockoutFromAssignment repeat. `Persisted` is
what persistWithGroups writes (statuses, typed sources), `RoundsShown` the rounds
that GetBracket derives from it. Display labels are left out. `Scoring` keeps the
case distinctions of ValidateScore and validateSet and drops the wording of
violations: a submission is refused or accepted with a winner and a status.

`Formats` makes one call at a time and keeps its input beside its result. The
properties compare the two with definitions that share nothing with the code:
a bracket is a tree, a set is a race of games won one by one.

### CourtCalendar and Timetable

`fixture` holds the matches of a round-robin division (pair, status, and
`stamp`, the pair of `court_id` and `scheduled_at`), `slot` the rows of
`schedule_slots`. WriteSlot, DeleteSlot, AddManualMatch,
GenerateRoundRobinFixtures, DeleteManualMatch and the status endpoint
(`CheckStatus`, then `SetStatus`, which does not look again) take two steps, what
they read and what they commit. Writes of slots exclude each other by the
tournament's advisory lock, creations of fixtures by the division's, the deletions
and the status endpoint take neither; row locks are the slot rows in flight.
`SubmitScore` is what scoring does to a status in between. `late` is history: the
matches that were decided and became undecided again, by a correction or by a
status request that had read them undecided. `NoDoubleBooking` and
`NoTwinFixtures` exempt them, since no check is run when a match reopens. Slots have one length, and the
statuses completed, walkover and retired are one.

`CourtCalendar` is the promise: bookings are made, moved and given up one at a
time and no two of a court overlap. `Timetable` implements it with `booked`
mapped to the places of the slots (`CourtsImplementCalendar`).

### LiveStream

`reader[r]` is the handler of a connection with its channel, `subs` the hub's map
for one topic, `req[w]` a request that changes a match or a slot and broadcasts
it. Subscribe and unsubscribe are one step each inside `h.mu.Lock`; `Publish`
takes the read lock and `Send` serves one subscriber at a time, without blocking.
A waiting Lock keeps new read locks out, as `sync.RWMutex` does. A match request
chooses its topic before it writes anything (`Authorize`), a slot request after
its commit (`ReadBack`). `status` and `public` are the switches, flipped by the
organizer (`setStatus`, `SetPublic`) and the platform (`SetTournamentStatus`).
`old`, `missed` and `unsent` are history.

Observed while modelling, and part of the model: an open stream is not closed
when its tournament is hidden, it goes silent; a request that read "hidden"
before a publication broadcasts nothing, and one that is cancelled after its
commit broadcasts nothing; two requests may broadcast in the opposite order of
their commits, so `UpdatesReach` speaks of the newest version seen; a slot's
broadcast looks at the tournament's status only, not at `is_public`; the
organizer's Publish undoes a platform suspension.

## 3. Runs

| Run | Instance | Shows |
|---|---|---|
| `knockout_concurrent` | two pairs, three matches, 2 overlapping requests, any may die | `TypeOK`, `FeedConsistent`, `ResultAudited`, `LiveMatchesSpared` |
| `division_serial` | a group of three that all advance, a first knockout match and a bye, 1 request at a time | `WinnerPlays`, `PlacementsCurrent`, `OpenGroupUnresolved`, `CorrectionsSpareStarted` |
| `group_progress` | the same division, 2 overlapping requests, organisers resolving by hand | `GroupStageResolves` |
| `user_admin` | 4 accounts, 3 overlapping requests | `TypeOK`, `SuperAdminRemains`, refinement of `Accounts` |
| `sessions_serial` | 3 users, 3 sessions, 1 request at a time, which may fail at any statement | `TypeOK`, `NoNesting`, `SuspendedSignedOut`, `BorrowedByActiveAdmin`, `OneImpersonation`, `SignOutComplete`, `RevocationFinal` |
| `sign_in` | 1 address, 2 overlapping requests, 3 codes, a cap of 2, one lost request | `SupersededRetired`, `GuessesBounded`, `CodeUsedOnce`, `RevocationTerminal` |
| `limiter` | an address and two clients, room for one bucket | `WindowRespected`, `MapBounded` |
| `formats` | fields and assignments of up to 9 teams, scores of up to 3 sets | `BracketIsTree`, `MeetOnce`, `SeedsSpread`, `UniformAdvancersOnce`, `ScoreMatchesPlay` |
| `timetable` | 3 teams, 2 courts, 2 slots, 2 fixtures, 2 overlapping requests | `TypeOK`, `NoDoubleBooking`, `NoTwinFixtures`, `StampMirrorsSlot`, refinement of `CourtCalendar` |
| `live_stream` | 1 connection used again and again, 2 overlapping requests, a buffer of 1, 2 changes | `TypeOK`, `NoSendOnClosed`, `HiddenGoesSilent`, `UpdatesReach`, `Released` |
| `stale_winner` | two pairs, 2 overlapping requests | violates `WinnerPlays` |
| `dropped_guess` | 1 address, 1 request at a time, one lost request | violates `CapSurvivesDrops` |

The last two are findings, things the repository says of itself and TLC finds
violated:

1. `stale_winner`. The final's score resolves its winner, a correction of the
   semi-final replaces that finalist, and the score commits: the final is won by
   a side that no longer plays it.
2. `dropped_guess`. A wrong code is compared, its request is cancelled before
   RecordFailure, which runs on the request's context, and the guess is never
   counted, although "the cap cannot be escaped by dropping the connection"
   (auth/otp_service.go:190-191). `GuessesBounded` is the bound that remains.

The properties of `division_serial` and `sessions_serial` hold when requests do
not overlap; overlap breaks most of them. That and what else the same modules
refute is kept beside the runs as configurations of its own, each of which TLC
ends with a violation:

| Configuration | Violates | Trace |
|---|---|---|
| `MCBracketRewritten.cfg` | `CorrectionsSpareStarted` | a correction of the semi-final takes its snapshot; the final gets scores and is moved back to scheduled; the correction gets the lock, sees "scheduled" and no scores, and replaces a finalist |
| `MCBracketDemotion.cfg` | `DecidedOnlyCorrected` | a status request reads an undecided match, a score decides it, the UPDATE (match/repository.go:474) puts it back to live with its winner recorded |
| `MCBracketReopen.cfg` | `OpenGroupUnresolved` | a score counts no remaining match (match/repository.go:399), a correction reopens another match of the group, the score then fills the placements |
| `MCBracketStalePlacements.cfg` | `PlacementsCurrent` | ResolveGroups reads standings while a match is reopened, the match is scored and a second ResolveGroups writes the new standings, the first one overwrites them |
| `MCSessionsBorrowed.cfg` | `BorrowedByActiveAdmin` | a super admin passes the caller check, is suspended, and the impersonation is inserted afterwards (auth/impersonation.go:109) |
| `MCSessionsTwice.cfg` | `OneImpersonation` | two requests count no live impersonation, both insert one |
| `MCSessionsLogin.cfg` | `SuspendedSignedOut` | a login reads an active account, a suspension ends its sessions, the login inserts one more, which works again after reactivation |
| `MCSessionsSignOut.cfg` | `LogoutEndsBorrowed` | one request only: Logout revokes the parent, the next statement fails, the impersonation stays alive |
| `MCSignInTwoLive.cfg` | `OneLiveCode` | two Issues retire what they see and insert a code each |
| `MCSignInRevoked.cfg` | `RevokedSignedOut` | the invitation is revoked between the allowlist check (auth/otp_service.go:167) and the sign-in transaction: the revocation stands (`RevocationTerminal`), the new session too |
| `MCFormatsUneven.cfg` | `AdvancersAre` | one group sends one team, the next sends two: the slot that cross-pairing gives away is decided by the wrong group's count, so a runner-up that advances has no slot, or one that does not has one |
| `MCTimetableStamps.cfg` | `StampAlwaysMirrors` | a match is put in a second slot and swapped out of it: WriteSlot un-stamps it (schedule/repository.go:412) although the first slot still has it |
| `MCTimetableDropped.cfg` | `PlayedFixtureKept` | DeleteManualMatch reads a pending match, a score decides it, the DELETE (draw/manual_setup.go:380) drops the played fixture |

Bounds. Two overlapping requests suffice for every race found, since each is
one request's commit between two steps of another; three in `user_admin` let
one transaction wait while two others finish. Two pairs give the smallest
bracket with a consumer of two feeders. A group of three is the smallest with
cyclic results, ties and two last matches that overlap; letting all three
advance adds a knockout match with two placements and a bye match. The
submissions in `MCBracket` include a reopening, both winners, a walkover in the
knockout, a retirement and a cancellation in the league, and margins that break
ties both ways. Three sessions are a
super admin's, an impersonation and one more of either; `MaxGen = 1` allows one
rotation and its replay.
In `sign_in` a cap of two is the least that a second failure reaches, and three
codes are the least with which an Issue waits for another that inserts one; its
constraint `ThirdUndisturbed` admits the third only while nothing has expired,
nobody is suspended, no invitation is revoked and no request has died, all of
which only make fewer codes live. In `limiter` the
two windows and limits differ, and one bucket too many forces the sweep and then
the drop. Nine entries
give every bracket size up to sixteen, with byes; four groups give a cross-pairing
that wraps. Set scores go to 8-8, one game past every legal one, and tiebreaks
to 9-6. In `timetable` two starting times are
back-to-back, so the rest buffer and the overlap are told apart, and five
requests allow one to be undone after it met another. In
`live_stream` a buffer of one event is the smallest that two broadcasts fill, and
two requests hold the read lock together; readers meet only at the lock, and
the run also passes with two of them beside one request.
Symmetry is used for request handlers and session ids, in `user_admin` for the
two super admins, and in `timetable` for teams and courts; no run with a liveness
property uses it.

Deadlock checking is off where a bounded model really stops: the requests or
codes of the instance are used up.

Fairness. `Bracket`'s `FairSpec` asks only that the server does not stop while
some accepted request can take a step (weak fairness of the disjunction over all handlers):
goroutines are scheduled and Postgres grants locks, but one request may starve
behind others, and no client is made to send anything. `GroupStageResolves` is
checked without `Fail`, since a request that dies after its commit and before
MaybeResolveGroups is not retried by any code.

`LiveStream`'s `FairSpec` lets every started request and every handler run to its
end. A handler's lock is granted and a publisher is not kept out for ever, which
is what `sync.RWMutex` guarantees to both sides: weak fairness for Lock, since a
waiting one keeps new readers out, and strong fairness for `Publish`, which may
be held off by one Lock after another. `Relay` and `Leave` are fair separately,
because select picks at random among its ready cases. No client is made to come,
stay or leave, and `Fail` is never made to happen.

## 4. Proofs

All theorems hold for every value of the constants that satisfies the named
assumptions; `tlapm` checks them to the last leaf. The argument is the same
throughout: an invariant that adds to the property what requests in flight have
read or locked, checked with TLC on the run first, then one step per action.

Theorems that hold however requests overlap:

| Theorem | Property | What the inductive invariant adds |
|---|---|---|
| `BracketProofs!WinnerFeedsConsistent` | `FeedConsistent` | a request places participants only in slots fed by a group; a counted request works on a group match (`FeedInv`) |
| `BracketProofs!LiveMatchesKept` | `LiveMatchesSpared` | types only: the status is re-read with the lock, so it is a property of the step |
| `BracketProofs!ResultsAlwaysAudited` | `ResultAudited` | the status endpoint writes an undecided status (`AuditInv`) |
| `UserAdminProofs!UserAdminAtomic`, `SuperAdminAlwaysRemains` | `AdministrationAtomic`, `SuperAdminRemains` | what the locks of an open transaction pin down: its target, everyone it counted, and that its guard still holds (`AdminInv`) |
| `SessionsProofs!ImpersonationNeverNests`, `RevocationIsFinal` | `NoNesting`, `RevocationFinal` | from the first check on, the caller's session is a normal one and the target is not its user (`Established`) |
| `SignInProofs!OneSessionPerCode` | `CodeUsedOnce` | a challenge row has one holder; past the right code a request holds the row, which is not consumed; rows not inserted yet are empty and distinct (`CodeInv`) |
| `SignInProofs!NewCodeRetiresOld` | `SupersededRetired` | past its snapshot, an Issue has found every live code, or that code was inserted beside it (`Retiring`) |
| `SignInProofs!AttemptCapHolds` | `GuessesBounded` | a wrong code compared is recorded, about to be recorded by a request in flight, or lost with its own request (`Counted`) |
| `SignInProofs!RevokedForGood` | `RevocationTerminal` | types only |
| `TimetableProofs!ScheduleIsCalendar` | `CourtsImplementCalendar` | what WriteSlot checked of the court still holds when it commits, because the advisory lock admits one writer and a deletion only frees (`CourtChecked`, on `BookInv`) |
| `TimetableProofs!NoTeamTwice`, `NoPairTwice` | `NoDoubleBooking`, `NoTwinFixtures` | the same of the teams and of the duplicate check, except against a match that a correction or a late status request reopened (`TeamsChecked`, `PairsChecked`) |
| `TimetableProofs!StampsInStep` | `StampMirrorsSlot` | a fixture that was never in two slots is in one at most, and DeleteSlot keeps a stamp only of one that was (`StampInv`) |
| `LimiterProofs!LimitHolds` | `WindowRespected` | what was admitted and still counts is in the bucket (`Recorded`) |
| `LimiterProofs!MapStaysBounded` | `MapBounded` | the map is finite, for infinitely many keys too |
| `LiveStreamProofs!NeverSendsOnClosed` | `NoSendOnClosed` | the hub's map is exactly the handlers with an open channel, and a publisher that still has readers to serve has them in the map, which the read lock freezes (`LockInv`) |
| `LiveStreamProofs!HiddenStreamGoesSilent` | `HiddenGoesSilent` | a chosen topic is one the switches allow or was chosen before they were turned (`TopicInv`) |

Each component's type invariant is proved as well (`TypeCorrect`,
`AdminTypeCorrect`, `SessionsTypeCorrect`, `SignInTypeCorrect`,
`TimetableTypeCorrect`, `LimiterTypeCorrect`, `StreamTypeCorrect`).

Theorems about what the pure algorithms return, for every input: any field,
split, pairing, assignment, scoring document and submission. `Formats` makes one
call at a time and keeps nothing between calls, so nothing needs strengthening
and the whole proof is about the result of a call.

| Theorem | Property | What the proof turns on |
|---|---|---|
| `FormatsProofs!DrawsAreTrees` | `BracketIsTree` | the loop of wireFedRounds numbers its matches round by round (`WiredRounds`), so a match above the first round has one feeder per slot (`OneFeeder`, `NoFeeder`), and the number of hops to the end tells its round, which is what GetBracket shows (`RoundsRight`) |
| `FormatsProofs!TeamsMeetOnce` | `MeetOnce` | the circle method: two teams face each other when the places they have turned to add up to n + 1, which after n - 1 turns has happened exactly once (`OppositeOnce`, `CircleOnce`, `CircleRound`); the groups share no team, because a stable sort gives every entry a rank of its own and the snake deals each rank once (`SnakeGrouped`) |
| `FormatsProofs!AdvancersWaitOnce` | `UniformAdvancersOnce` | with one advance count the slot of group g's place r is at (g - 1) * a + r, and handing the runner-up to the next group permutes the groups (`SentOnce`, `OtherGroupOnce`); the pad leaves byes only (`PersistedWaiting`) |
| `FormatsProofs!VerdictsFollowPlay` | `ScoreMatchesPlay` | the scores of a race that is still on after k points, worked out in closed form (`InPlay`), which is what validateSet tests by cases (`RaceGoesOn`) |
| `FormatsProofs!TopSeedsMeetLatest` | none; the order `SeedsSpread` rests on | a larger bracket puts a newcomer beside every rank (`OrderGrows`), which keeps the order a ranking and doubles the parts that hold the best ranks apart (`GrownRanking`, `GrownFar`, `SeedsFar`) |

These algorithms compute by recursion and folds over their input. The proofs do
not use the library's induction theorems. `AllNumbers` states induction for sets
of numbers, from the well-foundedness of the order on them, and `Recursion` that
a start and a step make a function of the numbers; both are first-order, and the
recursive functions, FlattenSeq among them, are reasoned about through them
(`Doubling`, `Flattened`, `RotationsAre`).

Theorems about one request at a time. Overlapping requests break these
properties (section 3), so their theorems assume `OneAtATime`: all workers are
one. Everything else stays general, and each run `*_serial` is an instance.

| Theorem | Property | What the inductive invariant adds |
|---|---|---|
| `BracketProofs!DecisionsStand` | `DecidedOnlyCorrected` | a status change that passed its guard is still about an undecided match (`CheckedStillOpen`) |
| `BracketProofs!PlacementsStayCurrent` | `PlacementsCurrent` | at every moment a slot shows its group's current standings, or nobody while the group is unfinished; what the request counted and the standings it read are still true (`PlaceInv`) |
| `BracketProofs!QualifyOnce` | - (`QualifiersOnce`, in the proof module) | `PlaceInv`, with the lemma `OneRankEach`: the table of a group has one row for each participant, so a participant has one rank |
| `BracketProofs!OpenGroupsStayUnresolved` | `OpenGroupUnresolved` | a request that resolves groups found all of them finished (`OpenInv`) |
| `BracketProofs!WinnersPlayTheirMatches` | `WinnerPlays` | a winner comes with a deciding status, and the winner about to be recorded still plays the match (`WinnerInv`, on `PlaceInv`) |
| `BracketProofs!StartedMatchesKept` | `CorrectionsSpareStarted` | what the locking SELECT saw of the scores still holds when the transaction writes (`SeenFresh`) |
| `SessionsProofs!SuspensionSignsOut`, `BorrowersStayAdmins`, `OneImpersonationEach` | `SuspendedSignedOut`, `BorrowedByActiveAdmin`, `OneImpersonation` | the three hold together with what the request has checked so far (`SerialInv`) |
| `SessionsProofs!SignOutIsComplete` | `SignOutComplete` | a sign-out that reaches its last statement has no live child left (`SerialInv`); `LogoutEndsBorrowed`, which also speaks of a sign-out that failed, is false with one request (`MCSessionsSignOut.cfg`) |

`OpenGroupsStayUnresolved` also assumes `~ManualResolve`: an organiser may
resolve groups by hand before all are finished, and TLC shows the property false
then, with one worker. The other bracket theorems need no such hypothesis.

The lemma they turn on is `StandingLocal`: a group's standings depend only on
who plays the group's own matches, which of them count and what those record. So
a score of a knockout match, the fill of a slot or another group's correction
leaves a group's standings as they are, although `Standing` itself, a sort over
sums, is never computed in a proof.

Assumptions on constants, and where the code keeps them:

- `FeedAssumption`: no match feeds itself (a database constraint), and the group
  stage neither feeds nor consumes winner slots. `GroupAssumption`: a bye match
  is never one of a group, and a placement names a group that exists, as
  insertSlot requires.
- `TimetableAssumption`: a division has finitely many teams, so the pairs that
  the generator adds can be numbered.
- `FieldsAssumption`, `PairListsAssumption`, `AssignmentsAssumption`,
  `RegisteredAssumption`, `SplitsAssumption`, `ScoresAssumption`: the types of the
  calls' inputs; an id is never 0, which stands for nil, and an entry is in its
  field once. Which teams a pairing
  or an assignment names, how often, and which numbers a score holds, is left open.
- `LimiterAssumption`: there is a longest window, as OTPPerIPWindow is in the code.
- `SignInAssumption`: finitely many requests are in flight, which `GuessesBounded`
  counts.
- `NullAssumption`, `UsersAssumption` and the conjuncts about NULL elsewhere: NULL
  is no id, name, reason or row.

Left to TLC, and why:

- Liveness under fairness, which the prover does not reach: `GroupStageResolves`,
  `UpdatesReach`, `Released`.
- `SeedsSpread`. Its core is proved for every bracket size (`TopSeedsMeetLatest`):
  what `seedPositions` returns keeps the best seeds apart and seats them against
  the worst. That the drawn rows carry this order to the teams, and that the snake
  balances the groups, is checked only, for fields whose seeds are 1 .. k as in
  the run: an entry whose seed is repeated or larger than the bracket is not drawn.
- What `Standing` computes. The theorems say that slots agree with the standings
  and that these are those of the current results, not that the order is the
  sporting one.
- The properties of the one-request theorems with overlap: they are false there.

## 5. Not modelled, and the plan

Not modelled: token bytes and hashing, HTTP routing and error mapping, read
models, start-up, e-mail delivery, seeds and one-off maintenance. They keep no
state that two requests share, or are out of TLC's reach.

The single-row CRUD of tournaments, divisions, participants, courts and
organizations is left to its database constraints. What was seen there: creating
a tournament checks its slug and then inserts it, without the retry that creating
a division has (event/service.go:92); deleting a participant cascades into the
slots of its matches; the platform's audit entry takes the old status from a read
before the update.

Two Build or SetGroups requests of one division that overlap (draw/service.go:164)
are not interleaved: in `Formats` each is one call. SetGroupAdvance is not
modelled. A bye match that nobody scores is in `Draws` (`Persisted` gives it
status bye), but no rule says who should advance it.

Next, in order:

1. Overlapping rebuilds of a draw, together with scores of the old one.
2. An abstract specification of a division (a slot is a function of results) that
   `Bracket` implements when requests do not overlap, from `PlaceInv` and
   `WinnerInv`.
3. The standings as an order: `OneRankEach` shows that no participant has two
   ranks; that every rank up to the size of the group is taken as well needs the
   rows counted along their order.
