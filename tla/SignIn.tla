------------------------------- MODULE SignIn -------------------------------
(***************************************************************************)
(* Invitation-only sign-in with one-time codes: OTPService.Request and     *)
(* VerifyAndSignIn over OTPRepository and InvitationRepository             *)
(* (internal/auth), with the invitation endpoints of internal/platform.    *)
(*                                                                         *)
(* A request is split where another one can get between: after the rate    *)
(* limits, after the allowlist check, after Issue has begun, and after it  *)
(* has retired the earlier codes but not committed, after a wrong code     *)
(* released the challenge and before the failure is recorded, after a      *)
(* right code locked the challenge, and before the transaction commits.    *)
(* The statements run at READ COMMITTED: one that locks rows finds them in *)
(* a snapshot, waits, and re-reads the rows it found, never others.  A     *)
(* code is named by its challenge; NULL stands for any code that matches   *)
(* none.                                                                   *)
(***************************************************************************)
EXTENDS Naturals, FiniteSets

CONSTANTS
    Emails,
    Workers,            \* request handlers that may be in flight together
    MaxAttempts,        \* OTPMaxAttempts
    MaxCodes,           \* bounds the model: challenges issued
    MaxInvites,         \* bounds the model: invitations created
    MaxDeaths,          \* bounds the model: requests that die half-way
    NULL

VARIABLES
    account,    \* users, by address: "none" or users.status
    invites,    \* invitations, by id in order of creation
    codes,      \* otp_challenges, by id in order of created_at
    sent,       \* the codes that reached their mailbox
    begun,      \* Issue transactions begun: the next created_at
    opened,     \* history: sessions opened with each code
    alive,      \* those sessions that are not revoked
    deaths,     \* history: requests that died half-way
    req

ASSUME SignInAssumption ==
    /\ NULL \notin Emails \cup Nat
    /\ MaxAttempts \in Nat \ {0}
    /\ MaxCodes \in Nat /\ MaxInvites \in Nat /\ MaxDeaths \in Nat
    /\ IsFiniteSet(Workers)

Cids == 1 .. MaxCodes
Iids == 1 .. MaxInvites

tables == <<account, invites, codes, sent, begun, opened, alive>>
vars   == <<tables, deaths, req>>

(* A row of otp_challenges.  Three fields are history: tried counts the    *)
(* wrong codes compared with it, lost those whose request died before it   *)
(* recorded the failure, and beside holds the challenges whose Issue had   *)
(* taken its snapshot, but not committed, when this one committed.         *)
Challenges == [email : Emails \cup {NULL}, attempts : Nat, consumed : BOOLEAN,
               invalidated : BOOLEAN, expired : BOOLEAN, tried : Nat, lost : Nat,
               beside : SUBSET Cids]

NoChallenge == [email |-> NULL, attempts |-> 0, consumed |-> FALSE, invalidated |-> FALSE,
                expired |-> FALSE, tried |-> 0, lost |-> 0, beside |-> {}]

Invitations == [email : Emails \cup {NULL},
                status : {"none", "pending", "accepted", "revoked"}, expired : BOOLEAN]

NoInvitation == [email |-> NULL, status |-> "none", expired |-> FALSE]

Requests == [pc : {"idle", "allowlist", "issuing", "reading", "retiring", "inserting", "sending",
                   "verifying", "locking", "failing", "signing", "opening"},
             email : Emails \cup {NULL},
             inv   : Iids \cup {NULL},
             code  : Cids \cup {NULL},
             seen  : SUBSET Cids,          \* live challenges in the statement's snapshot
             held  : SUBSET Cids]          \* challenge rows locked by the transaction

Idle == [pc |-> "idle", email |-> NULL, inv |-> NULL, code |-> NULL, seen |-> {}, held |-> {}]

TypeOK ==
    /\ account \in [Emails -> {"none", "active", "suspended"}]
    /\ invites \in [Iids -> Invitations]
    /\ codes   \in [Cids -> Challenges]
    /\ sent    \in SUBSET Cids
    /\ begun   \in 0 .. MaxCodes
    /\ opened  \in [Cids -> Nat]
    /\ alive   \in [Cids -> BOOLEAN]
    /\ deaths  \in 0 .. MaxDeaths
    /\ req     \in [Workers -> Requests]

Init ==
    /\ account = [e \in Emails |-> "none"]
    /\ invites = [i \in Iids |-> NoInvitation]
    /\ codes   = [c \in Cids |-> NoChallenge]
    /\ sent = {} /\ begun = 0 /\ deaths = 0
    /\ opened  = [c \in Cids |-> 0]
    /\ alive   = [c \in Cids |-> FALSE]
    /\ req     = [w \in Workers |-> Idle]

----------------------------------------------------------------------------
(* status <> 'revoked': at most one per address, by the partial index. *)
Unrevoked(e) == {i \in Iids : invites[i].email = e /\ invites[i].status # "revoked"}

(* Invitation.IsActive: only a pending invitation ages out. *)
IsActive(i) ==
    \/ invites[i].status = "accepted"
    \/ invites[i].status = "pending" /\ ~invites[i].expired

(* FindActiveByEmail. *)
FindActiveByEmail(e) == {i \in Unrevoked(e) : IsActive(i)}

Live(e) == {c \in Cids : codes[c].email = e /\ ~codes[c].consumed /\ ~codes[c].invalidated}

LockedByOther(w, C) == \E v \in Workers \ {w} : req[v].held \cap C # {}

Newest(C) == CHOOSE c \in C : \A d \in C : d <= c

Start(w, r) == req[w].pc = "idle" /\ req' = [req EXCEPT ![w] = r]
Goto(w, to) == req' = [req EXCEPT ![w].pc = to]
Finish(w)   == req' = [req EXCEPT ![w] = Idle]

----------------------------------------------------------------------------
(* OTPService.Request, past the rate limits.  A request that Limiter      *)
(* refuses changes nothing here, so it is not an action; what is shown     *)
(* below holds however many requests are admitted.                         *)
Request(w, e) ==
    /\ begun + Cardinality({v \in Workers : req[v].pc \in {"allowlist", "issuing"}}) < MaxCodes
    /\ Start(w, [Idle EXCEPT !.pc = "allowlist", !.email = e])
    /\ UNCHANGED <<tables, deaths>>

(* Only an invited address whose account is not suspended gets a code. *)
CheckAllowlist(w) ==
    /\ req[w].pc = "allowlist"
    /\ IF FindActiveByEmail(req[w].email) # {} /\ account[req[w].email] # "suspended"
       THEN Goto(w, "issuing") ELSE Finish(w)
    /\ UNCHANGED <<tables, deaths>>

(* Issue begins its transaction: now() is the new code's created_at. *)
IssueBegin(w) ==
    /\ req[w].pc = "issuing"
    /\ begun' = begun + 1
    /\ req' = [req EXCEPT ![w].pc = "reading", ![w].code = begun + 1]
    /\ UNCHANGED <<account, invites, codes, sent, opened, alive, deaths>>

(* The live codes a request's next statement finds. *)
Snapshot(w, to) == req' = [req EXCEPT ![w].pc = to, ![w].seen = Live(req[w].email)]

(* Issue, first statement: UPDATE ... SET invalidated_at finds the live    *)
(* codes...                                                                *)
IssueRead(w) ==
    /\ req[w].pc = "reading"
    /\ Snapshot(w, "retiring")
    /\ UNCHANGED <<tables, deaths>>

(* The codes a statement found that are live still. *)
StillLive(w) == req[w].seen \cap Live(req[w].email)

(* Mutant: a new code leaves the earlier ones usable. *)
IssueRetireNone(w) ==
    /\ req[w].pc = "retiring"
    /\ req' = [req EXCEPT ![w].pc = "inserting", ![w].seen = {}]
    /\ UNCHANGED <<tables, deaths>>

(* ...waits for those another transaction has locked, and retires what is  *)
(* live still.                                                             *)
IssueRetire(w) ==
    /\ req[w].pc = "retiring"
    /\ ~LockedByOther(w, StillLive(w))
    /\ req' = [req EXCEPT ![w].pc = "inserting", ![w].seen = {}, ![w].held = StillLive(w)]
    /\ UNCHANGED <<tables, deaths>>

(* Issue, second statement and commit. *)
IssueInsert(w) ==
    /\ req[w].pc = "inserting"
    /\ codes' = [c \in Cids |->
                    IF c = req[w].code
                    THEN [NoChallenge EXCEPT !.email = req[w].email,
                            !.beside = {req[v].code : v \in {v \in Workers \ {w} :
                                              req[v].pc \in {"retiring", "inserting"}}}]
                    ELSE [codes[c] EXCEPT !.invalidated = @ \/ c \in req[w].held]]
    /\ req' = [req EXCEPT ![w].pc = "sending", ![w].held = {}]
    /\ UNCHANGED <<account, invites, sent, begun, opened, alive, deaths>>

(* SendOTP; when the provider fails the challenge stays as it is. *)
SendOTP(w, delivered) ==
    /\ req[w].pc = "sending"
    /\ sent' = IF delivered THEN sent \cup {req[w].code} ELSE sent
    /\ Finish(w)
    /\ UNCHANGED <<account, invites, codes, begun, opened, alive, deaths>>

----------------------------------------------------------------------------
(* VerifyAndSignIn with a code: the allowlist is checked again. *)
VerifyAndSignIn(w, e, code) ==
    /\ \E i \in FindActiveByEmail(e) :
          Start(w, [Idle EXCEPT !.pc = "verifying", !.email = e, !.inv = i, !.code = code])
    /\ UNCHANGED <<tables, deaths>>

(* LockLive: SELECT ... ORDER BY created_at DESC LIMIT 1 FOR UPDATE finds  *)
(* the live codes...                                                       *)
LockRead(w) ==
    /\ req[w].pc = "verifying"
    /\ Snapshot(w, "locking")
    /\ UNCHANGED <<tables, deaths>>

(* CheckLive. *)
CheckLive(c) == ~codes[c].expired /\ codes[c].attempts < MaxAttempts

(* Mutant: the challenge is read without FOR UPDATE. *)
LockNothing(w) ==
    /\ req[w].pc = "locking"
    /\ StillLive(w) # {}
    /\ LET c == Newest(StillLive(w))
       IN  /\ CheckLive(c) /\ req[w].code = c
           /\ req' = [req EXCEPT ![w].pc = "signing", ![w].seen = {}]
    /\ UNCHANGED <<tables, deaths>>

(* ...and takes the newest that is live still once nobody else has its row *)
(* locked.  A dead one ends the request; a wrong code releases the row     *)
(* before the failure is recorded; the right code keeps it locked.         *)
LockLive(w) ==
    /\ req[w].pc = "locking"
    /\ IF StillLive(w) = {} THEN Finish(w) /\ UNCHANGED codes
       ELSE LET c == Newest(StillLive(w))
            IN  /\ ~LockedByOther(w, {c})
                /\ \/ ~CheckLive(c) /\ Finish(w) /\ UNCHANGED codes
                   \/ /\ CheckLive(c) /\ req[w].code # c
                      /\ req' = [req EXCEPT ![w].pc = "failing", ![w].code = c, ![w].seen = {}]
                      /\ codes' = [codes EXCEPT ![c].tried = @ + 1]
                   \/ /\ CheckLive(c) /\ req[w].code = c
                      /\ req' = [req EXCEPT ![w].pc = "signing", ![w].seen = {}, ![w].held = {c}]
                      /\ UNCHANGED codes
    /\ UNCHANGED <<account, invites, sent, begun, opened, alive, deaths>>

(* Mutant: a failure is written from the counter that was read earlier. *)
RecordOne(w) ==
    /\ req[w].pc = "failing"
    /\ codes' = [codes EXCEPT ![req[w].code].attempts = 1]
    /\ Finish(w)
    /\ UNCHANGED <<account, invites, sent, begun, opened, alive, deaths>>

(* RecordFailure, a statement of its own, on the request's context. *)
RecordFailure(w) ==
    /\ req[w].pc = "failing"
    /\ ~LockedByOther(w, {req[w].code})
    /\ codes' = [codes EXCEPT ![req[w].code].attempts = @ + 1,
                              ![req[w].code].invalidated =
                                  @ \/ codes[req[w].code].attempts + 1 >= MaxAttempts]
    /\ Finish(w)
    /\ UNCHANGED <<account, invites, sent, begun, opened, alive, deaths>>

(* upsertFromInvitation finds or prepares the account; a suspended one     *)
(* rolls the sign-in back, the code stays unused.                          *)
upsertFromInvitation(w) ==
    /\ req[w].pc = "signing"
    /\ IF account[req[w].email] = "suspended" THEN Finish(w) ELSE Goto(w, "opening")
    /\ UNCHANGED <<tables, deaths>>

(* Mutant: the invitation is accepted whatever became of it. *)
AcceptedAnyway(i) == [invites EXCEPT ![i].status = "accepted"]

(* MarkAccepted touches pending rows only. *)
MarkAccepted(i) ==
    IF invites[i].status = "pending" THEN [invites EXCEPT ![i].status = "accepted"] ELSE invites

(* The transaction commits: the code is consumed, the account exists, the  *)
(* invitation is accepted and the session is open, together.               *)
CommitSignIn(w) ==
    /\ req[w].pc = "opening"
    /\ codes'   = [codes EXCEPT ![req[w].code].consumed = TRUE]
    /\ account' = [account EXCEPT ![req[w].email] = IF @ = "none" THEN "active" ELSE @]
    /\ invites' = MarkAccepted(req[w].inv)
    /\ opened'  = [opened EXCEPT ![req[w].code] = @ + 1]
    /\ alive'   = [alive EXCEPT ![req[w].code] = TRUE]
    /\ Finish(w)
    /\ UNCHANGED <<sent, begun, deaths>>

----------------------------------------------------------------------------
(* CreateInvitation: one unrevoked invitation per address. *)
CreateInvitation(e) ==
    /\ Unrevoked(e) = {}
    /\ \E i \in Iids :
          /\ invites[i] = NoInvitation /\ \A j \in 1 .. (i - 1) : invites[j] # NoInvitation
          /\ invites' = [invites EXCEPT ![i] = [NoInvitation EXCEPT !.email = e, !.status = "pending"]]
    /\ UNCHANGED <<account, codes, sent, begun, opened, alive, deaths, req>>

SessionsOf(e) == {c \in Cids : codes[c].email = e}

(* RevokeInvitation ends the address's sessions in the same transaction. *)
RevokeInvitation(i) ==
    /\ invites[i].status \in {"pending", "accepted"}
    /\ invites' = [invites EXCEPT ![i].status = "revoked"]
    /\ alive' = [c \in Cids |-> alive[c] /\ c \notin SessionsOf(invites[i].email)]
    /\ UNCHANGED <<account, codes, sent, begun, opened, deaths, req>>

(* SetUserStatus of internal/platform (atomic, see UserAdmin). *)
SetUserStatus(e, s) ==
    /\ account[e] # "none" /\ account[e] # s
    /\ account' = [account EXCEPT ![e] = s]
    /\ alive' = IF s = "suspended" THEN [c \in Cids |-> alive[c] /\ c \notin SessionsOf(e)] ELSE alive
    /\ UNCHANGED <<invites, codes, sent, begun, opened, deaths, req>>

(* expires_at passes, of a challenge or of an invitation. *)
ExpireCode(c) ==
    /\ codes[c].email # NULL /\ ~codes[c].expired
    /\ codes' = [codes EXCEPT ![c].expired = TRUE]
    /\ UNCHANGED <<account, invites, sent, begun, opened, alive, deaths, req>>

ExpireInvitation(i) ==
    /\ invites[i].status = "pending" /\ ~invites[i].expired
    /\ invites' = [invites EXCEPT ![i].expired = TRUE]
    /\ UNCHANGED <<account, codes, sent, begun, opened, alive, deaths, req>>

(* A request dies: its context is cancelled, its connection or the process *)
(* is lost.  What it has not committed is undone.                          *)
Die(w) ==
    /\ req[w].pc # "idle"
    /\ deaths < MaxDeaths
    /\ deaths' = deaths + 1
    /\ codes' = IF req[w].pc = "failing" THEN [codes EXCEPT ![req[w].code].lost = @ + 1] ELSE codes
    /\ Finish(w)
    /\ UNCHANGED <<account, invites, sent, begun, opened, alive>>

Arrive(w) ==
    \/ \E e \in Emails : Request(w, e)
    \/ \E e \in Emails, code \in sent \cup {NULL} : VerifyAndSignIn(w, e, code)

Progress(w) ==
    \/ CheckAllowlist(w)
    \/ IssueBegin(w) \/ IssueRead(w) \/ IssueRetire(w) \/ IssueInsert(w)
    \/ \E delivered \in BOOLEAN : SendOTP(w, delivered)
    \/ LockRead(w) \/ LockLive(w) \/ RecordFailure(w) \/ upsertFromInvitation(w)
    \/ CommitSignIn(w)

Administer ==
    \/ \E e \in Emails : CreateInvitation(e)
    \/ \E i \in Iids : RevokeInvitation(i)
    \/ \E e \in Emails, s \in {"active", "suspended"} : SetUserStatus(e, s)

Next ==
    \/ \E w \in Workers : Arrive(w) \/ Progress(w) \/ Die(w)
    \/ Administer
    \/ \E c \in Cids : ExpireCode(c)
    \/ \E i \in Iids : ExpireInvitation(i)

Spec == Init /\ [][Next]_vars

----------------------------------------------------------------------------
(* Properties *)

(* Requesting a new code retires the old ones: two codes of one address    *)
(* are live together only when neither Issue had committed before the      *)
(* other looked for the codes to retire.  An Issue that waited for another *)
(* does not see the code it inserted.                                      *)
SupersededRetired ==
    \A e \in Emails : \A c, d \in Live(e) :
        c # d => d \in codes[c].beside \/ c \in codes[d].beside

(* "Issue mints a code, invalidating any earlier live challenge for the    *)
(* address": one live code at a time.                                      *)
OneLiveCode == \A e \in Emails : \A c, d \in Live(e) : c = d

(* The attempt cap: a code is compared with at most MaxAttempts wrong ones,*)
(* one more for every other request in flight at the last of them, and one *)
(* for each whose own failure was never recorded.                          *)
GuessesBounded ==
    \A c \in Cids : codes[c].tried <= MaxAttempts + Cardinality(Workers) - 1 + codes[c].lost

(* The cap "cannot be escaped by dropping the connection": the failure of  *)
(* a guess is recorded whatever becomes of its request.                    *)
CapSurvivesDrops ==
    \A c \in Cids : codes[c].tried <= MaxAttempts + Cardinality(Workers) - 1

(* A code opens one session, also when it is presented twice at once, and  *)
(* a consumed code has opened its session: no burned code without a way in. *)
CodeUsedOnce ==
    \A c \in Cids : opened[c] = IF codes[c].consumed THEN 1 ELSE 0

(* Revoking an invitation is terminal, whatever sign-in is in flight. *)
RevocationTerminal ==
    [][\A i \in Iids : invites[i].status = "revoked" => invites'[i].status = "revoked"]_vars

(* Once no request is in flight, an address without an unrevoked           *)
(* invitation has no live session.                                         *)
RevokedSignedOut ==
    (\A w \in Workers : req[w].pc = "idle") =>
        \A c \in Cids : alive[c] => Unrevoked(codes[c].email) # {}
=============================================================================
