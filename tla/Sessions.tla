------------------------------ MODULE Sessions ------------------------------
(***************************************************************************)
(* Revocable sessions and impersonation (internal/auth: Service.Login,     *)
(* Refresh, Logout, StartImpersonation, ExitImpersonation over             *)
(* SessionRepository), with the administration transactions of             *)
(* internal/platform that tear sessions down.                              *)
(*                                                                         *)
(* The steps of a request are its SQL statements, each on a connection of  *)
(* its own.  SetUserStatus, ChangeRole and Rotate are transactions that    *)
(* lock the row they work on (UserAdmin shows the first two atomic; an     *)
(* INSERT of a session waits for a locked user row through its foreign     *)
(* key), so each is one step.                                              *)
(***************************************************************************)
EXTENDS Naturals

CONSTANTS
    Users,
    InitRole,
    Sids,       \* session ids: bounds how many sessions are opened
    Workers,    \* request handlers that may be in flight together
    NULL,
    MaxGen,     \* bounds how often one session's refresh token is rotated
    Logins,     \* users who sign in
    Managed,    \* users whom administrators suspend, reactivate, promote, ...
    MayFail     \* whether a statement may fail

VARIABLES
    role,       \* users.role
    state,      \* users.status
    sess,       \* auth_sessions
    req         \* what each request in flight has established so far

A == INSTANCE Accounts

(* revoked_reason; "suspended", "role_changed" and "invitation_revoked"     *)
(* are one cause here, "removed".                                          *)
Reasons == {"logout", "parent_logout", "refresh_token_reuse", "impersonation_ended", "removed"}

ASSUME SessionsAssumption ==
    /\ NULL \notin Users \cup Sids \cup Reasons
    /\ InitRole \in [Users -> A!Roles]
    /\ MaxGen \in Nat
    /\ Logins \subseteq Users /\ Managed \subseteq Users
    /\ MayFail \in BOOLEAN

accountVars == <<role, state>>
vars        == <<role, state, sess, req>>

(* No row yet. *)
NoRow == [kind |-> "none", user |-> NULL, actor |-> NULL, parent |-> NULL,
          gen |-> 0, revoked |-> NULL, expired |-> FALSE]

Rows == [kind    : {"none", "normal", "impersonation"},
         user    : Users \cup {NULL},    \* who the session acts as
         actor   : Users \cup {NULL},    \* the super admin behind an impersonation
         parent  : Sids \cup {NULL},
         gen     : Nat,                  \* refresh tokens minted before the current one
         revoked : Reasons \cup {NULL},
         expired : BOOLEAN]

Steps == {"idle", "opening",
          "caller", "target", "counting", "creating",
          "parent", "admin", "abandoning", "exiting", "restoring",
          "signing_out", "revoking_parent", "revoking_children", "revoking_self"}

Requests == [pc : Steps, sid : Sids \cup {NULL}, user : Users \cup {NULL}]

Idle == [pc |-> "idle", sid |-> NULL, user |-> NULL]

(* The CHECK constraint of auth_sessions. *)
WellShaped(row) ==
    CASE row.kind = "none"          -> row = NoRow
      [] row.kind = "normal"        -> row.user \in Users /\ row.actor = NULL /\ row.parent = NULL
      [] row.kind = "impersonation" -> /\ row.user \in Users /\ row.actor \in Users \ {row.user}
                                       /\ row.parent \in Sids

TypeOK ==
    /\ role  \in [Users -> A!Roles]
    /\ state \in [Users -> A!Statuses]
    /\ sess  \in [Sids -> Rows]
    /\ \A s \in Sids : WellShaped(sess[s])
    /\ req   \in [Workers -> Requests]

Init ==
    /\ A!Init
    /\ sess = [s \in Sids |-> NoRow]
    /\ req  = [w \in Workers |-> Idle]

----------------------------------------------------------------------------
Exists(s) == sess[s].kind # "none"

IsImpersonation(s) == sess[s].kind = "impersonation"

(* FindActive: the check that makes revocation immediate. *)
Active(s) == Exists(s) /\ sess[s].revoked = NULL /\ ~sess[s].expired

Room == \E s \in Sids : ~Exists(s)

(* Mutant: a later revocation overwrites the recorded cause. *)
RevokedAgain(S, why) ==
    [s \in Sids |-> IF s \in S /\ Exists(s) THEN [sess[s] EXCEPT !.revoked = why] ELSE sess[s]]

(* UPDATE ... SET revoked_at, revoked_reason WHERE ... AND revoked_at IS NULL *)
Revoked(S, why) ==
    [s \in Sids |-> IF s \in S /\ Exists(s) /\ sess[s].revoked = NULL
                    THEN [sess[s] EXCEPT !.revoked = why] ELSE sess[s]]

Children(p) == {s \in Sids : IsImpersonation(s) /\ sess[s].parent = p}

(* Mutant: RevokeAllForUser forgets the impersonations the user started. *)
OwnSessions(u) == {s \in Sids : sess[s].user = u}

(* The sessions RevokeAllForUser ends. *)
SessionsOf(u) == {s \in Sids : sess[s].user = u \/ sess[s].actor = u}

Start(w, pc, s, u) ==
    /\ req[w].pc = "idle"
    /\ req' = [req EXCEPT ![w] = [pc |-> pc, sid |-> s, user |-> u]]

Goto(w, to) == req' = [req EXCEPT ![w].pc = to]

Finish(w) == req' = [req EXCEPT ![w] = Idle]

(* A lookup whose error the caller takes for "not there". *)
Lookup(there) == {there} \cup (IF MayFail THEN {FALSE} ELSE {})

(* A check that continues the request or ends it with an error. *)
Check(w, ok, to) ==
    /\ IF ok THEN Goto(w, to) ELSE Finish(w)
    /\ UNCHANGED <<accountVars, sess>>

----------------------------------------------------------------------------
(* Login: the account is read, then the session is opened. *)
Login(w, u) ==
    /\ Room
    /\ state[u] = "active"
    /\ Start(w, "opening", NULL, u)
    /\ UNCHANGED <<accountVars, sess>>

openSession(w) ==
    /\ req[w].pc = "opening"
    /\ \E s \in Sids :
          /\ ~Exists(s)
          /\ sess' = [sess EXCEPT ![s] = [NoRow EXCEPT !.kind = "normal", !.user = req[w].user]]
    /\ Finish(w)
    /\ UNCHANGED accountVars

(* Rotate with the session's current refresh token. *)
Rotate(w, s) ==
    /\ req[w].pc = "idle"
    /\ Active(s)
    /\ sess[s].gen < MaxGen
    /\ sess' = [sess EXCEPT ![s].gen = @ + 1]
    /\ UNCHANGED <<accountVars, req>>

(* Rotate with the token before it: a replay, which ends that session only. *)
RotateReplay(w, s) ==
    /\ req[w].pc = "idle"
    /\ sess[s].gen > 0
    /\ sess[s].revoked = NULL
    /\ sess' = Revoked({s}, "refresh_token_reuse")
    /\ UNCHANGED <<accountVars, req>>

----------------------------------------------------------------------------
(* Logout *)
Logout(w, s) ==
    /\ Exists(s)
    /\ Start(w, "signing_out", s, NULL)
    /\ UNCHANGED <<accountVars, sess>>

(* Signing out of a live impersonation signs its parent out first. *)
LogoutFind(w) ==
    /\ req[w].pc = "signing_out"
    /\ \E found \in Lookup(Active(req[w].sid)) :
          Goto(w, IF found /\ IsImpersonation(req[w].sid) THEN "revoking_parent" ELSE "revoking_children")
    /\ UNCHANGED <<accountVars, sess>>

LogoutParent(w) ==
    /\ req[w].pc = "revoking_parent"
    /\ Goto(w, "revoking_children")
    /\ sess' = Revoked({sess[req[w].sid].parent}, "logout")
    /\ UNCHANGED accountVars

(* Mutant: signing out leaves the impersonations opened from the session. *)
LogoutSparesChildren(w) ==
    /\ req[w].pc = "revoking_children"
    /\ Goto(w, "revoking_self")
    /\ UNCHANGED <<accountVars, sess>>

LogoutChildren(w) ==
    /\ req[w].pc = "revoking_children"
    /\ Goto(w, "revoking_self")
    /\ sess' = Revoked(Children(req[w].sid), "parent_logout")
    /\ UNCHANGED accountVars

LogoutSelf(w) ==
    /\ req[w].pc = "revoking_self"
    /\ Finish(w)
    /\ sess' = Revoked({req[w].sid}, "logout")
    /\ UNCHANGED accountVars

----------------------------------------------------------------------------
(* Mutant: an impersonation may start another. *)
StartNested(w, s, t) ==
    /\ Room
    /\ Active(s)
    /\ t # sess[s].user
    /\ Start(w, "caller", s, t)
    /\ UNCHANGED <<accountVars, sess>>

(* StartImpersonation from session s of target t.  1: a live, normal       *)
(* session; 3: not oneself.                                                *)
StartImpersonation(w, s, t) ==
    /\ Room
    /\ Active(s)
    /\ ~IsImpersonation(s)
    /\ t # sess[s].user
    /\ Start(w, "caller", s, t)
    /\ UNCHANGED <<accountVars, sess>>

(* 2: the caller is an active super admin right now. *)
CheckCaller(w) ==
    /\ req[w].pc = "caller"
    /\ Check(w, A!ActiveAdmin(sess[req[w].sid].user), "target")

(* 4: the target is an active organizer. *)
CheckTarget(w) ==
    /\ req[w].pc = "target"
    /\ Check(w, role[req[w].user] = "organizer" /\ state[req[w].user] = "active", "counting")

LiveImpersonations(u) == {s \in Sids : IsImpersonation(s) /\ Active(s) /\ sess[s].actor = u}

(* Mutant: no limit on concurrent impersonations. *)
NoLiveCheck(w) == req[w].pc = "counting" /\ Check(w, TRUE, "creating")

(* 5: no second concurrent impersonation from the same admin. *)
CheckLive(w) ==
    /\ req[w].pc = "counting"
    /\ Check(w, LiveImpersonations(sess[req[w].sid].user) = {}, "creating")

(* Mutant: the parent is not recorded. *)
CreateOrphan(w) ==
    /\ req[w].pc = "creating"
    /\ \E s \in Sids :
          /\ ~Exists(s)
          /\ sess' = [sess EXCEPT ![s] =
                        [NoRow EXCEPT !.kind = "impersonation", !.user = req[w].user,
                                      !.actor = sess[req[w].sid].user]]
    /\ Finish(w)
    /\ UNCHANGED accountVars

CreateImpersonation(w) ==
    /\ req[w].pc = "creating"
    /\ \E s \in Sids :
          /\ ~Exists(s)
          /\ sess' = [sess EXCEPT ![s] =
                        [NoRow EXCEPT !.kind = "impersonation", !.user = req[w].user,
                                      !.actor = sess[req[w].sid].user, !.parent = req[w].sid]]
    /\ Finish(w)
    /\ UNCHANGED accountVars

----------------------------------------------------------------------------
ParentOf(w) == sess[req[w].sid].parent

(* ExitImpersonation of session s. *)
ExitImpersonation(w, s) ==
    /\ Active(s)
    /\ IsImpersonation(s)
    /\ sess[sess[s].parent].gen < MaxGen
    /\ Start(w, "parent", s, NULL)
    /\ UNCHANGED <<accountVars, sess>>

(* Is there a session to return to, of someone still an active super admin? *)
ExitFindParent(w) ==
    /\ req[w].pc = "parent"
    /\ \E found \in Lookup(Active(ParentOf(w))) : Goto(w, IF found THEN "admin" ELSE "abandoning")
    /\ UNCHANGED <<accountVars, sess>>

ExitCheckAdmin(w) ==
    /\ req[w].pc = "admin"
    /\ \E found \in Lookup(A!ActiveAdmin(sess[ParentOf(w)].user)) :
          Goto(w, IF found THEN "exiting" ELSE "abandoning")
    /\ UNCHANGED <<accountVars, sess>>

ExitAbandon(w) ==
    /\ req[w].pc = "abandoning"
    /\ Finish(w)
    /\ sess' = Revoked({req[w].sid}, "impersonation_ended")
    /\ UNCHANGED accountVars

ExitRevoke(w) ==
    /\ req[w].pc = "exiting"
    /\ Goto(w, "restoring")
    /\ sess' = Revoked({req[w].sid}, "impersonation_ended")
    /\ UNCHANGED accountVars

(* The parent gets a new refresh token, whatever happened to it meanwhile. *)
ExitRotateParent(w) ==
    /\ req[w].pc = "restoring"
    /\ sess[ParentOf(w)].gen < MaxGen
    /\ Finish(w)
    /\ sess' = [sess EXCEPT ![ParentOf(w)].gen = @ + 1]
    /\ UNCHANGED accountVars

----------------------------------------------------------------------------
(* Mutant: suspension sets the flag and leaves the sessions. *)
SuspendFlagOnly(w, u, s) ==
    /\ req[w].pc = "idle"
    /\ A!SetUserStatus(u, s)
    /\ UNCHANGED <<sess, req>>

SetUserStatus(w, u, s) ==
    /\ req[w].pc = "idle"
    /\ A!SetUserStatus(u, s)
    /\ sess' = IF s = "suspended" THEN Revoked(SessionsOf(u), "removed") ELSE sess
    /\ UNCHANGED req

ChangeRole(w, u, r) ==
    /\ req[w].pc = "idle"
    /\ A!ChangeRole(u, r)
    /\ sess' = IF role[u] = "super_admin" /\ r # "super_admin"
               THEN Revoked(SessionsOf(u), "removed") ELSE sess
    /\ UNCHANGED req

(* The sessions half of RevokeInvitation, for an accepted invitation. *)
RevokeInvitation(w, u) ==
    /\ req[w].pc = "idle"
    /\ sess' = Revoked(SessionsOf(u), "removed")
    /\ UNCHANGED <<accountVars, req>>

(* A statement fails, and the request returns its error (ExitImpersonation *)
(* drops the one of its last UPDATE when it abandons): the statements      *)
(* before it stay committed, those after it never run.                     *)
Fail(w) ==
    /\ MayFail
    /\ req[w].pc # "idle"
    /\ Finish(w)
    /\ UNCHANGED <<accountVars, sess>>

(* expires_at passes. *)
Expire(s) ==
    /\ Exists(s)
    /\ ~sess[s].expired
    /\ sess' = [sess EXCEPT ![s].expired = TRUE]
    /\ UNCHANGED <<accountVars, req>>

Arrive(w) ==
    \/ \E u \in Logins : Login(w, u)
    \/ \E u \in Managed, s \in A!Statuses : SetUserStatus(w, u, s)
    \/ \E u \in Managed, r \in A!Roles : ChangeRole(w, u, r)
    \/ \E u \in Managed : RevokeInvitation(w, u)
    \/ \E s \in Sids : Rotate(w, s) \/ RotateReplay(w, s) \/ Logout(w, s) \/ ExitImpersonation(w, s)
    \/ \E s \in Sids, t \in Users : StartImpersonation(w, s, t)

Progress(w) ==
    \/ openSession(w)
    \/ LogoutFind(w) \/ LogoutParent(w) \/ LogoutChildren(w) \/ LogoutSelf(w)
    \/ CheckCaller(w) \/ CheckTarget(w) \/ CheckLive(w) \/ CreateImpersonation(w)
    \/ ExitFindParent(w) \/ ExitCheckAdmin(w) \/ ExitAbandon(w) \/ ExitRevoke(w)
    \/ ExitRotateParent(w)

Next ==
    \/ \E w \in Workers : Arrive(w) \/ Progress(w) \/ Fail(w)
    \/ \E s \in Sids : Expire(s)

Spec == Init /\ [][Next]_vars

----------------------------------------------------------------------------
(* Properties *)

(* An impersonation hangs off a normal session of the super admin behind   *)
(* it, also after roles change and however requests overlap: no nesting,   *)
(* and exiting returns to a session of the actor's own.                    *)
NoNesting ==
    \A s \in Sids : IsImpersonation(s) =>
        LET p == sess[s].parent
        IN  sess[p].kind = "normal" /\ sess[p].user = sess[s].actor

(* A session that was ended stays ended, and keeps the first cause on      *)
(* record, whatever logout, exit, replay or suspension comes later.        *)
RevocationFinal ==
    [][\A s \in Sids : sess[s].revoked # NULL => sess'[s].revoked = sess[s].revoked]_vars

Quiescent == \A w \in Workers : req[w].pc = "idle"

(* With no request in flight, a suspended account holds no live session,   *)
(* so reactivating it brings none back.                                    *)
SuspendedSignedOut ==
    Quiescent => \A s \in Sids : Active(s) => state[sess[s].user] = "active"

(* Suspending or demoting a super admin cannot leave them operating under  *)
(* a borrowed identity: a live impersonation has an active super admin     *)
(* behind it.                                                              *)
BorrowedByActiveAdmin ==
    \A s \in Sids : Active(s) /\ IsImpersonation(s) => A!ActiveAdmin(sess[s].actor)

(* A super admin has at most one live impersonation. *)
OneImpersonation ==
    \A s, t \in Sids :
        s # t /\ s \in LiveImpersonations(sess[s].actor) =>
            t \notin LiveImpersonations(sess[s].actor)

(* Nobody is left acting under a borrowed identity: once requests have     *)
(* finished, no impersonation opened from a session that was signed out is *)
(* alive ("a super admin who signs out while impersonating must not leave  *)
(* the borrowed identity alive", Logout), however far the sign-out got.    *)
LogoutEndsBorrowed ==
    Quiescent => \A s \in Sids :
        sess[s].revoked = "logout" => \A c \in Children(s) : ~Active(c)

(* A sign-out that reports success has left neither its session alive nor  *)
(* an impersonation opened from it, whatever failed before.                *)
SignOutComplete ==
    [][\A w \in Workers : LogoutSelf(w) =>
         \A s \in {req[w].sid} \cup Children(req[w].sid) : ~Active(s)']_vars
=============================================================================
