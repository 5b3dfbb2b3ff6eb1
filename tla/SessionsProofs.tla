--------------------------- MODULE SessionsProofs ---------------------------
(***************************************************************************)
(* Sessions, proved for any users, any number of sessions and any number   *)
(* of overlapping requests: what a session is for never changes, an        *)
(* impersonation always hangs off its actor's own normal session, and a    *)
(* revocation is final.                                                    *)
(***************************************************************************)
EXTENDS Sessions, TLAPS

StartSteps  == {"caller", "target", "counting", "creating"}
ExitSteps   == {"parent", "admin", "abandoning", "exiting", "restoring"}
LogoutSteps == {"signing_out", "revoking_parent", "revoking_children", "revoking_self"}

(* What a request in flight has established and no later step takes away. *)
Established(r) ==
    /\ r.pc = "opening" => r.user \in Users
    /\ r.pc \in StartSteps => /\ r.sid \in Sids /\ r.user \in Users
                              /\ sess[r.sid].kind = "normal"
                              /\ r.user # sess[r.sid].user
    /\ r.pc \in ExitSteps => r.sid \in Sids /\ sess[r.sid].kind = "impersonation"
    /\ r.pc \in LogoutSteps => r.sid \in Sids
    /\ r.pc = "revoking_parent" => sess[r.sid].kind = "impersonation"

SessInv ==
    /\ TypeOK
    /\ NoNesting
    /\ \A w \in Workers : Established(req[w])

(* What every step does to the sessions table: rows stay well formed, an   *)
(* existing row keeps who it is for, and a revoked one stays revoked for   *)
(* the same reason.                                                        *)
RowStep ==
    /\ sess' \in [Sids -> Rows]
    /\ \A s \in Sids : WellShaped(sess'[s])
    /\ \A s \in Sids : sess[s].kind # "none" =>
          /\ sess'[s].kind = sess[s].kind
          /\ sess'[s].user = sess[s].user
          /\ sess'[s].actor = sess[s].actor
          /\ sess'[s].parent = sess[s].parent
    /\ \A s \in Sids : sess[s].revoked # NULL => sess'[s].revoked = sess[s].revoked

(* No session is opened. *)
NothingOpened == \A s \in Sids : sess[s].kind = "none" => sess'[s].kind = "none"

(* The empty row and the empty request are well formed. *)
LEMMA Empty == NoRow \in Rows /\ Idle \in Requests /\ WellShaped(NoRow)
  BY DEF NoRow, Rows, Idle, Requests, Steps, WellShaped

(* Leaving the table alone is a row step. *)
LEMMA SameRows == TypeOK /\ sess' = sess => RowStep /\ NothingOpened
  BY DEF TypeOK, RowStep, NothingOpened

(* Revoking, whichever rows and for whatever reason, is a row step: the    *)
(* UPDATE touches only rows that are not revoked yet.                      *)
LEMMA RevokedRows ==
  ASSUME TypeOK, NEW S, NEW why \in Reasons, sess' = Revoked(S, why)
  PROVE  RowStep /\ NothingOpened
<1>1. ASSUME NEW s \in Sids
      PROVE  /\ sess'[s] \in Rows
             /\ WellShaped(sess'[s])
             /\ sess'[s].kind = sess[s].kind
             /\ sess'[s].user = sess[s].user
             /\ sess'[s].actor = sess[s].actor
             /\ sess'[s].parent = sess[s].parent
             /\ sess[s].revoked # NULL => sess'[s].revoked = sess[s].revoked
  <2>1. sess[s] \in Rows /\ WellShaped(sess[s])
    BY DEF TypeOK
  <2>2. CASE sess[s].kind # "none" /\ sess'[s] = [sess[s] EXCEPT !.revoked = why] /\ sess[s].revoked = NULL
    BY <2>1, <2>2 DEF Rows, WellShaped
  <2>3. CASE sess'[s] = sess[s]
    BY <2>1, <2>3
  <2> QED
    BY <2>2, <2>3 DEF Revoked, Exists
<1>2. sess' \in [Sids -> Rows]
  BY <1>1 DEF Revoked
<1> QED
  BY <1>1, <1>2 DEF RowStep, NothingOpened

(* Replacing a row by one for the same session, with the same revocation,  *)
(* is a row step.                                                          *)
LEMMA ReplacedRow ==
  ASSUME TypeOK, NEW s \in Sids, NEW row \in Rows, WellShaped(row),
         row.kind = sess[s].kind, row.user = sess[s].user, row.actor = sess[s].actor,
         row.parent = sess[s].parent, row.revoked = sess[s].revoked,
         sess' = [sess EXCEPT ![s] = row]
  PROVE  RowStep /\ NothingOpened
<1>1. sess' \in [Sids -> Rows]
  BY DEF TypeOK
<1>2. ASSUME NEW x \in Sids
      PROVE  /\ WellShaped(sess'[x])
             /\ sess'[x].kind = sess[x].kind /\ sess'[x].user = sess[x].user
             /\ sess'[x].actor = sess[x].actor /\ sess'[x].parent = sess[x].parent
             /\ sess'[x].revoked = sess[x].revoked
  <2>1. CASE x = s
    BY <2>1 DEF TypeOK
  <2>2. CASE x # s
    BY <2>2 DEF TypeOK
  <2> QED
    BY <2>1, <2>2
<1> QED
  BY <1>1, <1>2 DEF RowStep, NothingOpened

(* Minting a refresh token is a row step. *)
LEMMA RotatedRows ==
  ASSUME TypeOK, NEW s \in Sids, sess[s].kind # "none",
         sess' = [sess EXCEPT ![s].gen = @ + 1]
  PROVE  RowStep /\ NothingOpened
<1> DEFINE row == [sess[s] EXCEPT !.gen = sess[s].gen + 1]
<1>1. sess[s] \in Rows /\ WellShaped(sess[s])
  BY DEF TypeOK
<1>2. /\ row \in Rows
      /\ row.kind = sess[s].kind /\ row.user = sess[s].user /\ row.actor = sess[s].actor
      /\ row.parent = sess[s].parent /\ row.revoked = sess[s].revoked
  BY <1>1 DEF Rows
<1>3. sess' = [sess EXCEPT ![s] = row]
  OBVIOUS
<1> HIDE DEF row
<1>4. WellShaped(row)
  BY <1>1, <1>2 DEF WellShaped, Rows
<1> QED
  BY <1>2, <1>3, <1>4, ReplacedRow

(* Expiry is a row step. *)
LEMMA ExpiredRows ==
  ASSUME TypeOK, NEW s \in Sids, sess[s].kind # "none",
         sess' = [sess EXCEPT ![s].expired = TRUE]
  PROVE  RowStep /\ NothingOpened
<1> DEFINE row == [sess[s] EXCEPT !.expired = TRUE]
<1>1. sess[s] \in Rows /\ WellShaped(sess[s])
  BY DEF TypeOK
<1>2. /\ row \in Rows
      /\ row.kind = sess[s].kind /\ row.user = sess[s].user /\ row.actor = sess[s].actor
      /\ row.parent = sess[s].parent /\ row.revoked = sess[s].revoked
  BY <1>1 DEF Rows
<1>3. sess' = [sess EXCEPT ![s] = row]
  OBVIOUS
<1> HIDE DEF row
<1>4. WellShaped(row)
  BY <1>1, <1>2 DEF WellShaped, Rows
<1> QED
  BY <1>2, <1>3, <1>4, ReplacedRow

(* Filling a free row with a well-formed one is a row step. *)
LEMMA OpenedRows ==
  ASSUME TypeOK, NEW s \in Sids, sess[s].kind = "none",
         NEW row \in Rows, WellShaped(row), sess' = [sess EXCEPT ![s] = row]
  PROVE  RowStep
<1>1. sess[s] = NoRow
  BY DEF TypeOK, WellShaped
<1>2. sess[s].revoked = NULL
  BY <1>1 DEF NoRow
<1>3. sess' \in [Sids -> Rows]
  BY DEF TypeOK
<1>4. \A x \in Sids : x # s => sess'[x] = sess[x]
  BY DEF TypeOK
<1>5. sess'[s] = row
  BY DEF TypeOK
<1> QED
  BY <1>2, <1>3, <1>4, <1>5 DEF TypeOK, RowStep

(* What a request has established survives any row step. *)
LEMMA EstablishedKept ==
  ASSUME RowStep, NEW r \in Requests, Established(r)
  PROVE  Established(r)'
<1>1. \A s \in Sids : sess[s].kind \in {"normal", "impersonation"} =>
         sess'[s].kind = sess[s].kind /\ sess'[s].user = sess[s].user
  BY DEF RowStep
<1>2. r.pc = "revoking_parent" => r.pc \in LogoutSteps
  BY DEF LogoutSteps
<1> QED
  BY <1>1, <1>2 DEF Established

(* When nothing is opened, impersonations keep their parents. *)
LEMMA NestKept ==
  ASSUME SessInv, RowStep, NothingOpened
  PROVE  NoNesting'
<1> SUFFICES ASSUME NEW s \in Sids, sess'[s].kind = "impersonation"
             PROVE  /\ sess'[sess'[s].parent].kind = "normal"
                    /\ sess'[sess'[s].parent].user = sess'[s].actor
  BY DEF NoNesting, IsImpersonation
<1>1. sess[s].kind = "impersonation" /\ sess'[s].parent = sess[s].parent /\ sess'[s].actor = sess[s].actor
  BY DEF RowStep, NothingOpened, SessInv, TypeOK, Rows
<1>2. sess[s].parent \in Sids
  BY <1>1 DEF SessInv, TypeOK, WellShaped
<1> QED
  BY <1>1, <1>2 DEF RowStep, SessInv, NoNesting, IsImpersonation

(* A step of one request, with its accounts, rows and new record in order, *)
(* keeps the invariant.                                                    *)
LEMMA RequestStep ==
  ASSUME SessInv, RowStep, NoNesting',
         role' \in [Users -> A!Roles], state' \in [Users -> A!Statuses],
         NEW w \in Workers, NEW r \in Requests, req' = [req EXCEPT ![w] = r],
         Established(r)'
  PROVE  SessInv'
<1>1. TypeOK'
  BY DEF SessInv, TypeOK, RowStep
<1>2. ASSUME NEW x \in Workers PROVE Established(req[x])'
  <2>1. CASE x = w
    <3>1. req'[x] = r
      BY <2>1 DEF SessInv, TypeOK
    <3> QED
      BY <3>1 DEF Established
  <2>2. CASE x # w
    <3>1. req'[x] = req[x] /\ req[x] \in Requests /\ Established(req[x])
      BY <2>2 DEF SessInv, TypeOK
    <3>2. PICK q \in Requests : q = req[x]
      BY <3>1
    <3>3. Established(q)'
      BY <3>1, <3>2, EstablishedKept
    <3> QED
      BY <3>1, <3>2, <3>3 DEF Established
  <2> QED
    BY <2>1, <2>2
<1> QED
  BY <1>1, <1>2 DEF SessInv

(* So does a step that leaves every request where it is. *)
LEMMA TableStep ==
  ASSUME SessInv, RowStep, NothingOpened, req' = req,
         role' \in [Users -> A!Roles], state' \in [Users -> A!Statuses]
  PROVE  SessInv'
<1>1. TypeOK'
  BY DEF SessInv, TypeOK, RowStep
<1>2. ASSUME NEW x \in Workers PROVE Established(req[x])'
  <2>1. req'[x] = req[x] /\ req[x] \in Requests /\ Established(req[x])
    BY DEF SessInv, TypeOK
  <2>2. PICK q \in Requests : q = req[x]
    BY <2>1
  <2>3. Established(q)'
    BY <2>1, <2>2, EstablishedKept
  <2> QED
    BY <2>1, <2>2, <2>3 DEF Established
<1> QED
  BY <1>1, <1>2, NestKept DEF SessInv

(* A step that only moves one request on. *)
LEMMA MoveStep ==
  ASSUME SessInv, UNCHANGED <<accountVars, sess>>, NEW w \in Workers,
         NEW r \in Requests, req' = [req EXCEPT ![w] = r], Established(r)
  PROVE  SessInv'
<1>1. RowStep /\ NothingOpened
  BY SameRows DEF SessInv
<1>2. Established(r)'
  BY <1>1, EstablishedKept
<1> QED
  BY <1>1, <1>2, NestKept, RequestStep DEF SessInv, TypeOK, accountVars

(* A step that revokes rows and moves one request on. *)
LEMMA RevokeStep ==
  ASSUME SessInv, UNCHANGED accountVars, NEW S, NEW why \in Reasons,
         sess' = Revoked(S, why), NEW w \in Workers,
         NEW r \in Requests, req' = [req EXCEPT ![w] = r], Established(r)
  PROVE  SessInv'
<1>1. RowStep /\ NothingOpened
  BY RevokedRows DEF SessInv
<1>2. Established(r)'
  BY <1>1, EstablishedKept
<1> QED
  BY <1>1, <1>2, NestKept, RequestStep DEF SessInv, TypeOK, accountVars

(* An idle request has established nothing, so nothing can be wrong with it. *)
LEMMA IdleEstablished == Established(Idle)
  BY DEF Established, Idle, StartSteps, ExitSteps, LogoutSteps

(* The initial state satisfies the invariant. *)
LEMMA SessInit == Init => SessInv
<1> SUFFICES ASSUME Init PROVE SessInv
  OBVIOUS
<1>1. TypeOK
  BY Empty, SessionsAssumption DEF Init, A!Init, TypeOK, A!Statuses
<1>2. NoNesting
  BY DEF Init, NoNesting, IsImpersonation, NoRow
<1>3. \A w \in Workers : Established(req[w])
  BY IdleEstablished DEF Init
<1> QED
  BY <1>1, <1>2, <1>3 DEF SessInv

(* Requests arriving keep the invariant. *)
LEMMA ArriveStep ==
  ASSUME SessInv, NEW w \in Workers, Arrive(w)
  PROVE  SessInv'
<1> USE DEF accountVars
<1>0. TypeOK /\ role \in [Users -> A!Roles] /\ state \in [Users -> A!Statuses]
  BY DEF SessInv, TypeOK
<1>1. ASSUME NEW u \in Logins, Login(w, u) PROVE SessInv'
  <2> DEFINE r == [pc |-> "opening", sid |-> NULL, user |-> u]
  <2>1. r \in Requests /\ Established(r)
    BY SessionsAssumption DEF Requests, Steps, Established, StartSteps, ExitSteps, LogoutSteps
  <2>2. req' = [req EXCEPT ![w] = r] /\ UNCHANGED <<accountVars, sess>>
    BY <1>1 DEF Login, Start
  <2> HIDE DEF r
  <2> QED
    BY <2>1, <2>2, MoveStep
<1>2. ASSUME NEW u \in Managed, NEW s \in A!Statuses, SetUserStatus(w, u, s) PROVE SessInv'
  <2>1. role' \in [Users -> A!Roles] /\ state' \in [Users -> A!Statuses]
    BY <1>0, <1>2 DEF SetUserStatus, A!SetUserStatus
  <2>2. RowStep /\ NothingOpened
    <3>1. CASE s = "suspended"
      BY <1>0, <1>2, <3>1, RevokedRows DEF SetUserStatus, Reasons
    <3>2. CASE s # "suspended"
      BY <1>0, <1>2, <3>2, SameRows DEF SetUserStatus
    <3> QED
      BY <3>1, <3>2
  <2> QED
    BY <1>2, <2>1, <2>2, TableStep DEF SetUserStatus
<1>3. ASSUME NEW u \in Managed, NEW n \in A!Roles, ChangeRole(w, u, n) PROVE SessInv'
  <2>1. role' \in [Users -> A!Roles] /\ state' \in [Users -> A!Statuses]
    BY <1>0, <1>3 DEF ChangeRole, A!ChangeRole
  <2>2. RowStep /\ NothingOpened
    <3>1. CASE role[u] = "super_admin" /\ n # "super_admin"
      BY <1>0, <1>3, <3>1, RevokedRows DEF ChangeRole, Reasons
    <3>2. CASE ~(role[u] = "super_admin" /\ n # "super_admin")
      BY <1>0, <1>3, <3>2, SameRows DEF ChangeRole
    <3> QED
      BY <3>1, <3>2
  <2> QED
    BY <1>3, <2>1, <2>2, TableStep DEF ChangeRole
<1>4. ASSUME NEW u \in Managed, RevokeInvitation(w, u) PROVE SessInv'
  <2>1. RowStep /\ NothingOpened
    BY <1>0, <1>4, RevokedRows DEF RevokeInvitation, Reasons
  <2> QED
    BY <1>0, <1>4, <2>1, TableStep DEF RevokeInvitation
<1>5. ASSUME NEW s \in Sids, Rotate(w, s) PROVE SessInv'
  <2>1. RowStep /\ NothingOpened
    BY <1>0, <1>5, RotatedRows DEF Rotate, Active, Exists
  <2> QED
    BY <1>0, <1>5, <2>1, TableStep DEF Rotate
<1>6. ASSUME NEW s \in Sids, RotateReplay(w, s) PROVE SessInv'
  <2>1. RowStep /\ NothingOpened
    BY <1>0, <1>6, RevokedRows DEF RotateReplay, Reasons
  <2> QED
    BY <1>0, <1>6, <2>1, TableStep DEF RotateReplay
<1>7. ASSUME NEW s \in Sids, Logout(w, s) PROVE SessInv'
  <2> DEFINE r == [pc |-> "signing_out", sid |-> s, user |-> NULL]
  <2>1. r \in Requests /\ Established(r)
    BY DEF Requests, Steps, Established, StartSteps, ExitSteps, LogoutSteps
  <2>2. req' = [req EXCEPT ![w] = r] /\ UNCHANGED <<accountVars, sess>>
    BY <1>7 DEF Logout, Start
  <2> HIDE DEF r
  <2> QED
    BY <2>1, <2>2, MoveStep
<1>8. ASSUME NEW s \in Sids, ExitImpersonation(w, s) PROVE SessInv'
  <2> DEFINE r == [pc |-> "parent", sid |-> s, user |-> NULL]
  <2>1. r \in Requests /\ Established(r)
    BY <1>8 DEF ExitImpersonation, IsImpersonation, Requests, Steps, Established,
                StartSteps, ExitSteps, LogoutSteps
  <2>2. req' = [req EXCEPT ![w] = r] /\ UNCHANGED <<accountVars, sess>>
    BY <1>8 DEF ExitImpersonation, Start
  <2> HIDE DEF r
  <2> QED
    BY <2>1, <2>2, MoveStep
<1>9. ASSUME NEW s \in Sids, NEW t \in Users, StartImpersonation(w, s, t) PROVE SessInv'
  <2> DEFINE r == [pc |-> "caller", sid |-> s, user |-> t]
  <2>1. sess[s].kind = "normal" /\ t # sess[s].user
    BY <1>0, <1>9 DEF StartImpersonation, IsImpersonation, Active, Exists, TypeOK, Rows
  <2>2. r \in Requests /\ Established(r)
    BY <2>1 DEF Requests, Steps, Established, StartSteps, ExitSteps, LogoutSteps
  <2>3. req' = [req EXCEPT ![w] = r] /\ UNCHANGED <<accountVars, sess>>
    BY <1>9 DEF StartImpersonation, Start
  <2> HIDE DEF r
  <2> QED
    BY <2>2, <2>3, MoveStep
<1> QED
  BY <1>1, <1>2, <1>3, <1>4, <1>5, <1>6, <1>7, <1>8, <1>9 DEF Arrive

(* Opening a row of one's own for a request that ends with it. *)
LEMMA OpenStep ==
  ASSUME SessInv, UNCHANGED accountVars, NEW w \in Workers, Finish(w),
         NEW s \in Sids, sess[s].kind = "none",
         NEW row \in Rows, WellShaped(row), sess' = [sess EXCEPT ![s] = row],
         row.kind = "impersonation" =>
            /\ row.parent # s
            /\ sess[row.parent].kind = "normal"
            /\ sess[row.parent].user = row.actor
  PROVE  SessInv'
<1>1. TypeOK
  BY DEF SessInv
<1>2. RowStep
  BY <1>1, OpenedRows
<1>3. ASSUME NEW x \in Sids, sess'[x].kind = "impersonation"
      PROVE  sess'[sess'[x].parent].kind = "normal" /\ sess'[sess'[x].parent].user = sess'[x].actor
  <2>1. CASE x = s
    <3>1. sess'[x] = row
      BY <1>1, <2>1 DEF TypeOK
    <3>2. row.parent \in Sids
      BY <1>3, <3>1 DEF WellShaped
    <3> QED
      BY <1>2, <1>3, <3>1, <3>2 DEF RowStep
  <2>2. CASE x # s
    <3>1. sess'[x] = sess[x]
      BY <1>1, <2>2 DEF TypeOK
    <3>2. sess[x].parent \in Sids
      BY <1>1, <1>3, <3>1 DEF TypeOK, WellShaped
    <3>3. sess[sess[x].parent].kind = "normal" /\ sess[sess[x].parent].user = sess[x].actor
      BY <1>3, <3>1 DEF SessInv, NoNesting, IsImpersonation
    <3> QED
      BY <1>2, <3>1, <3>2, <3>3 DEF RowStep
  <2> QED
    BY <2>1, <2>2
<1>4. NoNesting'
  BY <1>3 DEF NoNesting, IsImpersonation
<1>5. Established(Idle)'
  BY <1>2, Empty, IdleEstablished, EstablishedKept
<1> QED
  BY <1>1, <1>2, <1>4, <1>5, Empty, RequestStep DEF Finish, TypeOK, accountVars

(* A request moving to another step of the same operation. *)
LEMMA GotoRecord ==
  ASSUME SessInv, NEW w \in Workers, NEW to \in Steps, Goto(w, to)
  PROVE  \E r \in Requests : /\ req' = [req EXCEPT ![w] = r]
                             /\ r.pc = to /\ r.sid = req[w].sid /\ r.user = req[w].user
<1> DEFINE r == [req[w] EXCEPT !.pc = to]
<1>1. r \in Requests /\ r.pc = to /\ r.sid = req[w].sid /\ r.user = req[w].user
  BY DEF SessInv, TypeOK, Requests
<1>2. req' = [req EXCEPT ![w] = r]
  BY DEF Goto
<1> QED
  BY <1>1, <1>2

(* The same, from a step of StartImpersonation to the next. *)
LEMMA CheckStep ==
  ASSUME SessInv, NEW w \in Workers, req[w].pc \in StartSteps,
         NEW to \in StartSteps, NEW ok \in BOOLEAN, Check(w, ok, to)
  PROVE  SessInv'
<1>1. CASE Goto(w, to)
  <2>0. to \in Steps
    BY DEF StartSteps, Steps
  <2>1. PICK r \in Requests : /\ req' = [req EXCEPT ![w] = r]
                              /\ r.pc = to /\ r.sid = req[w].sid /\ r.user = req[w].user
    BY <1>1, <2>0, GotoRecord
  <2>2. Established(r)
    BY <2>1 DEF SessInv, Established, StartSteps, ExitSteps, LogoutSteps
  <2> QED
    BY <2>1, <2>2, MoveStep DEF Check
<1>2. CASE Finish(w)
  BY <1>2, Empty, IdleEstablished, MoveStep DEF Check, Finish
<1> QED
  BY <1>1, <1>2 DEF Check

(* The steps of a request in flight keep the invariant. *)
LEMMA ProgressStep ==
  ASSUME SessInv, NEW w \in Workers, Progress(w)
  PROVE  SessInv'
<1>0. TypeOK /\ Established(req[w]) /\ req[w] \in Requests
  BY DEF SessInv, TypeOK
<1>1. ASSUME openSession(w) PROVE SessInv'
  <2>1. PICK s \in Sids :
          /\ sess[s].kind = "none"
          /\ sess' = [sess EXCEPT ![s] = [NoRow EXCEPT !.kind = "normal", !.user = req[w].user]]
    BY <1>1 DEF openSession, Exists
  <2> DEFINE row == [NoRow EXCEPT !.kind = "normal", !.user = req[w].user]
  <2>2. req[w].user \in Users
    BY <1>0, <1>1 DEF openSession, Established
  <2>3. row \in Rows /\ row.kind = "normal" /\ row.user \in Users /\ row.actor = NULL /\ row.parent = NULL
    BY <2>2 DEF NoRow, Rows
  <2>4. sess' = [sess EXCEPT ![s] = row]
    BY <2>1
  <2> HIDE DEF row
  <2>5. WellShaped(row)
    BY <2>3 DEF WellShaped
  <2> QED
    BY <1>1, <2>1, <2>3, <2>4, <2>5, OpenStep DEF openSession
<1>2. ASSUME CreateImpersonation(w) PROVE SessInv'
  <2>1. /\ req[w].sid \in Sids /\ req[w].user \in Users
        /\ sess[req[w].sid].kind = "normal" /\ req[w].user # sess[req[w].sid].user
    BY <1>0, <1>2 DEF CreateImpersonation, Established, StartSteps
  <2>2. sess[req[w].sid].user \in Users
    BY <1>0, <2>1 DEF TypeOK, WellShaped
  <2> DEFINE row == [NoRow EXCEPT !.kind = "impersonation", !.user = req[w].user,
                                  !.actor = sess[req[w].sid].user, !.parent = req[w].sid]
  <2>3. PICK s \in Sids : sess[s].kind = "none" /\ sess' = [sess EXCEPT ![s] = row]
    BY <1>2 DEF CreateImpersonation, Exists
  <2>4. /\ row \in Rows /\ row.kind = "impersonation" /\ row.user = req[w].user
        /\ row.actor = sess[req[w].sid].user /\ row.parent = req[w].sid
    BY <2>1, <2>2 DEF NoRow, Rows
  <2> HIDE DEF row
  <2>5. WellShaped(row)
    BY <2>1, <2>2, <2>4 DEF WellShaped
  <2>6. row.parent # s
    BY <2>1, <2>3, <2>4
  <2> QED
    BY <1>2, <2>1, <2>3, <2>4, <2>5, <2>6, OpenStep DEF CreateImpersonation
<1>3. ASSUME CheckCaller(w) PROVE SessInv'
  BY <1>3, CheckStep DEF CheckCaller, A!ActiveAdmin, StartSteps
<1>4. ASSUME CheckTarget(w) PROVE SessInv'
  BY <1>4, CheckStep DEF CheckTarget, StartSteps
<1>5. ASSUME CheckLive(w) PROVE SessInv'
  BY <1>5, CheckStep DEF CheckLive, StartSteps
<1>6. ASSUME NEW from \in LogoutSteps \cup ExitSteps, req[w].pc = from,
             NEW to \in LogoutSteps \cup ExitSteps, Goto(w, to),
             from \in LogoutSteps <=> to \in LogoutSteps,
             to = "revoking_parent" => sess[req[w].sid].kind = "impersonation"
      PROVE  \E r \in Requests : req' = [req EXCEPT ![w] = r] /\ Established(r)
  <2>0. to \in Steps
    BY DEF LogoutSteps, ExitSteps, Steps
  <2>1. PICK r \in Requests : /\ req' = [req EXCEPT ![w] = r]
                              /\ r.pc = to /\ r.sid = req[w].sid /\ r.user = req[w].user
    BY <1>6, <2>0, GotoRecord
  <2>2. Established(r)
    BY <1>0, <1>6, <2>1 DEF Established, StartSteps, ExitSteps, LogoutSteps
  <2> QED
    BY <2>1, <2>2
<1>7. ASSUME LogoutFind(w) \/ ExitFindParent(w) \/ ExitCheckAdmin(w) PROVE SessInv'
  <2>1. \/ req[w].pc = "signing_out" /\ Goto(w, "revoking_children")
        \/ req[w].pc = "signing_out" /\ Goto(w, "revoking_parent") /\ sess[req[w].sid].kind = "impersonation"
        \/ req[w].pc = "parent" /\ (Goto(w, "admin") \/ Goto(w, "abandoning"))
        \/ req[w].pc = "admin" /\ (Goto(w, "exiting") \/ Goto(w, "abandoning"))
    BY <1>7 DEF LogoutFind, ExitFindParent, ExitCheckAdmin, IsImpersonation
  <2>2. PICK r \in Requests : req' = [req EXCEPT ![w] = r] /\ Established(r)
    BY <1>6, <2>1 DEF LogoutSteps, ExitSteps
  <2> QED
    BY <1>7, <2>2, MoveStep DEF LogoutFind, ExitFindParent, ExitCheckAdmin
<1>8. ASSUME LogoutParent(w) \/ LogoutChildren(w) \/ ExitRevoke(w) PROVE SessInv'
  <2>1. PICK r \in Requests : req' = [req EXCEPT ![w] = r] /\ Established(r)
    BY <1>6, <1>8 DEF LogoutParent, LogoutChildren, ExitRevoke, LogoutSteps, ExitSteps
  <2>2. \E S : \E why \in Reasons : sess' = Revoked(S, why)
    BY <1>8 DEF LogoutParent, LogoutChildren, ExitRevoke, Reasons
  <2> QED
    BY <1>8, <2>1, <2>2, RevokeStep DEF LogoutParent, LogoutChildren, ExitRevoke
<1>9. ASSUME LogoutSelf(w) \/ ExitAbandon(w) PROVE SessInv'
  <2>1. sess' = Revoked({req[w].sid}, "logout") \/ sess' = Revoked({req[w].sid}, "impersonation_ended")
    BY <1>9 DEF LogoutSelf, ExitAbandon
  <2>2. req' = [req EXCEPT ![w] = Idle] /\ UNCHANGED accountVars
    BY <1>9 DEF LogoutSelf, ExitAbandon, Finish
  <2> QED
    BY <2>1, <2>2, Empty, IdleEstablished, RevokeStep DEF Reasons
<1>10. ASSUME ExitRotateParent(w) PROVE SessInv'
  <2>1. req[w].sid \in Sids /\ sess[req[w].sid].kind = "impersonation"
    BY <1>0, <1>10 DEF ExitRotateParent, Established, ExitSteps
  <2>2. ParentOf(w) \in Sids /\ sess[ParentOf(w)].kind # "none"
    BY <1>0, <2>1 DEF TypeOK, WellShaped, ParentOf, SessInv, NoNesting, IsImpersonation
  <2>3. RowStep /\ NothingOpened
    BY <1>0, <1>10, <2>2, RotatedRows DEF ExitRotateParent
  <2>4. Established(Idle)'
    BY <2>3, Empty, IdleEstablished, EstablishedKept
  <2> QED
    BY <1>0, <1>10, <2>3, <2>4, Empty, NestKept, RequestStep
       DEF ExitRotateParent, Finish, TypeOK, accountVars
<1> QED
  BY <1>1, <1>2, <1>3, <1>4, <1>5, <1>7, <1>8, <1>9, <1>10 DEF Progress

(* So does a request that ends with an error. *)
LEMMA FailStep ==
  ASSUME SessInv, NEW w \in Workers, Fail(w)
  PROVE  SessInv'
BY Empty, IdleEstablished, MoveStep DEF Fail, Finish

(* Every step keeps the invariant. *)
LEMMA SessStep == SessInv /\ [Next]_vars => SessInv'
<1> SUFFICES ASSUME SessInv, [Next]_vars PROVE SessInv'
  OBVIOUS
<1>1. CASE \E w \in Workers : Arrive(w) \/ Progress(w) \/ Fail(w)
  BY <1>1, ArriveStep, ProgressStep, FailStep
<1>2. ASSUME NEW s \in Sids, Expire(s) PROVE SessInv'
  <2>1. RowStep /\ NothingOpened
    BY <1>2, ExpiredRows DEF Expire, Exists, SessInv
  <2> QED
    BY <1>2, <2>1, TableStep DEF Expire, accountVars, SessInv, TypeOK
<1>3. CASE UNCHANGED vars
  <2>1. RowStep /\ NothingOpened
    BY <1>3, SameRows DEF vars, SessInv
  <2> QED
    BY <1>3, <2>1, TableStep DEF vars, SessInv, TypeOK
<1> QED
  BY <1>1, <1>2, <1>3 DEF Next

(* A revoked row keeps its reason. *)
Lasting == \A s \in Sids : sess[s].revoked # NULL => sess'[s].revoked = sess[s].revoked

(* An UPDATE that revokes leaves rows revoked before alone. *)
LEMMA RevokedLasts ==
  ASSUME NEW S, NEW why, sess' = Revoked(S, why)
  PROVE  Lasting
  BY DEF Lasting, Revoked

(* So does opening a session: the row was free, and a free row is not      *)
(* revoked.                                                                *)
LEMMA OpenedLasts ==
  ASSUME TypeOK, NEW s \in Sids, ~Exists(s), NEW row, sess' = [sess EXCEPT ![s] = row]
  PROVE  Lasting
<1>1. sess[s] = NoRow
  BY DEF TypeOK, Exists, WellShaped
<1>2. sess[s].revoked = NULL
  BY <1>1 DEF NoRow
<1> QED
  BY <1>2 DEF TypeOK, Lasting

(* Every step leaves revoked rows revoked for the same reason. *)
LEMMA StepLasts == SessInv /\ [Next]_vars => Lasting
<1> SUFFICES ASSUME SessInv, [Next]_vars PROVE Lasting
  OBVIOUS
<1>0. TypeOK
  BY DEF SessInv
<1>1. CASE sess' = sess
  BY <1>1 DEF Lasting
<1>2. ASSUME NEW w \in Workers, Arrive(w) PROVE Lasting
  <2>1. ASSUME NEW u \in Managed, NEW s \in A!Statuses, SetUserStatus(w, u, s) PROVE Lasting
    BY <1>1, <2>1, RevokedLasts DEF SetUserStatus
  <2>2. ASSUME NEW u \in Managed, NEW n \in A!Roles, ChangeRole(w, u, n) PROVE Lasting
    BY <1>1, <2>2, RevokedLasts DEF ChangeRole
  <2>3. ASSUME NEW u \in Managed, RevokeInvitation(w, u) PROVE Lasting
    BY <2>3, RevokedLasts DEF RevokeInvitation
  <2>4. ASSUME NEW s \in Sids, Rotate(w, s) PROVE Lasting
    BY <1>0, <2>4, RotatedRows DEF Rotate, Active, Exists, RowStep, Lasting
  <2>5. ASSUME NEW s \in Sids, RotateReplay(w, s) PROVE Lasting
    BY <2>5, RevokedLasts DEF RotateReplay
  <2> QED
    BY <1>1, <1>2, <2>1, <2>2, <2>3, <2>4, <2>5
       DEF Arrive, Login, Logout, ExitImpersonation, StartImpersonation
<1>3. ASSUME NEW w \in Workers, Progress(w) PROVE Lasting
  <2>1. CASE openSession(w) \/ CreateImpersonation(w)
    BY <1>0, <2>1, OpenedLasts DEF openSession, CreateImpersonation
  <2>2. CASE LogoutParent(w) \/ LogoutChildren(w) \/ LogoutSelf(w) \/ ExitAbandon(w) \/ ExitRevoke(w)
    BY <2>2, RevokedLasts DEF LogoutParent, LogoutChildren, LogoutSelf, ExitAbandon, ExitRevoke
  <2>3. CASE ExitRotateParent(w)
    <3>1. sess' = [sess EXCEPT ![ParentOf(w)].gen = @ + 1]
      BY <2>3 DEF ExitRotateParent
    <3>2. ASSUME NEW s \in Sids PROVE sess'[s].revoked = sess[s].revoked
      BY <1>0, <3>1 DEF TypeOK, Rows
    <3> QED
      BY <3>2 DEF Lasting
  <2>4. CASE LogoutFind(w) \/ CheckCaller(w) \/ CheckTarget(w) \/ CheckLive(w)
             \/ ExitFindParent(w) \/ ExitCheckAdmin(w)
    BY <1>1, <2>4 DEF LogoutFind, CheckCaller, CheckTarget, CheckLive, Check,
                      ExitFindParent, ExitCheckAdmin
  <2> QED
    BY <1>3, <2>1, <2>2, <2>3, <2>4 DEF Progress
<1>4. ASSUME NEW s \in Sids, Expire(s) PROVE Lasting
  BY <1>0, <1>4, ExpiredRows DEF Expire, Exists, RowStep, Lasting
<1> QED
  BY <1>1, <1>2, <1>3, <1>4 DEF Next, Fail, vars

(* Users, sessions and requests always hold values of their columns'       *)
(* types, and every session row passes the table's CHECK constraint.       *)
THEOREM SessionsTypeCorrect == Spec => []TypeOK
<1>1. SessInv => TypeOK
  BY DEF SessInv
<1> QED
  BY <1>1, SessInit, SessStep, PTL DEF Spec

(* However logins, role changes and impersonations overlap, every          *)
(* impersonation's parent is a normal session of the admin behind it.      *)
THEOREM ImpersonationNeverNests == Spec => []NoNesting
<1>1. SessInv => NoNesting
  BY DEF SessInv
<1> QED
  BY <1>1, SessInit, SessStep, PTL DEF Spec

(* No interleaving of sign-outs, exits, replays, suspensions and role      *)
(* changes revives a session or rewrites why it ended.                     *)
THEOREM RevocationIsFinal == Spec => RevocationFinal
<1>1. SessInv /\ [Next]_vars => Lasting
  BY StepLasts
<1>2. SessInv /\ [Next]_vars =>
        [\A s \in Sids : sess[s].revoked # NULL => sess'[s].revoked = sess[s].revoked]_vars
  BY <1>1 DEF Lasting
<1> QED
  BY <1>2, SessInit, SessStep, PTL DEF Spec, RevocationFinal

----------------------------------------------------------------------------
(* One request at a time.  What follows holds only then (BorrowedByActive- *)
(* Admin is violated when two requests overlap), but for any number of     *)
(* users and sessions, and with sessions expiring at any moment.           *)

OneAtATime == \A v, w \in Workers : v = w

(* What the request has checked still holds at its later steps. *)
LoneRequest(r) ==
    /\ r.pc = "opening" => state[r.user] = "active"
    /\ r.pc \in StartSteps => sess[r.sid].revoked = NULL
    /\ r.pc \in {"target", "counting", "creating"} => A!ActiveAdmin(sess[r.sid].user)
    /\ r.pc \in {"counting", "creating"} => state[r.user] = "active"
    /\ r.pc = "creating" => LiveImpersonations(sess[r.sid].user) = {}
    /\ r.pc = "revoking_self" => \A c \in Children(r.sid) : ~Active(c)

SignedIn == \A s \in Sids : Active(s) => state[sess[s].user] = "active"

SerialInv ==
    /\ SignedIn /\ BorrowedByActiveAdmin /\ OneImpersonation
    /\ \A w \in Workers : LoneRequest(req[w])

(* No session comes to life. *)
Quieter == \A s \in Sids : Active(s)' => Active(s)

(* Revoking brings none to life, and ends those it is about. *)
LEMMA RevokedQuiets ==
  ASSUME TypeOK, NEW S, NEW why \in Reasons, sess' = Revoked(S, why)
  PROVE  /\ RowStep /\ NothingOpened /\ Quieter
         /\ \A s \in Sids : s \in S => ~Active(s)'
<1>1. RowStep /\ NothingOpened
  BY RevokedRows
<1>2. NULL \notin Reasons
  BY SessionsAssumption
<1>3. ASSUME NEW s \in Sids
      PROVE  /\ Active(s)' => Active(s)
             /\ s \in S => ~Active(s)'
  <2>1. sess[s] \in Rows
    BY DEF TypeOK
  <2>2. CASE s \in S /\ Exists(s) /\ sess[s].revoked = NULL
    <3>1. sess'[s] = [sess[s] EXCEPT !.revoked = why]
      BY <2>2 DEF Revoked
    <3>2. sess'[s].revoked = why /\ why # NULL
      BY <1>2, <2>1, <3>1 DEF Rows
    <3> QED
      BY <2>2, <3>2 DEF Active, Exists
  <2>3. CASE ~(s \in S /\ Exists(s) /\ sess[s].revoked = NULL)
    <3>1. sess'[s] = sess[s]
      BY <2>3 DEF Revoked
    <3> QED
      BY <2>3, <3>1 DEF Active, Exists
  <2> QED
    BY <2>2, <2>3
<1> QED
  BY <1>1, <1>3 DEF Quieter

(* So does minting a refresh token, *)
LEMMA RotatedQuiets ==
  ASSUME TypeOK, NEW s \in Sids, sess[s].kind # "none", sess' = [sess EXCEPT ![s].gen = @ + 1]
  PROVE  RowStep /\ NothingOpened /\ Quieter
<1>1. RowStep /\ NothingOpened
  BY RotatedRows
<1>2. ASSUME NEW x \in Sids
      PROVE  sess'[x].kind = sess[x].kind /\ sess'[x].revoked = sess[x].revoked /\ sess'[x].expired = sess[x].expired
  <2>1. sess[x] \in Rows
    BY DEF TypeOK
  <2>2. sess' = [sess EXCEPT ![s] = [sess[s] EXCEPT !.gen = sess[s].gen + 1]]
    OBVIOUS
  <2>3. sess'[x] = IF x = s THEN [sess[s] EXCEPT !.gen = sess[s].gen + 1] ELSE sess[x]
    BY <2>2 DEF TypeOK
  <2> QED
    BY <2>1, <2>3 DEF Rows
<1> QED
  BY <1>1, <1>2 DEF Quieter, Active, Exists

(* and so does the passing of time. *)
LEMMA ExpiredQuiets ==
  ASSUME TypeOK, NEW s \in Sids, sess[s].kind # "none", sess' = [sess EXCEPT ![s].expired = TRUE]
  PROVE  RowStep /\ NothingOpened /\ Quieter /\ \A x \in Sids : sess'[x].revoked = sess[x].revoked
<1>1. RowStep /\ NothingOpened
  BY ExpiredRows
<1>2. ASSUME NEW x \in Sids
      PROVE  sess'[x].kind = sess[x].kind /\ sess'[x].revoked = sess[x].revoked
             /\ (x # s => sess'[x].expired = sess[x].expired) /\ (x = s => sess'[x].expired)
  <2>1. sess[x] \in Rows
    BY DEF TypeOK
  <2>2. sess' = [sess EXCEPT ![s] = [sess[s] EXCEPT !.expired = TRUE]]
    OBVIOUS
  <2>3. CASE x = s
    <3>1. sess'[x] = [sess[x] EXCEPT !.expired = TRUE]
      BY <2>2, <2>3 DEF TypeOK
    <3>2. sess'[x].kind = sess[x].kind /\ sess'[x].revoked = sess[x].revoked /\ sess'[x].expired = TRUE
      BY <2>1, <3>1 DEF Rows
    <3> QED
      BY <2>3, <3>2
  <2>4. CASE x # s
    <3>1. sess'[x] = sess[x]
      BY <2>2, <2>4 DEF TypeOK
    <3> QED
      BY <2>4, <3>1
  <2> QED
    BY <2>3, <2>4
<1> QED
  BY <1>1, <1>2 DEF Quieter, Active, Exists

(* When nothing is opened or comes to life, every live session and every   *)
(* impersonation was there before, for the same people.                    *)
LEMMA Thinned ==
  ASSUME SessInv, RowStep, NothingOpened, Quieter
  PROVE  /\ \A s \in Sids : /\ sess'[s].kind = sess[s].kind
                            /\ sess[s].kind # "none" =>
                                  /\ sess'[s].user = sess[s].user /\ sess'[s].actor = sess[s].actor
                                  /\ sess'[s].parent = sess[s].parent
         /\ \A p : Children(p)' = Children(p)
         /\ \A u : LiveImpersonations(u)' \subseteq LiveImpersonations(u)
<1>1. \A s \in Sids : /\ sess'[s].kind = sess[s].kind
                      /\ sess[s].kind # "none" =>
                            /\ sess'[s].user = sess[s].user /\ sess'[s].actor = sess[s].actor
                            /\ sess'[s].parent = sess[s].parent
  BY DEF RowStep, NothingOpened
<1>2. \A p : Children(p)' = Children(p)
  BY <1>1 DEF Children, IsImpersonation
<1>3. ASSUME NEW u, NEW s \in Sids, IsImpersonation(s)', Active(s)', sess'[s].actor = u
      PROVE  IsImpersonation(s) /\ Active(s) /\ sess[s].actor = u
  BY <1>1, <1>3 DEF Quieter, IsImpersonation
<1>4. \A u : LiveImpersonations(u)' \subseteq LiveImpersonations(u)
  BY <1>3 DEF LiveImpersonations
<1> QED
  BY <1>1, <1>2, <1>4

(* The accounts behind the live sessions, after a step that opens none. *)
LEMMA LiveKept ==
  ASSUME SessInv, OneImpersonation, RowStep, NothingOpened, Quieter,
         \A s \in Sids : Active(s)' =>
            /\ state'[sess[s].user] = "active"
            /\ sess[s].kind = "impersonation" =>
                  role'[sess[s].actor] = "super_admin" /\ state'[sess[s].actor] = "active"
  PROVE  SignedIn' /\ BorrowedByActiveAdmin' /\ OneImpersonation'
<1>1. \A s \in Sids : /\ sess'[s].kind = sess[s].kind
                      /\ Active(s)' => sess'[s].user = sess[s].user /\ sess'[s].actor = sess[s].actor
  BY Thinned DEF Active, Exists
<1>2. SignedIn'
  BY <1>1 DEF SignedIn
<1>3. BorrowedByActiveAdmin'
  BY <1>1 DEF BorrowedByActiveAdmin, IsImpersonation, A!ActiveAdmin
<1>4. OneImpersonation'
  <2> SUFFICES ASSUME NEW s \in Sids, NEW t \in Sids, s # t,
                      IsImpersonation(s)', Active(s)', IsImpersonation(t)', Active(t)',
                      sess'[t].actor = sess'[s].actor
               PROVE  FALSE
    BY DEF OneImpersonation, LiveImpersonations
  <2>1. /\ IsImpersonation(s) /\ Active(s) /\ IsImpersonation(t) /\ Active(t)
        /\ sess[t].actor = sess[s].actor
    BY <1>1 DEF Quieter, IsImpersonation
  <2> QED
    BY <2>1 DEF OneImpersonation, LiveImpersonations
<1> QED
  BY <1>2, <1>3, <1>4

(* The same when no account changes. *)
LEMMA LiveSame ==
  ASSUME SessInv, SerialInv, RowStep, NothingOpened, Quieter,
         UNCHANGED accountVars
  PROVE  SignedIn' /\ BorrowedByActiveAdmin' /\ OneImpersonation'
<1>1. role' = role /\ state' = state
  BY DEF accountVars
<1>2. \A s \in Sids : Active(s)' =>
            /\ state'[sess[s].user] = "active"
            /\ sess[s].kind = "impersonation" =>
                  role'[sess[s].actor] = "super_admin" /\ state'[sess[s].actor] = "active"
  BY <1>1 DEF Quieter, SerialInv, SignedIn, BorrowedByActiveAdmin, IsImpersonation, A!ActiveAdmin
<1> QED
  BY <1>2, LiveKept DEF SerialInv

(* The request in flight is the only one there is to check. *)
LEMMA LoneOnly ==
  ASSUME OneAtATime, NEW w \in Workers, NEW r, req'[w] = r, LoneRequest(r)'
  PROVE  \A x \in Workers : LoneRequest(req[x])'
<1> SUFFICES ASSUME NEW x \in Workers PROVE LoneRequest(req[x])'
  OBVIOUS
<1>1. req'[x] = r
  BY DEF OneAtATime
<1> QED
  BY <1>1 DEF LoneRequest

(* The steps of an exit, and none, rest on nothing that was checked. *)
LEMMA LoneAnyway ==
  ASSUME NEW r, r.pc \in ExitSteps \cup {"idle", "signing_out", "revoking_parent", "revoking_children"}
  PROVE  LoneRequest(r) /\ LoneRequest(r)'
BY DEF LoneRequest, ExitSteps, StartSteps

(* A request that is one step. *)
LEMMA SerialTable ==
  ASSUME OneAtATime, SessInv, SerialInv, NEW w \in Workers, req[w].pc = "idle", req' = req,
         SignedIn', BorrowedByActiveAdmin', OneImpersonation'
  PROVE  SerialInv'
<1>1. PICK r : r = req[w]
  OBVIOUS
<1>2. LoneRequest(r)'
  BY <1>1, LoneAnyway
<1>3. \A x \in Workers : LoneRequest(req[x])'
  BY <1>1, <1>2, LoneOnly
<1> QED
  BY <1>3 DEF SerialInv

(* A step that only moves the request on. *)
LEMMA SerialMove ==
  ASSUME OneAtATime, SessInv, SerialInv, NEW w \in Workers, UNCHANGED <<accountVars, sess>>,
         NEW r, req'[w] = r, LoneRequest(r)
  PROVE  SerialInv'
<1>1. role' = role /\ state' = state /\ sess' = sess
  BY DEF accountVars
<1>2. RowStep /\ NothingOpened
  BY <1>1, SameRows DEF SessInv
<1>3. Quieter
  BY <1>1 DEF Quieter, Active, Exists
<1>4. SignedIn' /\ BorrowedByActiveAdmin' /\ OneImpersonation'
  BY <1>2, <1>3, LiveSame
<1>7. LoneRequest(r)'
  BY <1>1 DEF LoneRequest, A!ActiveAdmin, LiveImpersonations, Children, IsImpersonation, Active, Exists
<1>8. \A x \in Workers : LoneRequest(req[x])'
  BY <1>7, LoneOnly
<1> QED
  BY <1>4, <1>8 DEF SerialInv

(* A step that brings no session to life, and leaves nothing to check. *)
LEMMA SerialQuiet ==
  ASSUME OneAtATime, SessInv, SerialInv, NEW w \in Workers, UNCHANGED accountVars,
         RowStep, NothingOpened, Quieter,
         NEW r, req'[w] = r, r.pc \in ExitSteps \cup {"idle", "revoking_children"}
  PROVE  SerialInv'
<1>1. SignedIn' /\ BorrowedByActiveAdmin' /\ OneImpersonation'
  BY LiveSame
<1>2. \A x \in Workers : LoneRequest(req[x])'
  BY LoneAnyway, LoneOnly
<1> QED
  BY <1>1, <1>2 DEF SerialInv

(* Administrators change an account: its sessions go with it. *)
LEMMA SerialAccounts ==
  ASSUME OneAtATime, SessInv, SerialInv, NEW w \in Workers,
         \/ \E u \in Managed, s \in A!Statuses : SetUserStatus(w, u, s)
         \/ \E u \in Managed, n \in A!Roles : ChangeRole(w, u, n)
  PROVE  SerialInv'
<1>0. TypeOK
  BY DEF SessInv
<1>1. ASSUME NEW s \in Sids, Active(s)
      PROVE  /\ sess[s].user \in Users /\ state[sess[s].user] = "active"
             /\ sess[s].kind = "impersonation" =>
                   /\ sess[s].actor \in Users
                   /\ role[sess[s].actor] = "super_admin" /\ state[sess[s].actor] = "active"
  <2>1. sess[s] \in Rows /\ WellShaped(sess[s]) /\ sess[s].kind # "none"
    BY <1>0, <1>1 DEF TypeOK, Active, Exists
  <2>2. sess[s].user \in Users /\ (sess[s].kind = "impersonation" => sess[s].actor \in Users)
    BY <2>1 DEF WellShaped, Rows
  <2> QED
    BY <1>1, <2>2 DEF SerialInv, SignedIn, BorrowedByActiveAdmin, IsImpersonation, A!ActiveAdmin
<1>2. ASSUME NEW u \in Managed, NEW st \in A!Statuses, SetUserStatus(w, u, st) PROVE SerialInv'
  <2>1. /\ req[w].pc = "idle" /\ req' = req /\ role' = role
        /\ sess' = IF st = "suspended" THEN Revoked(SessionsOf(u), "removed") ELSE sess
        /\ u \in Users /\ state' \in [Users -> A!Statuses]
        /\ state'[u] = st /\ \A v \in Users \ {u} : state'[v] = state[v]
    BY <1>0, <1>2, SessionsAssumption DEF SetUserStatus, A!SetUserStatus, TypeOK
  <2>2. /\ RowStep /\ NothingOpened /\ Quieter
        /\ \A s \in Sids : Active(s)' => Active(s) /\ (st = "suspended" => s \notin SessionsOf(u))
    <3>1. CASE st = "suspended"
      <4>1. sess' = Revoked(SessionsOf(u), "removed") /\ "removed" \in Reasons
        BY <2>1, <3>1 DEF Reasons
      <4> QED
        BY <1>0, <3>1, <4>1, RevokedQuiets DEF Quieter
    <3>2. CASE st # "suspended"
      BY <1>0, <2>1, <3>2, SameRows DEF Quieter, Active, Exists
    <3> QED
      BY <3>1, <3>2
  <2>3. ASSUME NEW s \in Sids, Active(s)'
        PROVE  /\ state'[sess[s].user] = "active"
               /\ sess[s].kind = "impersonation" =>
                     role'[sess[s].actor] = "super_admin" /\ state'[sess[s].actor] = "active"
    <3>1. CASE st = "suspended"
      <4>1. sess[s].user # u /\ sess[s].actor # u
        BY <2>2, <2>3, <3>1 DEF SessionsOf
      <4> QED
        BY <1>1, <2>1, <2>2, <2>3, <4>1
    <3>2. CASE st = "active"
      BY <1>1, <2>1, <2>2, <2>3, <3>2
    <3> QED
      BY <3>1, <3>2 DEF A!Statuses
  <2>4. SignedIn' /\ BorrowedByActiveAdmin' /\ OneImpersonation'
    BY <2>2, <2>3, LiveKept DEF SerialInv
  <2> QED
    BY <2>1, <2>2, <2>4, SerialTable
<1>3. ASSUME NEW u \in Managed, NEW n \in A!Roles, ChangeRole(w, u, n) PROVE SerialInv'
  <2>1. /\ req[w].pc = "idle" /\ req' = req /\ state' = state
        /\ sess' = IF role[u] = "super_admin" /\ n # "super_admin"
                   THEN Revoked(SessionsOf(u), "removed") ELSE sess
        /\ u \in Users /\ role'[u] = n /\ \A v \in Users \ {u} : role'[v] = role[v]
    BY <1>0, <1>3, SessionsAssumption DEF ChangeRole, A!ChangeRole, TypeOK
  <2>2. /\ RowStep /\ NothingOpened /\ Quieter
        /\ \A s \in Sids : Active(s)' => /\ Active(s)
                                         /\ role[u] = "super_admin" /\ n # "super_admin" => s \notin SessionsOf(u)
    <3>1. CASE role[u] = "super_admin" /\ n # "super_admin"
      <4>1. sess' = Revoked(SessionsOf(u), "removed") /\ "removed" \in Reasons
        BY <2>1, <3>1 DEF Reasons
      <4> QED
        BY <1>0, <3>1, <4>1, RevokedQuiets DEF Quieter
    <3>2. CASE ~(role[u] = "super_admin" /\ n # "super_admin")
      BY <1>0, <2>1, <3>2, SameRows DEF Quieter, Active, Exists
    <3> QED
      BY <3>1, <3>2
  <2>3. ASSUME NEW s \in Sids, Active(s)'
        PROVE  /\ state'[sess[s].user] = "active"
               /\ sess[s].kind = "impersonation" =>
                     role'[sess[s].actor] = "super_admin" /\ state'[sess[s].actor] = "active"
    <3>1. CASE sess[s].actor = u
      <4>1. s \in SessionsOf(u)
        BY <3>1 DEF SessionsOf
      <4>2. ~(role[u] = "super_admin" /\ n # "super_admin")
        BY <2>2, <2>3, <4>1
      <4> QED
        BY <1>1, <2>1, <2>2, <2>3, <3>1, <4>2
    <3>2. CASE sess[s].actor # u
      BY <1>1, <2>1, <2>2, <2>3, <3>2
    <3> QED
      BY <3>1, <3>2
  <2>4. SignedIn' /\ BorrowedByActiveAdmin' /\ OneImpersonation'
    BY <2>2, <2>3, LiveKept DEF SerialInv
  <2> QED
    BY <2>1, <2>2, <2>4, SerialTable
<1> QED
  BY <1>2, <1>3

(* Requests arriving. *)
LEMMA SerialArrive ==
  ASSUME OneAtATime, SessInv, SerialInv, NEW w \in Workers, Arrive(w)
  PROVE  SerialInv'
<1>0. TypeOK /\ req \in [Workers -> Requests]
  BY DEF SessInv, TypeOK
<1>1. ASSUME NEW S, NEW why \in Reasons \ {"logout"}, sess' = Revoked(S, why),
             req[w].pc = "idle", req' = req, UNCHANGED accountVars
      PROVE  SerialInv'
  <2>1. RowStep /\ NothingOpened /\ Quieter
    BY <1>0, <1>1, RevokedQuiets
  <2> QED
    BY <1>1, <2>1, LiveSame, SerialTable
<1>2. ASSUME NEW u \in Managed, RevokeInvitation(w, u) PROVE SerialInv'
  BY <1>1, <1>2 DEF RevokeInvitation, Reasons, accountVars
<1>3. ASSUME NEW s \in Sids, RotateReplay(w, s) PROVE SerialInv'
  BY <1>1, <1>3 DEF RotateReplay, Reasons, accountVars
<1>4. ASSUME NEW s \in Sids, Rotate(w, s) PROVE SerialInv'
  <2>1. /\ sess[s].kind # "none" /\ sess' = [sess EXCEPT ![s].gen = @ + 1]
        /\ req[w].pc = "idle" /\ req' = req /\ UNCHANGED accountVars
    BY <1>4 DEF Rotate, Active, Exists, accountVars
  <2>2. RowStep /\ NothingOpened /\ Quieter
    BY <1>0, <2>1, RotatedQuiets
  <2> QED
    BY <2>1, <2>2, LiveSame, SerialTable
<1>5. ASSUME NEW pc \in Steps, NEW s, NEW u, Start(w, pc, s, u), UNCHANGED <<accountVars, sess>>,
             LoneRequest([pc |-> pc, sid |-> s, user |-> u])
      PROVE  SerialInv'
  <2>1. req'[w] = [pc |-> pc, sid |-> s, user |-> u] /\ req[w].pc = "idle"
    BY <1>0, <1>5 DEF Start
  <2>2. PICK r : r = [pc |-> pc, sid |-> s, user |-> u]
    OBVIOUS
  <2> QED
    BY <1>5, <2>1, <2>2, SerialMove
<1>6. ASSUME NEW u \in Logins, Login(w, u) PROVE SerialInv'
  <2>1. LoneRequest([pc |-> "opening", sid |-> NULL, user |-> u])
    BY <1>6 DEF Login, LoneRequest, StartSteps
  <2> QED
    BY <1>5, <1>6, <2>1 DEF Login, Steps
<1>7. ASSUME NEW s \in Sids, Logout(w, s) PROVE SerialInv'
  <2>1. LoneRequest([pc |-> "signing_out", sid |-> s, user |-> NULL])
    BY LoneAnyway
  <2> QED
    BY <1>5, <1>7, <2>1 DEF Logout, Steps
<1>8. ASSUME NEW s \in Sids, ExitImpersonation(w, s) PROVE SerialInv'
  <2>1. LoneRequest([pc |-> "parent", sid |-> s, user |-> NULL])
    BY LoneAnyway DEF ExitSteps
  <2> QED
    BY <1>5, <1>8, <2>1 DEF ExitImpersonation, Steps
<1>9. ASSUME NEW s \in Sids, NEW t \in Users, StartImpersonation(w, s, t) PROVE SerialInv'
  <2>1. LoneRequest([pc |-> "caller", sid |-> s, user |-> t])
    BY <1>9 DEF StartImpersonation, LoneRequest, Active
  <2> QED
    BY <1>5, <1>9, <2>1 DEF StartImpersonation, Steps
<1> QED
  BY <1>2, <1>3, <1>4, <1>6, <1>7, <1>8, <1>9, SerialAccounts DEF Arrive

(* A session is opened for the request that ends with it. *)
LEMMA SerialOpen ==
  ASSUME OneAtATime, SessInv, SerialInv, NEW w \in Workers, UNCHANGED accountVars, Finish(w),
         NEW s \in Sids, sess[s].kind = "none", NEW row \in Rows, sess' = [sess EXCEPT ![s] = row],
         row.revoked = NULL, state[row.user] = "active",
         row.kind = "impersonation" =>
            /\ A!ActiveAdmin(row.actor) /\ LiveImpersonations(row.actor) = {}
  PROVE  SerialInv'
<1>1. sess'[s] = row /\ \A x \in Sids \ {s} : sess'[x] = sess[x]
  BY DEF SessInv, TypeOK
<1>2. role' = role /\ state' = state
  BY DEF accountVars
<1>3. req'[w] = Idle /\ Idle.pc = "idle"
  BY DEF Finish, SessInv, TypeOK, Idle
<1>4. \A x \in Sids \ {s} : (Active(x)' <=> Active(x)) /\ (IsImpersonation(x)' <=> IsImpersonation(x))
  BY <1>1 DEF Active, Exists, IsImpersonation
<1>5. IsImpersonation(s)' => row.kind = "impersonation"
  BY <1>1 DEF IsImpersonation
<1>6. SignedIn'
  <2> SUFFICES ASSUME NEW x \in Sids, Active(x)' PROVE state[sess'[x].user] = "active"
    BY <1>2 DEF SignedIn
  <2>1. CASE x = s
    BY <1>1, <2>1
  <2>2. CASE x # s
    BY <1>1, <1>4, <2>2 DEF SerialInv, SignedIn
  <2> QED
    BY <2>1, <2>2
<1>7. BorrowedByActiveAdmin'
  <2> SUFFICES ASSUME NEW x \in Sids, Active(x)', IsImpersonation(x)' PROVE A!ActiveAdmin(sess'[x].actor)
    BY <1>2 DEF BorrowedByActiveAdmin, A!ActiveAdmin
  <2>1. CASE x = s
    BY <1>1, <1>5, <2>1
  <2>2. CASE x # s
    BY <1>1, <1>4, <2>2 DEF SerialInv, BorrowedByActiveAdmin
  <2> QED
    BY <2>1, <2>2
<1>8. OneImpersonation'
  <2> SUFFICES ASSUME NEW x \in Sids, NEW y \in Sids, x # y,
                      IsImpersonation(x)', Active(x)', IsImpersonation(y)', Active(y)',
                      sess'[y].actor = sess'[x].actor
               PROVE  FALSE
    BY DEF OneImpersonation, LiveImpersonations
  <2>1. CASE x = s
    <3>1. y \in LiveImpersonations(row.actor)
      BY <1>1, <1>4, <2>1 DEF LiveImpersonations
    <3> QED
      BY <1>5, <2>1, <3>1
  <2>2. CASE y = s
    <3>1. x \in LiveImpersonations(row.actor)
      BY <1>1, <1>4, <2>2 DEF LiveImpersonations
    <3> QED
      BY <1>5, <2>2, <3>1
  <2>3. CASE x # s /\ y # s
    BY <1>1, <1>4, <2>3 DEF SerialInv, OneImpersonation, LiveImpersonations
  <2> QED
    BY <2>1, <2>2, <2>3
<1>9. \A x \in Workers : LoneRequest(req[x])'
  BY <1>3, LoneAnyway, LoneOnly
<1> QED
  BY <1>6, <1>7, <1>8, <1>9 DEF SerialInv

(* A check of StartImpersonation, passed or not. *)
LEMMA SerialCheck ==
  ASSUME OneAtATime, SessInv, SerialInv, NEW w \in Workers, req[w].pc \in StartSteps,
         NEW to \in StartSteps, NEW ok, Check(w, ok, to),
         ok => \A r \in Requests : r.pc = to /\ r.sid = req[w].sid /\ r.user = req[w].user => LoneRequest(r)
  PROVE  SerialInv'
<1>1. UNCHANGED <<accountVars, sess>>
  BY DEF Check
<1>2. CASE ok
  <2>1. to \in Steps /\ Goto(w, to)
    BY <1>2 DEF StartSteps, Steps, Check
  <2>2. PICK r \in Requests : /\ req' = [req EXCEPT ![w] = r]
                              /\ r.pc = to /\ r.sid = req[w].sid /\ r.user = req[w].user
    BY <2>1, GotoRecord
  <2>3. req'[w] = r /\ LoneRequest(r)
    BY <1>2, <2>2 DEF SessInv, TypeOK
  <2> QED
    BY <1>1, <2>3, SerialMove
<1>3. CASE ~ok
  <2>1. req'[w] = Idle /\ Idle.pc = "idle"
    BY <1>3 DEF Check, Finish, SessInv, TypeOK, Idle
  <2>2. LoneRequest(Idle)
    BY <2>1, LoneAnyway
  <2> QED
    BY <1>1, <2>1, <2>2, SerialMove
<1> QED
  BY <1>2, <1>3

(* The three statements of a sign-out that revoke. *)
LEMMA SerialLogout ==
  ASSUME OneAtATime, SessInv, SerialInv, NEW w \in Workers,
         LogoutParent(w) \/ LogoutChildren(w) \/ LogoutSelf(w)
  PROVE  SerialInv'
<1>0. TypeOK /\ req \in [Workers -> Requests]
  BY DEF SessInv, TypeOK
<1>1. PICK q : q = req[w] /\ LoneRequest(q) /\ q \in Requests
  BY DEF SerialInv, SessInv, TypeOK
<1>2. UNCHANGED accountVars
  BY DEF LogoutParent, LogoutChildren, LogoutSelf
<1>3. ASSUME NEW S, NEW why \in Reasons, sess' = Revoked(S, why)
      PROVE  /\ RowStep /\ NothingOpened
             /\ Quieter /\ \A x \in Sids : x \in S => ~Active(x)'
  BY <1>0, <1>3, RevokedQuiets
<1>4. CASE LogoutParent(w)
  <2>1. /\ sess' = Revoked({sess[q.sid].parent}, "logout") /\ "logout" \in Reasons
        /\ Goto(w, "revoking_children") /\ "revoking_children" \in Steps
    BY <1>1, <1>4 DEF LogoutParent, Reasons, Steps
  <2>2. PICK r \in Requests : req' = [req EXCEPT ![w] = r] /\ r.pc = "revoking_children"
    BY <2>1, GotoRecord
  <2>3. req'[w] = r
    BY <1>0, <2>2
  <2>4. RowStep /\ NothingOpened /\ Quieter
    BY <1>3, <2>1
  <2> QED
    BY <1>2, <2>2, <2>3, <2>4, SerialQuiet
<1>5. CASE LogoutChildren(w)
  <2>1. PICK s : s = q.sid
    OBVIOUS
  <2>2. /\ sess' = Revoked(Children(s), "parent_logout") /\ "parent_logout" \in Reasons
        /\ Goto(w, "revoking_self") /\ "revoking_self" \in Steps
    BY <1>1, <1>5, <2>1 DEF LogoutChildren, Reasons, Steps
  <2>3. PICK r \in Requests : req' = [req EXCEPT ![w] = r] /\ r.pc = "revoking_self" /\ r.sid = s
    BY <1>1, <2>1, <2>2, GotoRecord
  <2>4. req'[w] = r
    BY <1>0, <2>3
  <2>5. /\ RowStep /\ NothingOpened
        /\ Quieter /\ \A x \in Sids : x \in Children(s) => ~Active(x)'
    BY <1>3, <2>2
  <2>6. SignedIn' /\ BorrowedByActiveAdmin' /\ OneImpersonation'
    BY <1>2, <2>5, LiveSame
  <2>7. Children(s)' = Children(s) /\ Children(s) \subseteq Sids
    BY <2>5, Thinned DEF Children
  <2>8. LoneRequest(r)'
    BY <2>3, <2>5, <2>7 DEF LoneRequest, StartSteps
  <2>9. \A x \in Workers : LoneRequest(req[x])'
    BY <2>4, <2>8, LoneOnly
  <2> QED
    BY <2>6, <2>9 DEF SerialInv
<1>6. CASE LogoutSelf(w)
  <2>1. /\ sess' = Revoked({q.sid}, "logout") /\ "logout" \in Reasons
        /\ req'[w] = Idle /\ Idle.pc = "idle"
    BY <1>0, <1>1, <1>6 DEF LogoutSelf, Reasons, Finish, Idle
  <2>2. RowStep /\ NothingOpened /\ Quieter
    BY <1>3, <2>1
  <2> QED
    BY <1>2, <2>1, <2>2, SerialQuiet
<1> QED
  BY <1>4, <1>5, <1>6

(* The steps of the request in flight. *)
LEMMA SerialProgress ==
  ASSUME OneAtATime, SessInv, SerialInv, NEW w \in Workers, Progress(w)
  PROVE  SerialInv'
<1>0. TypeOK /\ req \in [Workers -> Requests]
  BY DEF SessInv, TypeOK
<1>1. PICK q : q = req[w] /\ LoneRequest(q) /\ q \in Requests /\ Established(q)
  BY DEF SerialInv, SessInv, TypeOK
<1>2. ASSUME openSession(w) PROVE SerialInv'
  <2>1. q.pc = "opening" /\ Finish(w) /\ UNCHANGED accountVars
    BY <1>1, <1>2 DEF openSession
  <2> DEFINE row == [NoRow EXCEPT !.kind = "normal", !.user = q.user]
  <2>2. PICK s \in Sids : sess[s].kind = "none" /\ sess' = [sess EXCEPT ![s] = row]
    BY <1>1, <1>2 DEF openSession, Exists
  <2>3. row \in Rows /\ row.kind = "normal" /\ row.user = q.user /\ row.revoked = NULL
    BY <1>1, <2>1 DEF NoRow, Rows, Established
  <2> HIDE DEF row
  <2>4. state[row.user] = "active"
    BY <1>1, <2>1, <2>3 DEF LoneRequest
  <2> QED
    BY <1>1, <2>1, <2>2, <2>3, <2>4, SerialOpen
<1>3. ASSUME CreateImpersonation(w) PROVE SerialInv'
  <2>1. q.pc = "creating" /\ Finish(w) /\ UNCHANGED accountVars
    BY <1>1, <1>3 DEF CreateImpersonation
  <2>2. /\ q.sid \in Sids /\ q.user \in Users /\ sess[q.sid].kind = "normal"
        /\ sess[q.sid].revoked = NULL /\ A!ActiveAdmin(sess[q.sid].user) /\ state[q.user] = "active"
        /\ LiveImpersonations(sess[q.sid].user) = {}
    BY <1>1, <2>1 DEF Established, LoneRequest, StartSteps
  <2>3. sess[q.sid].user \in Users
    BY <1>0, <2>2 DEF TypeOK, WellShaped
  <2> DEFINE row == [NoRow EXCEPT !.kind = "impersonation", !.user = q.user,
                                  !.actor = sess[q.sid].user, !.parent = q.sid]
  <2>4. PICK s \in Sids : sess[s].kind = "none" /\ sess' = [sess EXCEPT ![s] = row]
    BY <1>1, <1>3 DEF CreateImpersonation, Exists
  <2>5. /\ row \in Rows /\ row.user = q.user /\ row.revoked = NULL
        /\ row.actor = sess[q.sid].user /\ row.parent = q.sid
    BY <2>2, <2>3 DEF NoRow, Rows
  <2> HIDE DEF row
  <2>6. row.parent \in Sids \ {s}
    BY <2>2, <2>4, <2>5
  <2>7. /\ state[row.user] = "active" /\ A!ActiveAdmin(row.actor) /\ LiveImpersonations(row.actor) = {}
        /\ sess[row.parent].revoked = NULL
    BY <2>2, <2>5
  <2> QED
    BY <1>1, <2>1, <2>4, <2>5, <2>6, <2>7, SerialOpen
<1>4. ASSUME CheckCaller(w) PROVE SerialInv'
  <2>1. q.pc = "caller" /\ Check(w, A!ActiveAdmin(sess[q.sid].user), "target")
    BY <1>1, <1>4 DEF CheckCaller
  <2>2. ASSUME A!ActiveAdmin(sess[q.sid].user), NEW r \in Requests, r.pc = "target", r.sid = q.sid, r.user = q.user
        PROVE  LoneRequest(r)
    BY <1>1, <2>1, <2>2 DEF LoneRequest, StartSteps
  <2>3. "caller" \in StartSteps /\ "target" \in StartSteps
    BY DEF StartSteps
  <2> QED
    BY <1>1, <2>1, <2>2, <2>3, SerialCheck
<1>5. ASSUME CheckTarget(w) PROVE SerialInv'
  <2>1. /\ q.pc = "target"
        /\ Check(w, role[q.user] = "organizer" /\ state[q.user] = "active", "counting")
    BY <1>1, <1>5 DEF CheckTarget
  <2>2. ASSUME role[q.user] = "organizer" /\ state[q.user] = "active",
               NEW r \in Requests, r.pc = "counting", r.sid = q.sid, r.user = q.user
        PROVE  LoneRequest(r)
    BY <1>1, <2>1, <2>2 DEF LoneRequest, StartSteps
  <2>3. "target" \in StartSteps /\ "counting" \in StartSteps
    BY DEF StartSteps
  <2> QED
    BY <1>1, <2>1, <2>2, <2>3, SerialCheck
<1>6. ASSUME CheckLive(w) PROVE SerialInv'
  <2>1. q.pc = "counting" /\ Check(w, LiveImpersonations(sess[q.sid].user) = {}, "creating")
    BY <1>1, <1>6 DEF CheckLive
  <2>2. ASSUME LiveImpersonations(sess[q.sid].user) = {},
               NEW r \in Requests, r.pc = "creating", r.sid = q.sid, r.user = q.user
        PROVE  LoneRequest(r)
    BY <1>1, <2>1, <2>2 DEF LoneRequest, StartSteps
  <2>3. "counting" \in StartSteps /\ "creating" \in StartSteps
    BY DEF StartSteps
  <2> QED
    BY <1>1, <2>1, <2>2, <2>3, SerialCheck
<1>7. ASSUME NEW to \in Steps, Goto(w, to)
      PROVE  \E r \in Requests : req'[w] = r /\ r.pc = to /\ r.sid = q.sid
  BY <1>0, <1>1, <1>7, GotoRecord
<1>8. ASSUME LogoutFind(w) PROVE SerialInv'
  <2>1. /\ UNCHANGED <<accountVars, sess>>
        /\ Goto(w, "revoking_parent") \/ Goto(w, "revoking_children")
    BY <1>8 DEF LogoutFind
  <2>2. PICK r \in Requests : req'[w] = r /\ r.pc \in {"revoking_parent", "revoking_children"}
    BY <1>7, <2>1 DEF Steps
  <2> QED
    BY <2>1, <2>2, LoneAnyway, SerialMove
<1>9. ASSUME ExitFindParent(w) \/ ExitCheckAdmin(w) PROVE SerialInv'
  <2>1. /\ UNCHANGED <<accountVars, sess>>
        /\ Goto(w, "admin") \/ Goto(w, "exiting") \/ Goto(w, "abandoning")
    BY <1>9 DEF ExitFindParent, ExitCheckAdmin
  <2>2. PICK r \in Requests : req'[w] = r /\ r.pc \in ExitSteps
    BY <1>7, <2>1 DEF Steps, ExitSteps
  <2> QED
    BY <1>1, <2>1, <2>2, LoneAnyway, SerialMove
<1>10. ASSUME ExitAbandon(w) \/ ExitRevoke(w) PROVE SerialInv'
  <2>1. /\ q.pc \in {"abandoning", "exiting"} /\ UNCHANGED accountVars
        /\ sess' = Revoked({q.sid}, "impersonation_ended") /\ "impersonation_ended" \in Reasons
    BY <1>1, <1>10 DEF ExitAbandon, ExitRevoke, Reasons
  <2>2. RowStep /\ NothingOpened /\ Quieter
    BY <1>0, <2>1, RevokedQuiets
  <2>3. PICK r : req'[w] = r /\ r.pc \in ExitSteps \cup {"idle"}
    <3>1. CASE ExitAbandon(w)
      BY <1>0, <3>1 DEF ExitAbandon, Finish, Idle
    <3>2. CASE ExitRevoke(w)
      BY <1>7, <3>2 DEF ExitRevoke, Steps, ExitSteps
    <3> QED
      BY <1>10, <3>1, <3>2
  <2> QED
    BY <1>1, <2>1, <2>2, <2>3, SerialQuiet
<1>11. ASSUME ExitRotateParent(w) PROVE SerialInv'
  <2>1. /\ q.pc = "restoring" /\ UNCHANGED accountVars /\ req'[w] = Idle /\ Idle.pc = "idle"
        /\ sess' = [sess EXCEPT ![ParentOf(w)].gen = @ + 1]
    BY <1>0, <1>1, <1>11 DEF ExitRotateParent, Finish, Idle
  <2>2. q.sid \in Sids /\ sess[q.sid].kind = "impersonation"
    BY <1>1, <2>1 DEF Established, ExitSteps
  <2>3. ParentOf(w) \in Sids /\ sess[ParentOf(w)].kind # "none"
    BY <1>0, <1>1, <2>2 DEF TypeOK, WellShaped, ParentOf, SessInv, NoNesting, IsImpersonation
  <2>4. RowStep /\ NothingOpened /\ Quieter
    BY <1>0, <2>1, <2>3, RotatedQuiets
  <2> QED
    BY <1>1, <2>1, <2>4, SerialQuiet
<1> QED
  BY <1>2, <1>3, <1>4, <1>5, <1>6, <1>8, <1>9, <1>10, <1>11, SerialLogout DEF Progress

(* Every step, and none, keeps the invariant of the lone request. *)
LEMMA SerialStep ==
  ASSUME OneAtATime
  PROVE  SessInv /\ SerialInv /\ [Next]_vars => SerialInv'
<1> SUFFICES ASSUME SessInv, SerialInv, [Next]_vars PROVE SerialInv'
  OBVIOUS
<1>0. TypeOK
  BY DEF SessInv
<1>1. ASSUME RowStep, NothingOpened, Quieter, \A x \in Sids : sess'[x].revoked = sess[x].revoked,
             UNCHANGED accountVars, req' = req
      PROVE  SerialInv'
  <2>1. \A x \in Sids : Active(x)' => Active(x)
    BY <1>1 DEF Quieter, Active, Exists
  <2>2. SignedIn' /\ BorrowedByActiveAdmin' /\ OneImpersonation'
    BY <1>1, LiveSame
  <2>3. role' = role /\ state' = state
    BY <1>1 DEF accountVars
  <2>4. (\A p : Children(p)' = Children(p)) /\ \A u : LiveImpersonations(u)' \subseteq LiveImpersonations(u)
    BY <1>1, <2>1, Thinned
  <2>5. ASSUME NEW w \in Workers PROVE LoneRequest(req[w])'
    <3>1. PICK r : r = req[w] /\ LoneRequest(r) /\ Established(r)
      BY DEF SerialInv, SessInv
    <3>2. r.pc = "opening" => state'[r.user] = "active"
      BY <2>3, <3>1 DEF LoneRequest
    <3>3. r.pc \in StartSteps => /\ sess'[r.sid].revoked = NULL /\ sess'[r.sid].user = sess[r.sid].user
      BY <1>1, <3>1 DEF LoneRequest, Established, RowStep
    <3>4. /\ r.pc \in {"target", "counting", "creating"} => A!ActiveAdmin(sess'[r.sid].user)
          /\ r.pc \in {"counting", "creating"} => state'[r.user] = "active"
          /\ r.pc = "creating" => LiveImpersonations(sess'[r.sid].user) = {}
      BY <2>3, <3>1, <3>3 DEF LoneRequest, StartSteps
    <3>5. ASSUME r.pc = "creating" PROVE LiveImpersonations(sess[r.sid].user)' = {}
      <4>1. PICK u : u = sess[r.sid].user
        OBVIOUS
      <4>2. sess'[r.sid].user = u /\ LiveImpersonations(u) = {}
        BY <3>3, <3>4, <3>5, <4>1 DEF StartSteps
      <4>3. LiveImpersonations(u)' = {}
        BY <2>4, <4>2
      <4> QED
        BY <4>2, <4>3 DEF LiveImpersonations
    <3>7. ASSUME r.pc = "revoking_self" PROVE \A c \in Children(r.sid)' : ~Active(c)'
      <4>1. \A c \in Children(r.sid)' : c \in Children(r.sid) /\ c \in Sids
        BY <2>4 DEF Children
      <4> QED
        BY <2>1, <3>1, <3>7, <4>1 DEF LoneRequest
    <3>8. A!ActiveAdmin(sess'[r.sid].user) => A!ActiveAdmin(sess[r.sid].user)'
      BY <2>3 DEF A!ActiveAdmin
    <3>9. LoneRequest(r)'
      BY <3>2, <3>3, <3>4, <3>5, <3>7, <3>8 DEF LoneRequest
    <3> QED
      BY <1>1, <3>1, <3>9 DEF LoneRequest
  <2> QED
    BY <2>2, <2>5 DEF SerialInv
<1>2. ASSUME NEW s \in Sids, Expire(s) PROVE SerialInv'
  <2>1. /\ sess[s].kind # "none" /\ sess' = [sess EXCEPT ![s].expired = TRUE]
        /\ req' = req /\ UNCHANGED accountVars
    BY <1>2 DEF Expire, Exists, accountVars
  <2>2. RowStep /\ NothingOpened /\ Quieter /\ \A x \in Sids : sess'[x].revoked = sess[x].revoked
    BY <1>0, <2>1, ExpiredQuiets
  <2> QED
    BY <1>1, <2>1, <2>2
<1>3. CASE UNCHANGED vars
  <2>1. sess' = sess /\ req' = req /\ UNCHANGED accountVars
    BY <1>3 DEF vars, accountVars
  <2>2. RowStep /\ NothingOpened /\ Quieter
    BY <1>0, <2>1, SameRows DEF Quieter, Active, Exists
  <2> QED
    BY <1>1, <2>1, <2>2
<1>4. ASSUME NEW w \in Workers, Fail(w) PROVE SerialInv'
  <2>1. UNCHANGED <<accountVars, sess>> /\ req'[w] = Idle /\ Idle.pc = "idle"
    BY <1>4 DEF Fail, Finish, SessInv, TypeOK, Idle
  <2> QED
    BY <2>1, LoneAnyway, SerialMove
<1> QED
  BY <1>2, <1>3, <1>4, SerialArrive, SerialProgress DEF Next

(* Nobody is signed in at the start. *)
LEMMA SerialInit == Init => SerialInv
<1> SUFFICES ASSUME Init PROVE SerialInv
  OBVIOUS
<1>1. \A s \in Sids : ~Active(s) /\ sess[s].revoked = NULL
  BY DEF Init, NoRow, Active, Exists
<1>3. \A w \in Workers : LoneRequest(req[w])
  <2> SUFFICES ASSUME NEW w \in Workers PROVE LoneRequest(req[w])
    OBVIOUS
  <2>1. req[w].pc = "idle"
    BY DEF Init, Idle
  <2> QED
    BY <2>1, LoneAnyway
<1> QED
  BY <1>1, <1>3 DEF SerialInv, SignedIn, BorrowedByActiveAdmin, OneImpersonation, LiveImpersonations

(* The invariants of the lone request hold. *)
LEMMA SerialHolds ==
  ASSUME OneAtATime
  PROVE  Spec => []SerialInv
BY SessInit, SessStep, SerialInit, SerialStep, PTL DEF Spec

(* One request at a time, a suspended account holds no live session,       *)
(* neither as itself nor under a borrowed identity (SetUserStatus with     *)
(* RevokeAllForUser).                                                      *)
THEOREM SuspensionSignsOut ==
  ASSUME OneAtATime
  PROVE  Spec => []SuspendedSignedOut
<1>1. SerialInv => SuspendedSignedOut
  BY DEF SerialInv, SignedIn, SuspendedSignedOut
<1> QED
  BY <1>1, SerialHolds, PTL

(* One request at a time, a live impersonation has an active super admin   *)
(* behind it: suspending or demoting the admin ends it.                    *)
THEOREM BorrowersStayAdmins ==
  ASSUME OneAtATime
  PROVE  Spec => []BorrowedByActiveAdmin
<1>1. SerialInv => BorrowedByActiveAdmin
  BY DEF SerialInv
<1> QED
  BY <1>1, SerialHolds, PTL

(* One request at a time, a super admin has at most one live impersonation *)
(* (StartImpersonation's count).                                           *)
THEOREM OneImpersonationEach ==
  ASSUME OneAtATime
  PROVE  Spec => []OneImpersonation
<1>1. SerialInv => OneImpersonation
  BY DEF SerialInv
<1> QED
  BY <1>1, SerialHolds, PTL

(* One request at a time, a sign-out that reports success has ended its    *)
(* session and every impersonation opened from it, however many requests   *)
(* failed half way before (Logout's order of statements, and its return on *)
(* the first error).                                                       *)
THEOREM SignOutIsComplete ==
  ASSUME OneAtATime
  PROVE  Spec => SignOutComplete
<1>1. ASSUME SessInv, SerialInv, NEW w \in Workers, LogoutSelf(w)
      PROVE  \A s \in {req[w].sid} \cup Children(req[w].sid) : ~Active(s)'
  <2>1. PICK q : q = req[w] /\ LoneRequest(q) /\ Established(q)
    BY <1>1 DEF SerialInv, SessInv
  <2>2. /\ q.pc = "revoking_self" /\ q.sid \in Sids
        /\ sess' = Revoked({q.sid}, "logout") /\ "logout" \in Reasons
    BY <1>1, <2>1 DEF LogoutSelf, Reasons, Established, LogoutSteps
  <2>3. TypeOK
    BY <1>1 DEF SessInv
  <2>4. PICK S : S = {q.sid}
    OBVIOUS
  <2>5. sess' = Revoked(S, "logout")
    BY <2>2, <2>4
  <2>6. Quieter /\ \A s \in Sids : s \in S => ~Active(s)'
    BY <2>2, <2>3, <2>5, RevokedQuiets
  <2>7. \A c \in Children(q.sid) : c \in Sids /\ ~Active(c)
    BY <2>1, <2>2 DEF LoneRequest, Children
  <2>8. \A c \in Children(q.sid) : ~Active(c)'
    BY <2>6, <2>7 DEF Quieter
  <2>9. ~Active(q.sid)'
    BY <2>2, <2>4, <2>6
  <2>10. \A s \in {q.sid} \cup Children(q.sid) : ~Active(s)'
    BY <2>8, <2>9
  <2> QED
    BY <2>1, <2>10
<1>2. SessInv /\ SerialInv /\ [Next]_vars =>
        [\A w \in Workers : LogoutSelf(w) =>
            \A s \in {req[w].sid} \cup Children(req[w].sid) : ~Active(s)']_vars
  BY <1>1
<1> QED
  BY <1>2, SessInit, SessStep, SerialHolds, PTL DEF Spec, SignOutComplete

=============================================================================
