----------------------------- MODULE UserAdmin -----------------------------
(***************************************************************************)
(* The transactions of platform user administration, statement by          *)
(* statement (internal/platform/admin_users.go: ChangeRole, SetUserStatus, *)
(* otherActiveSuperAdmins).  Each locks the target's row, and a change     *)
(* that takes an active super admin away then locks the other active super *)
(* admins and counts them.  Row locks are held until the transaction ends. *)
(* At READ COMMITTED the count's snapshot may be stale by the time a row   *)
(* lock is granted, so Postgres re-checks the row then.                    *)
(***************************************************************************)
CONSTANTS
    Users,
    InitRole,
    Workers,    \* administration requests that may be in flight together
    NULL

VARIABLES
    role,       \* users.role
    state,      \* users.status
    tx          \* each request's transaction

A == INSTANCE Accounts

ASSUME UsersAssumption == NULL \notin Users

(* Migration 00018 creates the first super admin before the server starts. *)
ASSUME BootstrapAssumption ==
    /\ InitRole \in [Users -> A!Roles \cup {"none"}]
    /\ \E u \in Users : InitRole[u] = "super_admin"

vars == <<role, state, tx>>

Idle == [pc |-> "idle", column |-> "role", user |-> NULL, value |-> "active",
         awaiting |-> {}, found |-> {}, locks |-> {}]

Transactions ==
    [pc       : {"idle", "guarding", "counting", "writing"},
     column   : {"role", "state"},       \* ChangeRole or SetUserStatus
     user     : Users \cup {NULL},       \* the target
     value    : A!Roles \cup A!Statuses, \* the new role or status
     awaiting : SUBSET Users,            \* rows of the count not yet locked
     found    : SUBSET Users,            \* rows counted
     locks    : SUBSET Users]            \* rows this transaction holds

TypeOK ==
    /\ role  \in [Users -> A!Roles \cup {"none"}]
    /\ state \in [Users -> A!Statuses]
    /\ tx    \in [Workers -> Transactions]
    /\ \A w \in Workers : tx[w].pc # "idle" =>
          /\ tx[w].user \in Users
          /\ tx[w].value \in IF tx[w].column = "role" THEN A!Roles ELSE A!Statuses

Init ==
    /\ A!Init
    /\ tx = [w \in Workers |-> Idle]

----------------------------------------------------------------------------
Free(w, u) == \A x \in Workers \ {w} : u \notin tx[x].locks

RemovesAdmin(u, column, value) ==
    /\ A!ActiveAdmin(u)
    /\ \/ column = "role"  /\ value # "super_admin"
       \/ column = "state" /\ value = "suspended"

(* SELECT role, status ... FOR UPDATE on the target; setting the status it *)
(* already has ends there.                                                 *)
LockTarget(w, u, column, value) ==
    /\ tx[w].pc = "idle"
    /\ Free(w, u)
    /\ role[u] # "none"
    /\ column = "state" => state[u] # value
    /\ tx' = [tx EXCEPT ![w] =
                [Idle EXCEPT !.pc = IF RemovesAdmin(u, column, value) THEN "guarding" ELSE "writing",
                             !.column = column, !.user = u, !.value = value,
                             !.locks = {u}]]
    /\ UNCHANGED <<role, state>>

(* Mutant: the count forgets "id <> $1". *)
CountAllAdmins(w) ==
    /\ tx[w].pc = "guarding"
    /\ tx' = [tx EXCEPT ![w].pc = "counting", ![w].awaiting = {v \in Users : A!ActiveAdmin(v)}]
    /\ UNCHANGED <<role, state>>

(* otherActiveSuperAdmins: the rows its snapshot selects... *)
otherActiveSuperAdmins(w) ==
    /\ tx[w].pc = "guarding"
    /\ tx' = [tx EXCEPT ![w].pc = "counting",
                        ![w].awaiting = {v \in Users \ {tx[w].user} : A!ActiveAdmin(v)}]
    /\ UNCHANGED <<role, state>>

(* Mutant: the count without FOR UPDATE. *)
CountWithoutLock(w, v) ==
    /\ tx[w].pc = "counting"
    /\ v \in tx[w].awaiting
    /\ tx' = [tx EXCEPT ![w].awaiting = @ \ {v}, ![w].found = @ \cup {v}]
    /\ UNCHANGED <<role, state>>

(* ...are locked one by one, and counted if they still qualify then. *)
LockOther(w, v) ==
    /\ tx[w].pc = "counting"
    /\ v \in tx[w].awaiting
    /\ Free(w, v)
    /\ tx' = [tx EXCEPT ![w].awaiting = @ \ {v},
                        ![w].found    = IF A!ActiveAdmin(v) THEN @ \cup {v} ELSE @,
                        ![w].locks    = @ \cup {v}]
    /\ UNCHANGED <<role, state>>

Close(w) == tx' = [tx EXCEPT ![w] = Idle]

(* ErrLastSuperAdmin: roll back. *)
RefuseLastSuperAdmin(w) ==
    /\ tx[w].pc = "counting"
    /\ tx[w].awaiting = {}
    /\ tx[w].found = {}
    /\ Close(w)
    /\ UNCHANGED <<role, state>>

(* Mutant: both endpoints write the status column. *)
WriteStatus(w) ==
    /\ \/ tx[w].pc = "writing"
       \/ tx[w].pc = "counting" /\ tx[w].awaiting = {} /\ tx[w].found # {}
    /\ state' = [state EXCEPT ![tx[w].user] = tx[w].value]
    /\ UNCHANGED role
    /\ Close(w)

(* UPDATE users, then commit. *)
Write(w) ==
    /\ \/ tx[w].pc = "writing"
       \/ tx[w].pc = "counting" /\ tx[w].awaiting = {} /\ tx[w].found # {}
    /\ LET t == tx[w]
       IN  \/ /\ t.column = "role"
              /\ role' = [role EXCEPT ![t.user] = t.value]
              /\ UNCHANGED state
           \/ /\ t.column = "state"
              /\ state' = [state EXCEPT ![t.user] = t.value]
              /\ UNCHANGED role
    /\ Close(w)

(* The transaction fails: a lost connection, a cancelled request, or the   *)
(* victim Postgres picks when two transactions wait for each other's rows. *)
Abort(w) ==
    /\ tx[w].pc # "idle"
    /\ Close(w)
    /\ UNCHANGED <<role, state>>

(* A sign-in creates an account (upsertFromInvitation). *)
Register(u, r) == A!Register(u, r) /\ UNCHANGED tx

Next ==
    \/ \E w \in Workers :
         \/ \E u \in Users, r \in A!Roles : LockTarget(w, u, "role", r)
         \/ \E u \in Users, s \in A!Statuses : LockTarget(w, u, "state", s)
         \/ otherActiveSuperAdmins(w)
         \/ \E v \in Users : LockOther(w, v)
         \/ RefuseLastSuperAdmin(w)
         \/ Write(w)
         \/ Abort(w)
    \/ \E u \in Users, r \in A!Roles : Register(u, r)

Spec == Init /\ [][Next]_vars

----------------------------------------------------------------------------
(* Properties *)

(* However demotions and suspensions overlap, an active super admin        *)
(* remains: the rows otherActiveSuperAdmins counted stay locked, and so    *)
(* stay active super admins, until the change commits.                     *)
SuperAdminRemains == A!SuperAdminRemains

(* Every interleaving of these transactions looks as if each ChangeRole    *)
(* and SetUserStatus happened at one instant, its guard true then.         *)
AdministrationAtomic == A!Spec
=============================================================================
