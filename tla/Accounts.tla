------------------------------ MODULE Accounts ------------------------------
(***************************************************************************)
(* What user administration promises (internal/platform: ChangeRole,       *)
(* SetUserStatus): each change of an account happens at one instant, and   *)
(* the platform never loses its last active super admin.  UserAdmin        *)
(* implements this with row locks; Sessions builds on it.                  *)
(***************************************************************************)
CONSTANTS
    Users,      \* accounts that exist or may be created
    InitRole    \* user -> its role at the start, "none" before it is created

Roles    == {"organizer", "super_admin"}
Statuses == {"active", "suspended"}

VARIABLES
    role,       \* users.role
    state       \* users.status

ActiveAdmin(u) == role[u] = "super_admin" /\ state[u] = "active"

OtherActiveAdmin(u) == \E v \in Users \ {u} : ActiveAdmin(v)

Init ==
    /\ role  = InitRole
    /\ state = [u \in Users |-> "active"]

(* The first sign-in of an invited person creates the account, active. *)
Register(u, r) ==
    /\ role[u] = "none"
    /\ role' = [role EXCEPT ![u] = r]
    /\ UNCHANGED state

ChangeRole(u, r) ==
    /\ role[u] # "none"
    /\ ActiveAdmin(u) /\ r # "super_admin" => OtherActiveAdmin(u)
    /\ role' = [role EXCEPT ![u] = r]
    /\ UNCHANGED state

SetUserStatus(u, s) ==
    /\ role[u] # "none"
    /\ state[u] # s
    /\ ActiveAdmin(u) /\ s = "suspended" => OtherActiveAdmin(u)
    /\ state' = [state EXCEPT ![u] = s]
    /\ UNCHANGED role

Next == \E u \in Users :
    \/ \E r \in Roles : Register(u, r) \/ ChangeRole(u, r)
    \/ \E s \in Statuses : SetUserStatus(u, s)

Spec == Init /\ [][Next]_<<role, state>>

SuperAdminRemains == \E u \in Users : ActiveAdmin(u)
=============================================================================
