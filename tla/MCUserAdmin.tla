---------------------------- MODULE MCUserAdmin ----------------------------
(***************************************************************************)
(* Two super admins whose demotions and suspensions chase each other, an   *)
(* organizer who may be promoted, an account not yet created, and three    *)
(* overlapping requests.                                                   *)
(***************************************************************************)
EXTENDS UserAdmin, TLC

CONSTANTS u1, u2, u3, u4

Starting == [u \in Users |-> CASE u \in {u1, u2} -> "super_admin"
                              [] u = u3 -> "none"
                              [] u = u4 -> "organizer"]

Symmetries == Permutations(Workers) \cup Permutations({u1, u2})
=============================================================================
