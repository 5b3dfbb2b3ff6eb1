----------------------------- MODULE MCSessions -----------------------------
(***************************************************************************)
(* A super admin a and two organizers o and b: a may impersonate either, o *)
(* may be promoted (which is what makes a's own demotion possible), b is   *)
(* only ever a target.                                                     *)
(***************************************************************************)
EXTENDS Sessions, TLC

CONSTANTS a, o, b

Starting == [u \in Users |-> IF u = a THEN "super_admin" ELSE "organizer"]

IdSymmetry == Permutations(Sids) \cup Permutations(Workers)
=============================================================================
