----------------------------- MODULE MCLimiter ------------------------------
(***************************************************************************)
(* One address and two clients, with room for one bucket before the map is *)
(* swept.                                                                  *)
(***************************************************************************)
EXTENDS Limiter

CONSTANTS e

Limits  == [k \in Keys |-> IF k = e THEN 1 ELSE 2]
Windows == [k \in Keys |-> IF k = e THEN 1 ELSE 2]
=============================================================================
