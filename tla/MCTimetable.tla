---------------------------- MODULE MCTimetable -----------------------------
(***************************************************************************)
(* Three teams, two courts, two slots and two requests in flight.          *)
(***************************************************************************)
EXTENDS Timetable, TLC

Symmetric == {p @@ q @@ r : p \in Permutations(Teams), q \in Permutations(Courts),
                            r \in Permutations(Workers)}
=============================================================================
