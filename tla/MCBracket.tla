------------------------------ MODULE MCBracket ------------------------------
(***************************************************************************)
(* Two small divisions for model checking Bracket.                         *)
(*   Cup:    the bracket Build makes of two pairs: s1 = p1 v p2,           *)
(*           s2 = p3 v p4, f = winner of s1 v winner of s2.                *)
(*   League: the division SetGroups makes of one group of three, all of    *)
(*           whom advance: the round robin a1, a2, a3, then                *)
(*           k1 = 1st v 2nd, k2 = 3rd v bye, f = winner of k1 v of k2.     *)
(***************************************************************************)
EXTENDS Bracket, TLC

CONSTANTS s1, s2, f, a1, a2, a3, k1, k2, p1, p2, p3, p4, gA

NoSource       == [type |-> "empty", pid |-> NULL, match |-> NULL, group |-> NULL, rank |-> 0]
Fixed(p)       == [NoSource EXCEPT !.type = "fixed", !.pid = p]
Bye            == [NoSource EXCEPT !.type = "bye"]
WinnerOf(m)    == [NoSource EXCEPT !.type = "match_winner", !.match = m]
Placed(g, r)   == [NoSource EXCEPT !.type = "group_placement", !.group = g, !.rank = r]

ByName(p) == CASE p = p1 -> 1 [] p = p2 -> 2 [] p = p3 -> 3 [] p = p4 -> 4
Names     == [p \in Participants |-> ByName(p)]

Score(c, i, mg) == [completion |-> c, slot |-> i, sets |-> c # "walkover", margin |-> mg]

CupScores == {Score("incomplete", 0, 0), Score("normal", 1, 0), Score("normal", 2, 0),
              Score("walkover", 1, 0)}
LeagueScores == {Score("incomplete", 0, 0), Score("normal", 1, 2), Score("normal", 2, -1),
                 Score("retired", 2, 1), Score("cancelled", 0, 0)}
RaceScores   == {Score("incomplete", 0, 0), Score("normal", 1, 0)}

WorkerSymmetry == Permutations(Workers)

CupMatches == {s1, s2, f}
CupSource  == [s \in CupMatches \X {1, 2} |->
    CASE s = <<s1, 1>> -> Fixed(p1)
      [] s = <<s1, 2>> -> Fixed(p2)
      [] s = <<s2, 1>> -> Fixed(p3)
      [] s = <<s2, 2>> -> Fixed(p4)
      [] s = <<f, 1>>  -> WinnerOf(s1)
      [] s = <<f, 2>>  -> WinnerOf(s2)]
CupGroupOf == [m \in CupMatches |-> NULL]
CupStatus  == [m \in CupMatches |-> "pending"]

LeagueMatches == {a1, a2, a3, k1, k2, f}
LeagueSource  == [s \in LeagueMatches \X {1, 2} |->
    CASE s = <<a1, 1>> -> Fixed(p1)
      [] s = <<a1, 2>> -> Fixed(p2)
      [] s = <<a2, 1>> -> Fixed(p3)
      [] s = <<a2, 2>> -> Fixed(p1)
      [] s = <<a3, 1>> -> Fixed(p2)
      [] s = <<a3, 2>> -> Fixed(p3)
      [] s = <<k1, 1>> -> Placed(gA, 1)
      [] s = <<k1, 2>> -> Placed(gA, 2)
      [] s = <<k2, 1>> -> Placed(gA, 3)
      [] s = <<k2, 2>> -> Bye
      [] s = <<f, 1>>  -> WinnerOf(k1)
      [] s = <<f, 2>>  -> WinnerOf(k2)]
LeagueGroupOf == [m \in LeagueMatches |-> IF m \in {a1, a2, a3} THEN gA ELSE NULL]
LeagueStatus  == [m \in LeagueMatches |-> IF m = k2 THEN "bye" ELSE "pending"]
=============================================================================
