------------------------------ MODULE Scoring -------------------------------
(***************************************************************************)
(* The scoring rules of internal/match/scoring.go.  A set is               *)
(* [no, p1, p2, tb1, tb2] with the tiebreak points <<>> when they are nil. *)
(* Violations are not told apart: a submission is accepted or refused.     *)
(***************************************************************************)
EXTENDS Integers, Sequences, FiniteSets

Config(bestOf, deciding) == [bestOf |-> bestOf, deciding |-> deciding]

DefaultScoringConfig == Config(3, "full")

(* A stored document by its keys: best_of (0 when absent), deciding_set    *)
(* ("" when absent) and whether some other key or value is out of place.   *)
(* SubmitScore plays a division with an invalid document by the defaults.  *)
ParseScoringConfig(doc) ==
    LET bestOf   == IF doc.bestOf = 0 THEN 3 ELSE doc.bestOf
        deciding == IF doc.deciding = "" THEN "full" ELSE doc.deciding
    IN  IF \/ bestOf \notin {1, 3} \/ deciding \notin {"full", "match_tiebreak"} \/ doc.odd
           \/ bestOf = 1 /\ deciding = "match_tiebreak"
        THEN DefaultScoringConfig ELSE Config(bestOf, deciding)

Verdict(ok, winner, complete) == [ok |-> ok, winner |-> winner, complete |-> complete]

Illegal   == Verdict(FALSE, 0, FALSE)
Partial   == Verdict(TRUE, 0, FALSE)
Won(side) == Verdict(TRUE, side, TRUE)

Max2(a, b) == IF a > b THEN a ELSE b
Min2(a, b) == IF a > b THEN b ELSE a

(* The shape of a race to target points with a lead of two. *)
RaceShape(hi, lo, target) == hi >= target /\ hi - lo >= 2 /\ (hi = target \/ hi - lo = 2)

(* The 7-6 case: the tiebreak decides it and must name the same side. *)
validateTiebreak(st, side, allowPartial) ==
    IF st.tb1 = <<>> \/ st.tb2 = <<>> THEN IF allowPartial THEN Partial ELSE Illegal
    ELSE LET x == st.tb1[1]  y == st.tb2[1]
         IN  IF RaceShape(Max2(x, y), Min2(x, y), 7) /\ side = (IF y > x THEN 2 ELSE 1)
             THEN Won(side) ELSE Illegal

(* Mutant: six games to five end a set. *)
ShortSetAny(hi, lo) == (hi = 6 /\ lo <= 5) \/ (hi = 7 /\ lo = 5)

(* A set that ends without a tiebreak. *)
ShortSet(hi, lo) == (hi = 6 /\ lo <= 4) \/ (hi = 7 /\ lo = 5)

validateSet(st, isDecider, allowPartial) ==
    LET hi == Max2(st.p1, st.p2)
        lo == Min2(st.p1, st.p2)
        side   == IF st.p2 > st.p1 THEN 2 ELSE 1
        points == st.tb1 \o st.tb2
    IN  IF lo < 0 \/ \E i \in DOMAIN points : points[i] < 0 THEN Illegal
        ELSE IF isDecider
        THEN IF points # <<>> THEN Illegal
             ELSE IF RaceShape(hi, lo, 10) THEN Won(side)
             ELSE IF allowPartial THEN Partial ELSE Illegal
        ELSE IF ShortSet(hi, lo) THEN IF points # <<>> THEN Illegal ELSE Won(side)
        ELSE IF hi = 7 /\ lo = 6 THEN validateTiebreak(st, side, allowPartial)
        ELSE IF allowPartial /\ hi <= 6 THEN Partial ELSE Illegal

Completions == {"incomplete", "normal", "walkover", "retired", "cancelled"}

StatusOf(c) == CASE c = "normal" -> "completed" [] c = "incomplete" -> "live" [] OTHER -> c

Refused == [ok |-> FALSE, winner |-> 0, status |-> ""]
Accepted(winner, completion) == [ok |-> TRUE, winner |-> winner, status |-> StatusOf(completion)]

(* ValidateScore past the checks of completion and numbering: the sets in  *)
(* order, one verdict each, and the set after which a side has won enough. *)
JudgeSets(cfg, ordered, completion, winnerSlot) ==
    LET n == Len(ordered)
        verdict == [i \in 1 .. n |->
            validateSet(ordered[i], cfg.deciding = "match_tiebreak" /\ cfg.bestOf > 1 /\ i = cfg.bestOf,
                        i = n /\ completion # "normal")]
        wins(side, k) == Cardinality({i \in 1 .. k : verdict[i].winner = side})
        toWin   == (cfg.bestOf \div 2) + 1
        decided == {k \in 1 .. n : \E side \in {1, 2} : wins(side, k) = toWin}
        after   == IF decided = {} THEN 0 ELSE CHOOSE k \in decided : \A j \in decided : k <= j
        played(i) == verdict[i].complete \/ ordered[i].p1 > 0 \/ ordered[i].p2 > 0
    IN  IF \/ \E i \in 1 .. n : ~verdict[i].ok
           \/ after > 0 /\ \E i \in (after + 1) .. n : played(i)
        THEN Refused
        ELSE IF completion = "normal"
        THEN IF after = 0 THEN Refused
             ELSE Accepted(IF wins(2, n) > wins(1, n) THEN 2 ELSE 1, completion)
        ELSE IF after > 0 /\ (after < n \/ completion = "incomplete") THEN Refused
        ELSE Accepted(winnerSlot, completion)

ValidateScore(cfg, sets, completion, winnerSlot) ==
    LET explicit == completion \in {"walkover", "retired"}
        n == Len(sets)
        ordered == [k \in 1 .. n |-> sets[CHOOSE i \in 1 .. n : sets[i].no = k]]
    IN  IF \/ completion \notin Completions
           \/ explicit /\ winnerSlot \notin {1, 2}
           \/ ~explicit /\ winnerSlot # 0
        THEN Refused
        ELSE IF completion = "walkover"
        THEN IF n > 0 THEN Refused ELSE Accepted(winnerSlot, completion)
        ELSE IF \/ n = 0 /\ completion # "cancelled"
                \/ {sets[i].no : i \in 1 .. n} # 1 .. n
                \/ n > cfg.bestOf
        THEN Refused
        ELSE JudgeSets(cfg, ordered, completion, winnerSlot)
=============================================================================
