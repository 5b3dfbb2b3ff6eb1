----------------------------- MODULE MCFormats ------------------------------
(***************************************************************************)
(* Every field of up to nine entries of which the best k are seeded, listed *)
(* in any rotation; every assignment of up to nine teams to at most four   *)
(* groups; every set score up to 8-8; matches of up to three sets.         *)
(***************************************************************************)
EXTENDS Formats

MaxField == 9

(* n entries, k of them seeded, the seeds starting at position o. *)
Field(n, k, o) == [i \in 1 .. n |->
    LET s == ((i + o) % n) + 1 IN [id |-> i, seed |-> IF s <= k THEN s ELSE 0]]

MCFields == UNION {{Field(n, k, o) : k \in 0 .. n, o \in 0 .. n - 1} : n \in 1 .. MaxField}

MCSplits == {<<g, a>> : g \in 1 .. 4, a \in 0 .. 3}

MCRegistered == 1 .. MaxField

(* Teams 1, 2, 3, ... two by two, the i-th pair left open where e says so; *)
(* and lists that must be refused.                                         *)
MCPairLists ==
    {[i \in 1 .. n |-> IF i \in e THEN <<0, 0>> ELSE <<2 * i - 1, 2 * i>>] :
        n \in 0 .. 4, e \in SUBSET (1 .. 4)}
    \cup {<<<<1, 2>>, <<3, 0>>>>, <<<<1, 2>>, <<2, 3>>>>, <<<<1, 10>>>>, <<<<1, 1>>>>}

(* Groups of the given sizes filled in order. *)
Assigned(size, advance) ==
    [g \in DOMAIN size |->
        [teams   |-> [i \in 1 .. size[g] |->
                        i + FoldSet(LAMBDA h, n : size[h] + n, 0, 1 .. g - 1)],
         advance |-> advance[g]]]

MCAssignments ==
    UNION {{Assigned(s, a) : s \in {f \in [1 .. n -> 2 .. 4] :
                                       FoldSet(LAMBDA h, m : f[h] + m, 0, 1 .. n) <= MaxField},
                             a \in [1 .. n -> 0 .. 4]} : n \in 1 .. 3}
    \cup {Assigned([g \in 1 .. 4 |-> 2], [g \in 1 .. 4 |-> k]) : k \in 1 .. 2}
    \cup {<<[teams |-> <<1, 2>>, advance |-> 1], [teams |-> <<2, 3>>, advance |-> 1]>>}

MCDocuments == {[bestOf |-> 1, deciding |-> "", odd |-> FALSE],
                [bestOf |-> 0, deciding |-> "match_tiebreak", odd |-> FALSE],
                [bestOf |-> 1, deciding |-> "match_tiebreak", odd |-> FALSE]}

SetOf(n, a, b, t) == [no |-> n, p1 |-> a, p2 |-> b,
                      tb1 |-> IF t = <<>> THEN <<>> ELSE <<t[1]>>,
                      tb2 |-> IF t = <<>> THEN <<>> ELSE <<t[2]>>]

Tiebreaks == {<<>>, <<7, 5>>, <<5, 7>>, <<7, 6>>, <<9, 6>>}

OneSet == {<<SetOf(1, a, b, t)>> : a, b \in 0 .. 8, t \in Tiebreaks}

Usual == {<<6, 4, <<>>>>, <<3, 6, <<>>>>, <<7, 6, <<7, 3>>>>, <<6, 7, <<>>>>,
          <<6, 6, <<>>>>, <<0, 0, <<>>>>, <<9, 11, <<>>>>, <<12, 9, <<>>>>}

MCScores ==
    OneSet \cup {<<>>}
    \cup {<<SetOf(1, x[1], x[2], x[3]), SetOf(2, y[1], y[2], y[3])>> : x, y \in Usual}
    \cup {<<SetOf(2, x[1], x[2], x[3]), SetOf(1, y[1], y[2], y[3]), SetOf(3, z[1], z[2], z[3])>> :
              x, y, z \in Usual}
    \cup {<<SetOf(1, 6, 4, <<>>), SetOf(1, 6, 4, <<>>)>>, <<SetOf(2, 6, 4, <<>>)>>}
=============================================================================
