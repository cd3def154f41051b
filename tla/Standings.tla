------------------------------ MODULE Standings ------------------------------
(***************************************************************************)
(* Standings computed from the matches of a tournament, as operators: the  *)
(* record of a player, the opponent tiebreakers, the order of the table,   *)
(* and the placements a bracket gives.                                     *)
(*                                                                         *)
(* A match is a record [n, one, two, bye, phase, done, winner, scored]; M  *)
(* is a set of them.  Every match is a single game; scored: it was reported*)
(* as a game, so that its winner has a score of one, where a walkover or a *)
(* direct result leaves the score at nothing.                              *)
(***************************************************************************)
EXTENDS Integers, FiniteSets, FiniteSetsExt, SequencesExt

CONSTANTS
    NoPlayer,
    PointsForWin, PointsForDraw, PointsForLoss,
    ByeResult   \* config.byeResult: "WIN", "DRAW" or "NONE"

Sides(m)       == {m.one, m.two} \ {NoPlayer}
Opponent(m, p) == IF m.one = p THEN m.two ELSE m.one

(* The matches that count for p: completed, and p is in them.              *)
Of(M, p)      == {m \in M : m.done /\ p \in Sides(m)}
Against(M, p) == {m \in Of(M, p) : ~m.bye /\ m.two # NoPlayer}
Won(M, p)     == {m \in Against(M, p) : m.winner = p}
Byes(M, p)    == {m \in Of(M, p) : m.bye}

(* computeTournamentRecords: what a match is worth to p.  The top cut of a *)
(* hybrid tournament earns no points.                                      *)
Credit(m, p) ==
    IF m.phase = 2 \/ (m.bye /\ ByeResult = "NONE") THEN 0
    ELSE IF m.bye THEN IF ByeResult = "DRAW" THEN PointsForDraw ELSE PointsForWin
    ELSE IF m.winner = NoPlayer THEN PointsForDraw
    ELSE IF m.winner = p THEN PointsForWin ELSE PointsForLoss

Points(M, p) == MapThenSumSet(LAMBDA m : Credit(m, p), Of(M, p))

---------------------------------------------------------------------------
(* Percentages are integers over Unit, Unit^2 and Unit^3: exact while      *)
(* nobody plays more than four matches.                                    *)
Unit == 12

(* A player's share of matches won, at least a third.                      *)
WinPct(M, p) ==
    LET share == (Unit * Cardinality(Won(M, p))) \div Cardinality(Against(M, p))
    IN  IF 3 * share < Unit THEN Unit \div 3 ELSE share

Mean(M, p, f(_)) ==
    LET list == Against(M, p)
    IN  IF list = {} THEN 0
        ELSE (Unit * MapThenSumSet(LAMBDA m : f(Opponent(m, p)), list)) \div Cardinality(list)

Omw(M, p)  == Mean(M, p, LAMBDA q : WinPct(M, q))
Oomw(M, p) == Mean(M, p, LAMBDA q : Omw(M, q))

(* Games won: a bye that was won is one, and nobody is strong by it.       *)
Gw(M, p) ==
    LET given == {m \in Byes(M, p) : m.winner # NoPlayer}
        scored(S) == {m \in S : m.scored} \cup given
    IN  IF scored(Against(M, p)) = {} THEN 0
        ELSE (Unit * Cardinality(scored(Won(M, p)))) \div Cardinality(scored(Against(M, p)))

(* The order of the table, points first, then omw, gw and oomw, as one     *)
(* number.                                                                 *)
Key(M, p) ==
    LET above(x, limit, y) == x * (limit + 1) + y
    IN  above(above(above(Points(M, p), Unit^2, Omw(M, p)), Unit, Gw(M, p)), Unit^3, Oomw(M, p))

(* getLeaderboard: players with equal keys come in any order.  tables[k]   *)
(* holds the orders of the first k places.                                 *)
Leaderboards(M, P) ==
    LET entries == {<<p, Key(M, p)>> : p \in P}
        below(t) == {e \in entries : e[1] \notin ToSet(t)}
        best(S)  == {e \in S : \A f \in S : f[2] <= e[2]}
        tables[k \in 0..Cardinality(P)] ==
            IF k = 0 THEN {<<>>}
            ELSE UNION {{Append(t, e[1]) : e \in best(below(t))} : t \in tables[k - 1]}
    IN  tables[Cardinality(P)]

(* Equal and positive points on top: the organizer decides.                *)
TiedOnTop(M, P) ==
    LET top == Max({Points(M, p) : p \in P})
    IN  top > 0 /\ Cardinality({p \in P : Points(M, p) = top}) > 1

---------------------------------------------------------------------------
(* computeStructuralPlacements, of a bracket M of which every match is a   *)
(* final: the winner of the last one first, then by the round of the last  *)
(* loss.                                                                   *)
Placements(M) ==
    LET games   == {m \in M : m.done /\ ~m.bye}
        field   == UNION {Sides(m) : m \in games}
        beaten(m) == Sides(m) \ {m.winner}
        won     == {m \in games : m.winner # NoPlayer}
        lost(p) == {m.n : m \in {g \in won : p \in beaten(g)}}
        champion == {m.winner : m \in {g \in won : \A h \in won : h.n <= g.n}}
        exit(p) == IF p \in champion THEN 1 + Max({m.n : m \in won})
                   ELSE IF lost(p) = {} THEN -1 ELSE Max(lost(p))
    IN  [p \in field |-> 1 + Cardinality({q \in field : exit(q) > exit(p)})]

(* Mutant of FinalPlacements: everybody in the order of the table.         *)
FinalPlacementsByTable(M, table) ==
    [p \in ToSet(table) |-> CHOOSE i \in DOMAIN table : table[i] = p]

(* resolveFinalPlacements of a hybrid tournament: the top cut by its       *)
(* bracket, everybody else below it in the order of the table.             *)
FinalPlacements(M, table) ==
    LET cut == Placements({m \in M : m.phase = 2})
        rest == SelectSeq(table, LAMBDA p : p \notin DOMAIN cut)
    IN  [p \in ToSet(table) |->
            IF p \in DOMAIN cut THEN cut[p]
            ELSE Cardinality(DOMAIN cut) + (CHOOSE i \in DOMAIN rest : rest[i] = p)]
==============================================================================
