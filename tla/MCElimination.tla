--------------------------- MODULE MCElimination ---------------------------
(* Brackets of Field players, wired as BracketShape says.                  *)
EXTENDS Elimination

CONSTANTS Field, IsDouble

Shape == INSTANCE BracketShape
K == Shape!Exponent(Field)

MCPlayer     == 1..Field
MCMatch      == IF IsDouble THEN Shape!DoubleMatches(K) ELSE Shape!SingleMatches(K)
MCNoMatch    == Shape!Nowhere
MCEntrants   == Shape!EntrantsOf(Field)
MCWinners    == Shape!WinnersMatches(K)
MCNext       == IF IsDouble THEN Shape!DoubleNext(K) ELSE Shape!SingleNext(K)
MCLoserNext  == IF IsDouble THEN Shape!DoubleLoserNext(K)
                            ELSE [m \in MCMatch |-> MCNoMatch]
MCGrandFinal == Shape!GrandFinalMatch
MCDecider    == Shape!ResetMatch

(* Who can reach a match; the reset match is played by the grand finalists.*)
MCDraw ==
    LET reach[m \in MCMatch] ==
            IF m \in DOMAIN MCEntrants
            THEN {MCEntrants[m][1], MCEntrants[m][2]} \ {0}
            ELSE IF m = MCDecider THEN reach[MCGrandFinal]
            ELSE UNION {reach[f] : f \in {g \in MCMatch :
                                    MCNext[g] = m \/ MCLoserNext[g] = m}}
    IN  reach

(* The order in which the rounds can be played.                            *)
MCRank ==
    [m \in MCMatch |->
        CASE m[1] = 1 \/ ~IsDouble -> m[1]
          [] m[1] \in 2..K         -> 4 * m[1] - 5
          [] m[1] \in 101..199     -> 2 * (m[1] - 100)
          [] OTHER                 -> 4 * K + m[1] - 200]
===========================================================================
