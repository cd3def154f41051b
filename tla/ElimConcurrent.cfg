SPECIFICATION Spec
CONSTANTS
    Field = 4
    IsDouble = FALSE
    Player <- MCPlayer
    NoPlayer = 0
    Match <- MCMatch
    NoMatch <- MCNoMatch
    Entrants <- MCEntrants
    Winners <- MCWinners
    Next <- MCNext
    LoserNext <- MCLoserNext
    Draw <- MCDraw
    Rank <- MCRank
    Double = FALSE
    GrandFinal <- MCGrandFinal
    Decider <- MCDecider
    GrandFinalReset = FALSE
    Request = {r1, r2}
    HalfFilled = TRUE
    Quitters = {1}
    MaxResets = 0
    MaxStarts = 0
INVARIANTS
    ForfeitsTerminateCleanly
CHECK_DEADLOCK FALSE
