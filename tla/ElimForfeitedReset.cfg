SPECIFICATION Spec
CONSTANTS
    Field = 3
    IsDouble = TRUE
    Player <- MCPlayer
    NoPlayer = 0
    Match <- MCMatch
    NoMatch <- MCNoMatch
    Entrants <- MCEntrants
    Winners <- MCWinners
    Next <- MCNext
    LoserNext <- MCLoserNext
    Draw <- MCDraw
    Rank <- MCRank
    Double = TRUE
    GrandFinal <- MCGrandFinal
    Decider <- MCDecider
    GrandFinalReset = TRUE
    Request = {r1}
    HalfFilled = FALSE
    Quitters = {1}
    MaxResets = 0
    MaxStarts = 0
INVARIANTS
    ForfeitsTerminateCleanly
CHECK_DEADLOCK FALSE
