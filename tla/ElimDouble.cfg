SPECIFICATION Spec
CONSTANTS
    Field = 4
    IsDouble = TRUE
    Player <- MCPlayer
    NoPlayer = 0
    Match <- MCMatch
    NoMatch <- MCNoMatch
    Entrants <- MCEntrants
    Winners <- MCWinners
    Next <- MCNext
    LoserNext <- MCLoserNext
    Draw <- MCDraw
    Rank <- MCRank
    Double = TRUE
    GrandFinal <- MCGrandFinal
    Decider <- MCDecider
    GrandFinalReset = TRUE
    Request = {r1}
    HalfFilled = FALSE
    Quitters = {1, 2}
    MaxResets = 1
    MaxStarts = 1
INVARIANTS
    SlotsMatchFeeders
PROPERTIES
    ResultStandsUntilReset
CHECK_DEADLOCK FALSE
