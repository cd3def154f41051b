SPECIFICATION Spec
CONSTANTS
    Request = {r1}
    Endpoints <- Tracked
    Actors <- Everyone
    BestOf = 3
    DrawsAllowed = FALSE
    PointsForWin = 3
    PointsForDraw = 1
    PointsForLoss = 0
    Before <- OneWonOneLost
    MaxGames = 4
    MaxLogs = 6
    MaxResets = 1
INVARIANT DecidedSeriesIsHeld
INVARIANT ScoreMatchesLogs
CHECK_DEADLOCK FALSE
