SPECIFICATION Spec
CONSTANTS
    Request = {r1}
    Endpoints <- Unforfeited
    Actors <- Everyone
    BestOf = 1
    DrawsAllowed = TRUE
    PointsForWin = 3
    PointsForDraw = 1
    PointsForLoss = 0
    Before <- OneWonOneLost
    MaxGames = 2
    MaxLogs = 2
    MaxResets = 2
INVARIANT StatsCountTheMatchOnce
CHECK_DEADLOCK FALSE
