SPECIFICATION Spec
CONSTANTS
    r1 = r1
    r2 = r2
    Request <- TheRequests
    NoPlayer = NoPlayer
    Fields <- Small
    PointsForWin = 3
    PointsForDraw = 1
    PointsForLoss = 0
    ByeResult = "WIN"
INVARIANT OncePerRound
INVARIANT NextRoundWaits
INVARIANT ByesAreShared
INVARIANT FreshOpponents
INVARIANT OneTopCut
INVARIANT NeverStranded
PROPERTY ChampionPlacedFirst
CHECK_DEADLOCK FALSE
