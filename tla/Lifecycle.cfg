SPECIFICATION Spec
CONSTANTS
    Player = {p1, p2, p3}
    NoPlayer = NoPlayer
    Nobody = Nobody
    r0 = r0
    r1 = r1
    r2 = r2
    Request <- TheRequests
    Plans <- Plans3
SYMMETRY Symmetry
INVARIANT TypeOK
INVARIANT EveryEntrantIsDrawn
INVARIANT AwardsPaidOnce
INVARIANT OneGenerator
INVARIANT NothingLeftBehind
INVARIANT WholeRoundOrNone
PROPERTY FinishedStaysFinished
CHECK_DEADLOCK FALSE
