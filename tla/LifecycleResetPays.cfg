SPECIFICATION Spec
CONSTANTS
    Player = {p1, p2}
    NoPlayer = NoPlayer
    Nobody = Nobody
    r0 = r0
    r1 = r1
    r2 = r2
    Request <- TheRequests
    Plans <- PlansReset
SYMMETRY Symmetry
INVARIANT AwardsPaidOnce
CHECK_DEADLOCK FALSE
