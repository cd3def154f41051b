SPECIFICATION Spec
CONSTANTS
    Guard = {g1, g2}
    Span = 1
    MaxTime = 4
    MaxFailures = 1
    Never = Never
INVARIANT VoidedSessionsEndInTime
SYMMETRY Alike
