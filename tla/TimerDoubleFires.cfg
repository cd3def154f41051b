SPECIFICATION Spec
CONSTANTS
    Match = {m1, m2}
    Player = {u1}
    Request = {r1}
    Pass = {j1, j2}
    Durations = {1}
    MaxTime = 2
    MaxStarts = 1
    QuickFlags = TRUE
    None = None
INVARIANT CountdownAnnouncedOnce
CHECK_DEADLOCK FALSE
