\* two calls at a time; they may end, and the clock stops
SPECIFICATION Spec
CHECK_DEADLOCK FALSE
CONSTANTS
    Caller = {c1, c2}
    MaxClock = 3
INVARIANT AutoNamesNeverCollide
