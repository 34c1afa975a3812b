SPECIFICATION Spec
CONSTANTS
    Records = {r1, r2, r3}
    Drainers = {d1, d2}
    MaxPerDrain = 1
    MaxFaults = 1
CHECK_DEADLOCK FALSE
INVARIANT NothingIsDropped
