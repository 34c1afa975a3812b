SPECIFICATION Spec
CONSTANTS
    Events = {1, 2, 3}
    Ts <- MCTs
    Engines = {g1, g2}
    MaxRetries = 1
    Poison = {}
    Flaky = {}
    InOrder = TRUE
    Rebuilds = TRUE
    DbErrors = FALSE
    Operator = FALSE
    Crashes = FALSE
    MaxRows = 1
    NoEvent = NoEvent
INVARIANTS
    NoSkippedEvent
