SPECIFICATION Spec
CONSTANTS
    Events = {1, 2}
    Ts <- MCTs
    Engines = {g1}
    MaxRetries = 1
    Poison = {}
    Flaky = {1}
    InOrder = TRUE
    Rebuilds = TRUE
    DbErrors = FALSE
    Operator = FALSE
    Crashes = FALSE
    MaxRows = 2
    NoEvent = NoEvent
INVARIANTS
    NoSkippedEvent
