SPECIFICATION Spec
CONSTANTS
    Events = {1, 2}
    Ts <- MCTs
    Engines = {g1, g2}
    MaxRetries = 1
    Poison = {1}
    Flaky = {2}
    InOrder = TRUE
    Rebuilds = FALSE
    DbErrors = TRUE
    Operator = TRUE
    Crashes = TRUE
    MaxRows = 2
    NoEvent = NoEvent
INVARIANTS
    TypeOK
    NoSkippedEvent
    DeadLetterIsEarned
