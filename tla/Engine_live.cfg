SPECIFICATION FairSpec
CONSTANTS
    Events = {1, 2}
    Ts <- MCTs
    Engines = {g1}
    MaxRetries = 2
    Poison = {1}
    Flaky = {2}
    InOrder = TRUE
    Rebuilds = FALSE
    DbErrors = TRUE
    Operator = FALSE
    Crashes = FALSE
    MaxRows = 6
    NoEvent = NoEvent
PROPERTIES
    EventuallyProjected
