SPECIFICATION FairSpec
CONSTANTS
    Events = {1, 2}
    Ts <- MCTs
    Engines = {g1}
    MaxRetries = 1
    Poison = {}
    Flaky = {}
    InOrder = FALSE
    Rebuilds = FALSE
    DbErrors = FALSE
    Operator = FALSE
    Crashes = FALSE
    MaxRows = 2
    NoEvent = NoEvent
PROPERTIES
    EventuallyProjected
