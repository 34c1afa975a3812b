SPECIFICATION FairSpec
CONSTANTS
    Events = {e1, e2}
    Ingestors = {i1, i2}
    Malformed = {}
    Raising = {e2}
    Executions = {}
    BusinessTypes = {e1}
    AITypes = {e1, e2}
    NoEvent = NoEvent
    Faults = {"raw_locked", "raw_error", "dual_locked", "dual_error"}
INVARIANTS
    NoStrandedFile
PROPERTIES
    EventuallySettled
