SPECIFICATION Spec
CONSTANTS
    Events = {e1, e2}
    Ingestors = {i1}
    Malformed = {e2}
    Raising = {}
    Executions = {e1}
    BusinessTypes = {e1}
    AITypes = {e1, e2}
    NoEvent = NoEvent
    Faults = {"dual_error"}
PROPERTIES
    FailureIsTriaged
