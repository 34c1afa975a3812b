SPECIFICATION Spec
CONSTANTS
    Events = {e1, e2}
    Ingestors = {i1, i2}
    Malformed = {e2}
    Raising = {}
    Executions = {e1}
    BusinessTypes = {e1}
    AITypes = {e1, e2}
    NoEvent = NoEvent
    Faults = {"raw_error", "dual_locked", "dual_error", "file_error", "crash"}
SYMMETRY IngestorSymmetry
INVARIANTS
    TypeOK
    NoLostEvent
    ProcessedIsRecorded
    RawFirst
    ListingAccounted
PROPERTIES
    ImplementsLog
