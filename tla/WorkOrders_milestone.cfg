SPECIFICATION Spec
CONSTANTS
    w1 = w1 w2 = w2 t1 = t1 t2 = t2 t3 = t3
    Procs = {p1}
    WorkOrderIds = {w1, w2}
    Tasks = {t1, t2, t3}
    WoOf <- MCWoOf
    Past <- MCPast
    MaxCommands = 3
    MaxFaults = 0
CHECK_DEADLOCK FALSE
PROPERTIES MilestoneCoversClosed
