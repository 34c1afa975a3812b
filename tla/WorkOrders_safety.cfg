SPECIFICATION FairSpec
CONSTANTS
    w1 = w1 w2 = w2 t1 = t1 t2 = t2 t3 = t3
    Procs = {p1, p2}
    WorkOrderIds = {w1, w2}
    Tasks = {t1, t2, t3}
    WoOf <- MCWoOf
    Past <- MCPast
    MaxCommands = 2
    MaxFaults = 1
CHECK_DEADLOCK FALSE
INVARIANTS TypeOK RowsReplay
PROPERTIES Converges ClosesFromHeldPhase
