SPECIFICATION FairSpec
CONSTANTS
    a = a b = b c = c
    Order <- MCOrder
    DependsOn <- MCDependsOn
    TriggerRule <- MCTriggerRule
    Conditional = {c}
    Empty = {b}
    Checked = {a}
    Runner = run
    Users = {u1}
    MaxCommands = 3
    Updates <- MCUpdates
    MaxDeaths = 1
    MaxSlow = 1
CHECK_DEADLOCK FALSE
INVARIANTS TypeOK NoLostUpdate StartsReady PrunedIsArchived
PROPERTY RunEnds
