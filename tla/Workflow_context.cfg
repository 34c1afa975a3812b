SPECIFICATION Spec
CONSTANTS
    a = a b = b c = c
    Order <- MCOrder
    DependsOn <- MCDependsOn
    TriggerRule <- MCTriggerRule
    Conditional = {c}
    Empty = {b}
    Checked = {a}
    Runner = run
    Users = {u1}
    MaxCommands = 2
    Updates <- MCUpdates
    MaxDeaths = 0
    MaxSlow = 0
CHECK_DEADLOCK FALSE
PROPERTY WritesAreLocked
