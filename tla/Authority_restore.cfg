SPECIFICATION Spec
CONSTANTS
    old = old
    new = new
    NoApp = NoApp
    Apps <- MCApps
    Latest <- MCLatest
    Released <- MCReleased
    Rows = {r1}
    Procs = {p1}
    BackupsKept = 1
    MaxCommands = 2
    MaxFaults = 1
CHECK_DEADLOCK FALSE
PROPERTY RestoreIsReversible
