SPECIFICATION Spec
CONSTANTS
    old = old
    new = new
    NoApp = NoApp
    Apps <- MCApps
    Latest <- MCLatest
    Released <- MCReleased
    Rows = {r1}
    Procs = {p1, p2}
    BackupsKept = 1
    MaxCommands = 2
    MaxFaults = 1
SYMMETRY Symmetry
CHECK_DEADLOCK FALSE
INVARIANTS TypeOK CurrentIsComplete AppsHaveData
PROPERTIES NeverReplaced LossIsNotBuried RichestSurvives
