SPECIFICATION Spec
CONSTANTS
    Files = {f1, f2}
    Archivers = {a1, a2}
    MaxWeek = 3
    LastWeek = 2
    Faults = {"io", "corrupt", "crash"}
INVARIANTS NoFileLost
