SPECIFICATION Spec
CONSTANTS
    v1 = v1 v2 = v2
    skill = skill moved = moved agent = agent entry = entry lib = lib
    Versions = {v1, v2}
    Skills = {skill, moved}
    Agents = {agent}
    Entries = {entry}
    Libs = {lib}
    Ships <- MCShips
    Sessions = {s1}
    MaxInstalls = 2
    MaxUninstalls = 1
    MaxEdits = 1
    MaxDeaths = 1
CHECK_DEADLOCK FALSE
INVARIANTS TypeOK NothingLost OwnedIsRecorded SessionsKeepHooks InstallDelivers
