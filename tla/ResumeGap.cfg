SPECIFICATION Spec
CONSTANTS
    r1 = r1
    r2 = r2
    Requests = {r1, r2}
    SetupRequest = r1
    HrCount = 1
    Target = 2
    MaxPerQuestion = 2
    MaxTurns = 2
    RowCap = 2
    Overlaps = {}
    Faults = {"crash"}
    Entries = {"profile", "resume", "answer"}
INVARIANTS ResumeRecovers
CHECK_DEADLOCK FALSE
