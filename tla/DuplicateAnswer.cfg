SPECIFICATION Spec
CONSTANTS
    r1 = r1
    r2 = r2
    Requests = {r1, r2}
    SetupRequest = r1
    HrCount = 1
    Target = 2
    MaxPerQuestion = 3
    MaxTurns = 4
    RowCap = 4
    Overlaps = {"moves"}
    Faults = {}
    Entries = {"profile", "utterance", "silence"}
INVARIANTS OneAnswerRow
CHECK_DEADLOCK FALSE
