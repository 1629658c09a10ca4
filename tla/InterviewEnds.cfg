SPECIFICATION FairSpec
CONSTANTS
    r1 = r1
    r2 = r2
    Requests = {r1, r2}
    SetupRequest = r1
    HrCount = 4
    Target = 6
    MaxPerQuestion = 3
    MaxTurns = 5
    RowCap = 10
    Overlaps = {}
    Faults = {"budget"}
    Entries = {"profile", "resume", "utterance", "silence", "answer", "delete"}
INVARIANTS WordsKept
PROPERTIES HandOverPastFloor RoundsEnd
CHECK_DEADLOCK FALSE
