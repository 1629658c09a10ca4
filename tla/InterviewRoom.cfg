SPECIFICATION RoomSpec
CONSTANTS
    r1 = r1
    r2 = r2
    Requests = {r1, r2}
    SetupRequest = r1
    HrCount = 2
    Target = 4
    MaxPerQuestion = 2
    MaxTurns = 4
    RowCap = 4
    Overlaps = {}
    Faults = {"provider", "budget", "crash"}
    Entries <- MainEntries
INVARIANTS TypeOK TechRoundPastHr AnsweredOnce WordsKept NeverStranded CompletedHasNoneLeft ReportAskedFor
PROPERTIES IndexNeverBack
CHECK_DEADLOCK FALSE
