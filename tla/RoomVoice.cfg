SPECIFICATION FairSpec
CONSTANTS
    MaxUploads = 2
    MaxProbes = 1
    MaxWords = 2
    MaxQuestions = 2
    Upsets = {"noise", "stt", "refusal", "redis", "expiry", "typed", "unload"}
    MaxUpsets = 1
INVARIANTS TypeOK HeardOnce OneQuestion WordsKept
PROPERTIES HeldIsTold RoomGoesOn
CHECK_DEADLOCK FALSE
