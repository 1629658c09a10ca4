SPECIFICATION FairSpec
CONSTANTS
    MaxUploads = 2
    MaxProbes = 1
    MaxWords = 1
    MaxQuestions = 1
    Upsets = {}
    MaxUpsets = 0
PROPERTY StopEndsTurn
CHECK_DEADLOCK FALSE
