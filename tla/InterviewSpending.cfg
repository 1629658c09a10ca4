SPECIFICATION FairSpec
CONSTANTS
    a = a
    b = b
    welcome = welcome
    NoOne = NoOne
    NoLine = NoLine
    Callers = {a, b}
    Lines = {welcome}
    Budget = 1
    MaxCost = 1
    Chain = 2
    Faults = {"timeout", "charge", "store", "crash"}
    MaxFaults = 1
    MaxOpen = 1
INVARIANTS TypeOK Overshoot PaidOnce EndedWhenSpent
PROPERTIES Answered
