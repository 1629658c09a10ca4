SPECIFICATION FairSpec
CONSTANTS
    w1 = w1
    w2 = w2
    d1 = d1
    d2 = d2
    Workers = {w1, w2}
    Desks = {d1, d2}
    Producer = d1
    Attempts = 2
    ReportFaults <- Survivable
    MaxStalls = 1
    MaxRequeues = 1
INVARIANTS NeverForgotten
PROPERTIES Settles ReadyIsRendered
CHECK_DEADLOCK FALSE
