SPECIFICATION Spec
CONSTANTS
    t1 = t1
    t2 = t2
    s1 = s1
    Tabs = {t1, t2}
    Starters = {s1}
    Sec = 2
    Grace = 2
    MaxNow = 5
INVARIANTS TypeOK EveryTickOnce EndedBankBounded WinnerTellsTotal
PROPERTIES SlidesByGrace
CHECK_DEADLOCK FALSE
