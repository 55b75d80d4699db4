\* Everything that may happen to a held sale, faults included.
CONSTANTS
    s1 = s1
    s2 = s2
    k1 = k1
    k2 = k2
    Nothing = Nothing
    Calls = {c1, c2}
    Sessions = {s1, s2}
    Managers = {s2}
    Keys = {k1, k2}
    MaxSales = 2
    Ops = {"release", "delete"}
    HeldFaults = {"crash", "late"}
SPECIFICATION HeldFairSpec
INVARIANTS HeldTypeOK OneSaleUnlessUndone CompletedNamesItsSale
PROPERTY FinalizationEnds
CHECK_DEADLOCK FALSE
