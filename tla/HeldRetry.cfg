\* A finalize call repeated after a failure that follows the commit of its sale.
CONSTANTS
    s1 = s1
    s2 = s2
    k1 = k1
    k2 = k2
    Nothing = Nothing
    Calls = {c1, c2, c3}
    Sessions = {s1, s2}
    Managers = {s2}
    Keys = {k1, k2}
    MaxSales = 2
    Ops = {}
    HeldFaults = {"late"}
SPECIFICATION HeldSpec
INVARIANT KeySellsOnce
CHECK_DEADLOCK FALSE
