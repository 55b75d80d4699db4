\* Another user signs in during a synchronization.
CONSTANTS
    s1 = s1
    s2 = s2
    None = None
    Users = {u1, u2}
    Sales = {s1}
    Pages = {p1}
    Requests = {q1}
    Units <- MCUnits
    Loads = {l1}
    Initial = 2
    MaxOthers = 0
    MaxTrouble = 0
    Faults = {"switch"}
SPECIFICATION Spec
INVARIANT SoldOnce
CHECK_DEADLOCK FALSE
