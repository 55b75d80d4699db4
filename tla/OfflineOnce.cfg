\* One user, two pages.
CONSTANTS
    s1 = s1
    s2 = s2
    None = None
    Users = {u1}
    Sales = {s1, s2}
    Pages = {p1, p2}
    Requests = {q1, q2}
    Units <- MCUnits
    Loads = {l1}
    Initial = 2
    MaxOthers = 1
    MaxTrouble = 2
    Faults = {}
SPECIFICATION FairSpec
INVARIANT DeviceNeverOversells
PROPERTIES SalesAreExactlyOnce Noticed
CHECK_DEADLOCK FALSE
