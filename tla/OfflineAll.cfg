\* Everything: two users, losses and errors, a catalogue saved late.
CONSTANTS
    s1 = s1
    s2 = s2
    None = None
    Users = {u1, u2}
    Sales = {s1}
    Pages = {p1, p2}
    Requests = {q1, q2}
    Units <- MCUnits
    Loads = {l1}
    Initial = 1
    MaxOthers = 0
    MaxTrouble = 1
    Faults = {"switch", "overlap"}
SPECIFICATION Spec
SYMMETRY Sym
INVARIANTS TypeOK SyncedIsSold
CHECK_DEADLOCK FALSE
