\* Every operation, three concurrent requests.
CONSTANTS
    r1 = r1
    r2 = r2
    None = None
    Requests = {p1, p2, p3}
    Rows = {r1, r2}
    Initial <- MCInitial
    Carts <- MCCarts
    Counts = {0, 2}
    Kinds <- AllKinds
SPECIFICATION Spec
SYMMETRY Sym
INVARIANTS TypeOK NeverNegative ReservationsBacked
CHECK_DEADLOCK FALSE
