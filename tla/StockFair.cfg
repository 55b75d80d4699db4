\* Operations that do not overwrite a quantity, on two rows in opposite orders.
CONSTANTS
    r1 = r1
    r2 = r2
    None = None
    Requests = {p1, p2, p3}
    Rows = {r1, r2}
    Initial <- MCInitial
    Carts <- MCPairs
    Counts = {2}
    Kinds <- FairKinds
SPECIFICATION FairSpec
PROPERTIES StockIsAtomic RequestsEnd
CHECK_DEADLOCK FALSE
