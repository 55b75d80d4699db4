\* Two transfers among sales, and everything that may fail.
CONSTANTS
    x = x
    y = y
    None = None
    Calls = {t1, t2}
    Places = {A, B}
    Items = {x, y}
    Initial <- MCInitial
    Carts <- MCCarts
    Faults = {"error", "crash"}
SPECIFICATION FairSpec
INVARIANTS TypeOK AllOrNothing StockFollowsStatuses
PROPERTY TransferEnds
CHECK_DEADLOCK FALSE
