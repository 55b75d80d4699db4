\* A purchase order, an inventory with goods that move, transfers between two stores.
CONSTANTS
    c1 = c1
    c2 = c2
    l1 = l1
    l2 = l2
    t1 = t1
    t2 = t2
    t3 = t3
    t4 = t4
    w1 = w1
    w2 = w2
    None = None
    Calls = {c1, c2}
    Lines = {l1, l2}
    Ordered <- TwoAndOne
    Receipts <- SomeReceipts
    Total = 2
    Amounts = {1, 2}
    Transfers = {t1, t2, t3, t4}
    Depots = {w1, w2}
    From <- Out
    To <- In
    OnHand <- TwoAndOne
    Scenes = {{"purchase"}, {"count"}, {"stores"}}
    MaxPaid = 3
    MaxEdits = 1
    MaxAdjusted = 2
SPECIFICATION Spec
SYMMETRY Symmetry
INVARIANTS ReceivedAsOrdered StatusFollowsReceipts SupplierPaid InventoryCorrects StoresFollowTransfers
CHECK_DEADLOCK FALSE
