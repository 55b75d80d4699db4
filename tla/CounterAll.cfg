\* A register with two sessions, a sale or an invoice, and two calls at one time.
CONSTANTS
    c1 = c1
    c2 = c2
    d1 = d1
    d2 = d2
    l1 = l1
    l2 = l2
    None = None
    Calls = {c1, c2}
    Sessions = {d1, d2}
    Lines = {l1, l2}
    Sold <- TwoAndOne
    Total = 2
    Amounts = {1, 2}
    Returns <- SomeReturns
    Scenes = {{"drawer"}, {"sale", "invoice"}}
    MaxBack = 2
    MaxMoves = 1
    MaxEdits = 1
SPECIFICATION Spec
SYMMETRY Symmetry
INVARIANTS InvoiceAgrees ReturnsFitSale RestockedOnce OneOpenSession ClosedReportStays
CHECK_DEADLOCK FALSE
