\* Everything that may happen to two orders of a shop or of a workshop.
CONSTANTS
    c1 = c1
    c2 = c2
    o1 = o1
    o2 = o2
    q1 = q1
    m1 = m1
    m2 = m2
    None = None
    Calls = {c1, c2}
    Quotes = {q1}
    Orders = {o1, o2}
    Materials = {m1, m2}
    Totals = {0, 2}
    Amounts = {1, 2}
    Used <- ShopOrWorkshop
    MaxBack = 1
SPECIFICATION Spec
SYMMETRY Symmetry
INVARIANTS InvoicedOnce CompletedIsPaid StockMatchesOrder OneOrderPerQuote ReservationsEnd
PROPERTY ForwardUnlessForced
CHECK_DEADLOCK FALSE
