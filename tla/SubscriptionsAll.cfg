\* A business on trial, its requests, Apple's purchases, the platform, its users.
CONSTANTS
    c1 = c1
    c2 = c2
    r1 = r1
    r2 = r2
    p1 = p1
    p2 = p2
    None = None
    Calls = {c1, c2}
    Requests = {r1, r2}
    Purchases = {p1, p2}
    Edits <- SomeEdits
    Limit <- Room
    Month = 1
    CacheLife = 1
    Scenes = {{"time", "trial", "expiry", "requests"}, {"time", "trial", "expiry", "apple"}, {"time", "trial", "users"}, {"time", "trial", "expiry", "edits"}, {"time", "expiry", "edits", "statuses"}, {"trial", "edits", "statuses"}, {"requests", "edits"}, {"requests", "apple"}, {"apple", "edits"}, {"apple", "statuses"}, {"trial", "requests", "users"}, {"requests", "statuses"}}
    MaxTime = 2
    MaxSigned = 3
SPECIFICATION Spec
SYMMETRY Symmetry
INVARIANTS RequestsAnswered StatusInPhase CacheFollowsPlan AppleNewestWins
PROPERTIES PaidPlanKept LimitKept
CHECK_DEADLOCK FALSE
