CONSTANTS
    c1 = c1
    c2 = c2
    c3 = c3
    ann = ann
    bob = bob
    Checkouts <- ThreeCheckouts
    Users <- TwoCustomers
    Callers <- Everyone
    Limits = {1, 2}
    PerUserLimits = {1, 2}
    Edits = {"limit", "perUser", "status", "delete"}
    MaxCrashes = 1
SYMMETRY Interchangeable
SPECIFICATION Spec
CHECK_DEADLOCK FALSE
INVARIANTS
    CouponBooks
    DiscountsWithinLimit
    UserDiscountsWithinLimit
