CONSTANTS
    r1 = r1
    r2 = r2
    Requests <- TwoRequests
    Ops <- CancelOps
    Methods = {"RAZORPAY"}
    OrderedUnits = 2
    Discount = 1
    Surcharges = {0, 2}
    Other = Other
    MaxVersion = 5
    MaxAttempts = 1
    MaxFaults = 0
SYMMETRY Symmetry
SPECIFICATION Spec
CHECK_DEADLOCK FALSE
INVARIANT
    MoneyInv
