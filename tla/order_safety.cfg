CONSTANTS
    r1 = r1
    r2 = r2
    Requests <- TwoRequests
    Ops <- AllOps
    Methods = {"RAZORPAY", "COD"}
    OrderedUnits = 2
    Discount = 0
    Surcharges = {0}
    Other = Other
    MaxVersion = 4
    MaxAttempts = 1
    MaxFaults = 1
SYMMETRY Symmetry
SPECIFICATION Spec
CHECK_DEADLOCK FALSE
INVARIANTS
    TypeOK
    RefundNeedsPayment
    KitchenWaitsForMoney
    OneRefundPerVersion
PROPERTIES
    ImplementsLedger
    SettledByNamedOrder
