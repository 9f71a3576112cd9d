CONSTANTS
    r1 = r1
    r2 = r2
    Requests <- TwoRequests
    Ops <- LiveOps
    Methods = {"RAZORPAY"}
    OrderedUnits = 2
    Discount = 0
    Surcharges = {0}
    Other = Other
    MaxVersion = 5
    MaxAttempts = 1
    MaxFaults = 0
SPECIFICATION FairSpec
CHECK_DEADLOCK FALSE
PROPERTIES
    ClaimResolves
    PaymentReachesKitchen
