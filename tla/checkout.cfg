CONSTANTS
    t1 = t1
    t2 = t2
    g = g
    s = s
    tea = tea
    cake = cake
    o1 = o1
    o2 = o2
    o3 = o3
    NoCount = NoCount
    NoCart = NoCart
    Free = Free
    Item <- TwoItems
    Order <- Orders3
    Tab <- TwoTabs
    GuestTab <- OneGuest
    Staff <- OneStaff
    Wishes <- Baskets
    Stock <- TeaOnly
    Levels <- Restocks
    LineLimit = 2
    MaxRequests = 3
    MaxFaults = 1
SYMMETRY Alike
SPECIFICATION Spec
CHECK_DEADLOCK FALSE
INVARIANTS
    CartInv
    StockAccounted
    OrderAsWished
