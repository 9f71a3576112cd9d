CONSTANTS
    a1 = a1
    a2 = a2
    r1 = r1
    r2 = r2
    o1 = o1
    o2 = o2
    small = small
    large = large
    Free = Free
    NoReservation = NoReservation
    Actor <- TwoActors
    Reservation <- TwoReservations
    Order <- TwoOrders
    Table <- TwoTables
    Capacity <- Seats
    Parties = {2}
    Slots <- TwoSlots
    HandStatuses = {"CANCELLED", "NO_SHOW", "CONFIRMED"}
    Ops = {"edit", "seat", "bill", "close", "order", "reserve", "pay", "update"}
    MaxSessions = 3
    MaxRequests = 4
    MaxFaults = 1
SYMMETRY Alike
SPECIFICATION Spec
CHECK_DEADLOCK FALSE
INVARIANTS
    FloorInv
    NoDoubleReservation
    OrdersInTheirSession
    SeatedGuestsHaveTable
