CONSTANTS
    ann = ann
    bob = bob
    d1 = d1
    d2 = d2
    b1 = b1
    b2 = b2
    low = low
    high = high
    NoMove = NoMove
    NoBooking = NoBooking
    NoInvoice = NoInvoice
    Free = Free
    Gone = Gone
    Booking <- TwoBookings
    Class <- RoomClass
    Rate <- ClassRate
    Terms <- SomeTerms
    Prices = {150}
    Extras <- SomeExtras
    Room <- TwoRooms
    Guest <- OneGuest
    Desk <- TwoDesks
    Stays <- TwoNights
    Existing <- OneReservation
    HandStatuses = {"CHECKED_IN", "CHECKED_OUT"}
    RoomStatuses = {"MAINTENANCE"}
    MaxRequests = 3
    MaxFaults = 1
SYMMETRY DesksAlike
SPECIFICATION Spec
CHECK_DEADLOCK FALSE
INVARIANTS
    BilledForRoom
    InvoicedAsBilled
    HouseInv
