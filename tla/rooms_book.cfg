CONSTANTS
    ann = ann
    bob = bob
    d1 = d1
    d2 = d2
    b1 = b1
    b2 = b2
    low = low
    high = high
    NoMove = NoMove
    NoBooking = NoBooking
    NoInvoice = NoInvoice
    Free = Free
    Gone = Gone
    Booking <- TwoBookings
    Class <- RoomClass
    Rate <- ClassRate
    Terms <- NoTerms
    Prices = {}
    Extras <- NoExtras
    Room <- OneRoom
    Guest <- TwoGuests
    Desk <- OneDesk
    Stays <- Weekends
    Existing <- Empty
    HandStatuses = {"CONFIRMED", "CHECKED_IN", "CANCELLED"}
    RoomStatuses = {}
    MaxRequests = 4
    MaxFaults = 1
SYMMETRY GuestsAlike
SPECIFICATION Spec
CHECK_DEADLOCK FALSE
INVARIANTS
    BookingInv
    NoDoubleBooking
