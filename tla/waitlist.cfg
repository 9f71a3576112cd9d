CONSTANTS
    a1 = a1
    a2 = a2
    small = small
    large = large
    couple = couple
    trio = trio
    duo = duo
    Free = Free
    NoReservation = NoReservation
    Queue = Queue
    Actor <- TwoActors
    Group <- Groups
    Size <- Sizes
    Reservation = {}
    Order = {}
    Table <- TwoTables
    Capacity <- Seats
    Parties = {}
    Slots = {}
    HandStatuses = {}
    Ops = {"seat", "close", "join", "list", "seatGroup", "cancelEntry", "auto"}
    MaxSessions = 2
    MaxRequests = 5
    MaxFaults = 1
SYMMETRY Alike
SPECIFICATION QueueSpec
CHECK_DEADLOCK FALSE
INVARIANTS
    QueueInv
    OnePartyPerTable
    NobodyWaitsInVain
PROPERTIES
    NoQueueJumping
