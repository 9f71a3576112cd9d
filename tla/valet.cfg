CONSTANTS
    r1 = r1
    r2 = r2
    p1 = p1
    p2 = p2
    s1 = s1
    NoSlot = NoSlot
    Requests <- TwoRequests
    Plates <- OnePlate
    SlotNames <- OneSlot
    Forms = {"plain", "spaced"}
    MaxCars = 2
    MaxSlotDocs = 2
    MaxRepeats = 1
SYMMETRY Symmetry
SPECIFICATION Spec
CHECK_DEADLOCK FALSE
INVARIANTS
    CarInv
    SlotsAccounted
PROPERTIES
    ForwardUnlessOvertaken
