CONSTANTS
    t1 = t1
    t2 = t2
    home = home
    r1 = r1
    r2 = r2
    p = p
    q = q
    o1 = o1
    Tab <- TwoTabs
    Browser <- OneBrowser
    BrowserOf <- Shared
    Slot <- TwoRequests
    Order <- OneOrder
    Password <- TwoPasswords
    NoPassword = NoPassword
    NoUser = NoUser
    MaxAttempts = 2
    MaxRequests = 3
    MaxEvents = 1
SYMMETRY Alike
SPECIFICATION Spec
CHECK_DEADLOCK FALSE
INVARIANTS
    AccountInv
    OneLiveToken
    EndedStaysEnded
    NoFalseAlarm
