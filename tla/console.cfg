SPECIFICATION Spec
CONSTANTS
    MaxTrouble = 4
INVARIANTS
    ScreenInv
    SavedIsShown
    RefusedOnlyWhenOvertaken
PROPERTIES
    NeverBackwards
    EventuallyShown
CHECK_DEADLOCK FALSE
