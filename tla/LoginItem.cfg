SPECIFICATION Spec
CONSTANTS
    MaxClicks = 3
    MaxChanges = 1
INVARIANTS LastClickDecides
PROPERTY ScreenCatchesUp
