\* Two requests under way, a buffer as large, two levels of volume.
CONSTANTS
    Capacity = 2
    Relays = {1, 2}
    Top = 1
    MaxLost = 1
    MaxClicks = 1
SPECIFICATION WebSpec
INVARIANTS
    WakeUpIsNoCommand
    ShownWasReal
PROPERTIES
    CleanupReturns
    DisplayCatchesUp
    DeathIsReported
