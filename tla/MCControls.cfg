\* Volume: the stick alone decides when to step, UDP commands interfere.  Mode:
\* requests at any moment, also between two steps of the main loop.  Screen:
\* presses at any moment of main's updates and of the thread's own refresh.
CONSTANTS
    StableReads = 2
    INITIAL_DELAY_COUNT = 4
    CONTINUOUS_RATE = 2
    DIRECTION_CHANGE_COOLDOWN = 4
    VOLUME_CHANGE_AMOUNT = 2
    HOLD_VOLUME_CHANGE_AMOUNT = 1
    MAX_VOLUME = 3
    DefaultVolume = 2
    Requests = {0, 2}
    MaxRequests = 1
    MaxModeRequests = 4
    LCD_SCREEN_COUNT = 3
    MaxPresses = 4
SPECIFICATION ControlsSpec
INVARIANTS
    CacheIsHardware
    LatestRequestWins
PROPERTIES
    ReportIsGenuine
    PauseAfterPress
    HoldReachesTheLimit
    ModesMeet
    PictureIsRepaired
