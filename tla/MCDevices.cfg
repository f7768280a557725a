CONSTANTS
    \* Turns of the knob and commands near both limits of the tempo.
    MIN_BPM = 1
    MAX_BPM = 6
    BPM_CHANGE_AMOUNT = 2
    DEFAULT_BPM = 4
    Tempos = {1, 3, 6, 7}
    MaxRequests = 3
    \* Two reporters, and room for two time stamps per event.
    Events = {audio, accel}
    Reporters = {lcd, console}
    MAX_EVENT_TIMESTAMPS = 2
    MaxStep = 2
    MaxTime = 7
    \* A thread of either encoder may be up to two edges of each line behind, and
    \* lose those that follow.
    MaxQueued = 2
    \* An accelerometer of five bits, one of them in the low byte.
    Low = 2
    Modulus = 32
    MOVEMENT_THRESHOLD = 3
    Readings <- MCReadings
    \* Off, on, and at the upper limit.
    MAX_FREQUENCY = 6
    InitialFrequency = 4
    Second = 60
    \* Presses at any moment of main's updates and of the thread's own refresh.
    LCD_SCREEN_COUNT = 3
    MaxPresses = 4
SPECIFICATION AllSpec
INVARIANTS
    TypesOK
    LatestTempoPlays
    ReportsAddUp
    EncoderFollowsKnob
    DrumsFollowMovement
    ReportNeedsTurn
    LedFollowsFrequency
    OneScreenPerPress
PROPERTY ZeroOnlyAtStartup
