\* Three samples a second, a fourth in excess; two numbers to a datagram.
CONSTANTS
    Voltages = {0, 1, 3}
    DIP_THRESHOLD = 3
    HYSTERESIS = 2
    MAX_SAMPLES_PER_SECOND = 3
    MAX_RESPONSE_SIZE = 26
    Margin = 16
    NumberSize = 5
    PerLine = 2
    MaxSamples = 4
SPECIFICATION FairSpec
INVARIANTS
    SecondsAreWhole
    DipsAreSeparate
    HistoryArrivesWhole
PROPERTY StopEndsProgram
