\* Hundredths of a volt: the voltage of the light falls by 0.1 V, comes back
\* by 0.03 V and falls again.
CONSTANTS
    Voltages = {0, 3, 10}
    DIP_THRESHOLD = 10
    HYSTERESIS = 3
    MAX_SAMPLES_PER_SECOND = 4
    MAX_RESPONSE_SIZE = 26
    Margin = 16
    NumberSize = 5
    PerLine = 2
    MaxSamples = 4
SPECIFICATION Spec
INVARIANT
    RisesBetweenDips
