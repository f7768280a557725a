\* One press, held on after its contact has bounced.
CONSTANTS
    NEO_NUM_LEDS = 8
    T1 = 2
    T2 = 4
    T3 = 7
    T4 = 11
    T5 = 15
    Targets <- OneTarget
    Pointings <- HitOrMiss
    MaxQueued = 2
    MaxPresses = 1
    MaxBounces = 1
SPECIFICATION Spec
INVARIANT
    OneShotPerPress
