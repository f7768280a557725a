\* Ctrl+C during the game.
CONSTANTS
    NEO_NUM_LEDS = 8
    T1 = 2
    T2 = 4
    T3 = 7
    T4 = 11
    T5 = 15
    Targets <- MCTargets
    Pointings <- MCPointings
    MaxQueued = 1
    MaxPresses = 1
    MaxBounces = 0
SPECIFICATION Spec
INVARIANT
    DarkAtTheEnd
