\* A press, of a button that may be held already, whose contact bounces once.
CONSTANTS
    NEO_NUM_LEDS = 8
    T1 = 2
    T2 = 4
    T3 = 7
    T4 = 11
    T5 = 15
    Targets <- MCTargets
    Pointings <- MCPointings
    MaxQueued = 1
    MaxPresses = 1
    MaxBounces = 1
SPECIFICATION FairSpec
INVARIANTS
    ScoreIsEarned
    LedsPointTheWay
    NothingUsedClosed
PROPERTY
    StopEndsGame
