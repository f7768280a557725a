------------------------------- MODULE Joystick -------------------------------
(***************************************************************************)
(* joystickSamplingThread of beatbox/hal/src/joystick.c: every 10 ms it    *)
(* reads the converter, turns the value into a direction and reports it    *)
(* after it has seen the same one often enough in a row.  A failed I2C     *)
(* read is not told apart: read_i2c_reg16 returns 0, which is below        *)
(* UP_THRESHOLD, so to the thread the stick is up.                         *)
(***************************************************************************)
EXTENDS Integers

CONSTANTS
    StableReads     \* 3: repetitions that make a direction stable

ASSUME JoystickAssumption == StableReads \in Nat \ {0}

\* Left and right are on the channel that is not sampled.
Directions == {"up", "down", "none"}

VARIABLES
    stick,                          \* where the user holds it
    lastRawDirection, stableCount,  \* locals of the thread
    currentDirection,               \* what Joystick_getDirection reports
    failures,                       \* failed reads in a row, StableReads at most
    genuine                         \* history: one of the reads counted in
                                    \* stableCount, or the first, was of the stick

joystickVars ==
    <<stick, lastRawDirection, stableCount, currentDirection, failures, genuine>>

JoystickTypeOK ==
    /\ {stick, lastRawDirection, currentDirection} \subseteq Directions
    /\ stableCount \in 0 .. StableReads
    /\ failures \in 0 .. StableReads
    /\ genuine \in BOOLEAN

JoystickInit ==
    /\ stick = "none" /\ lastRawDirection = "none" /\ stableCount = 0
    /\ currentDirection = "none"
    /\ failures = 0 /\ genuine = TRUE

\* The user moves the stick.
Move(d) ==
    /\ stick # d
    /\ stick' = d
    /\ UNCHANGED <<lastRawDirection, stableCount, currentDirection, failures, genuine>>

BugStable(n) == n + 1 >= StableReads        \* mutant: one read short

\* The count has been incremented before it is compared.
Stable(n) == n >= StableReads

\* The body of the loop; the count stops where it no longer matters.
Debounce(rawDirection) ==
    LET same == rawDirection = lastRawDirection
        n == IF ~same THEN 0 ELSE IF stableCount < StableReads THEN stableCount + 1
             ELSE stableCount
    IN  /\ stableCount' = n
        /\ lastRawDirection' = rawDirection
        /\ currentDirection' =
               IF same /\ Stable(n) THEN rawDirection ELSE currentDirection

Sample ==
    /\ Debounce(stick)
    /\ failures' = 0 /\ genuine' = TRUE
    /\ UNCHANGED stick

\* A read that fails, on a bus that fails StableReads times in a row at most.
SampleFails ==
    /\ failures < StableReads
    /\ Debounce("up")
    /\ failures' = failures + 1
    /\ genuine' = (genuine /\ lastRawDirection = "up")
    /\ UNCHANGED stick

------------------------------------------------------------------------------
\* "Simple debouncing" (joystick.c:146) keeps failed reads from the volume: a
\* direction that begins to be reported has really been read from the stick.
ReportIsGenuine == [][currentDirection' # currentDirection => genuine']_joystickVars
==============================================================================
