----------------------------- MODULE AccelTrigger -----------------------------
(***************************************************************************)
(* One axis of the accelerometer.  A thread of beatbox/hal/src/            *)
(* accelerometer.c reads the low byte, then the high byte of the sensor,   *)
(* which may have moved in between, and publishes the two as a 16 bit      *)
(* number.  AccelerometerApp_process (app/src/accelerometer.c), called by  *)
(* main, compares what is published with what it saw before, keeps the     *)
(* difference in an int16_t, and plays a drum when it is above a threshold *)
(* and 100 ms of processor time (clock()) have passed since the last one.  *)
(* A failed I2C read counts as the byte 0.  The three axes share nothing.  *)
(***************************************************************************)
EXTENDS Integers

CONSTANTS
    Low,                \* values of the low byte: 256 in the code
    Modulus,            \* values of an int16_t: 65536
    MOVEMENT_THRESHOLD, \* 4000
    Readings            \* what the sensor may read

Int16 == -(Modulus \div 2) .. Modulus \div 2 - 1

AccelAssumption ==
    /\ Low \in Nat \ {0} /\ Modulus \in Nat \ {0}
    /\ Modulus % 2 = 0 /\ (Modulus \div 2) % Low = 0
    /\ MOVEMENT_THRESHOLD \in Nat
    /\ Readings \subseteq Int16

VARIABLES
    sensor,     \* the reading now
    lowByte,    \* sampling thread: the low byte it has read, or -1,
    lowFailed,  \* and whether that read had failed
    current,    \* current_x
    prev,       \* prev_accel[0]
    recent,     \* less than 100 ms of processor time since the last drum
    truth,      \* history: the reading of the sensor behind current,
    before,     \* and behind prev; {} for the initial 0 and failed reads
    outcome     \* history: what the last call of process did, and saw

accelVars == <<sensor, lowByte, lowFailed, current, prev, recent, truth, before,
               outcome>>

TypeOK ==
    /\ sensor \in Readings
    /\ lowByte \in -1 .. Low - 1
    /\ {lowFailed, recent} \subseteq BOOLEAN
    /\ {current, prev} \subseteq Int16
    /\ {truth, before} \subseteq {{}} \cup {{r} : r \in Readings}
    /\ outcome.played => outcome.ready

\* Accelerometer_init; no drum has been played for as long as the clock runs.
Init ==
    /\ sensor \in Readings
    /\ lowByte = -1 /\ lowFailed = FALSE
    /\ current = 0 /\ prev = 0 /\ recent \in BOOLEAN
    /\ truth = {} /\ before = {}
    /\ outcome = [played |-> FALSE, ready |-> FALSE, new |-> {}, old |-> {}]

------------------------------------------------------------------------------
\* The board is moved.
Move(r) ==
    /\ r # sensor
    /\ sensor' = r
    /\ UNCHANGED <<lowByte, lowFailed, current, prev, recent, truth, before,
                   outcome>>

\* read_register(ACCEL_OUT_X_L).
ReadLow ==
    /\ lowByte = -1
    /\ \/ lowByte' = sensor % Low /\ lowFailed' = FALSE
       \/ lowByte' = 0 /\ lowFailed' = TRUE
    /\ UNCHANGED <<sensor, current, prev, recent, truth, before, outcome>>

\* Conversion of an int to int16_t.
Wrap(n) ==
    LET u == n % Modulus
    IN  IF u < Modulus \div 2 THEN u ELSE u - Modulus

\* (x_h << 8) | x_l
Joined(h, l) == Wrap((h \div Low) * Low + l)

\* read_register(ACCEL_OUT_X_H), and the two are published under the mutex.
ReadHigh ==
    /\ lowByte # -1
    /\ \/ /\ current' = Joined(sensor, lowByte)
          /\ truth' = IF lowFailed THEN {} ELSE {sensor}
       \/ current' = Joined(0, lowByte) /\ truth' = {}
    /\ lowByte' = -1 /\ lowFailed' = FALSE
    /\ UNCHANGED <<sensor, prev, recent, before, outcome>>

Abs(n) == IF n < 0 THEN -n ELSE n

\* deltas[0]
Delta == Wrap(Abs(current - prev))

BugKeep ==                                  \* mutant: only after a drum
    IF Delta > MOVEMENT_THRESHOLD /\ ~recent
    THEN prev' = current /\ before' = truth ELSE UNCHANGED prev /\ before' = truth

\* "Update previous values", every time.
Keep == prev' = current /\ before' = truth

\* AccelerometerApp_process.
Process ==
    LET plays == Delta > MOVEMENT_THRESHOLD /\ ~recent
    IN  /\ Keep
        /\ recent' = (recent \/ plays)
        /\ outcome' = [played |-> plays, ready |-> ~recent,
                        new |-> truth, old |-> before]
        /\ UNCHANGED <<sensor, lowByte, lowFailed, current, truth>>

\* The process has used 100 ms of processor time since last_trigger_time.
DebounceOver ==
    /\ recent
    /\ recent' = FALSE
    /\ UNCHANGED <<sensor, lowByte, lowFailed, current, prev, truth, before,
                   outcome>>

Next ==
    \/ \E r \in Readings : Move(r)
    \/ ReadLow \/ ReadHigh
    \/ Process
    \/ DebounceOver

Spec == Init /\ [][Next]_accelVars

------------------------------------------------------------------------------
\* How far two samples may be from the readings behind them, together: the
\* low byte of each may be from an earlier reading.
Torn == 2 * (Low - 1)

\* A drum is played only for a real movement, although samples may be torn;
\* the first samples, compared with 0, are the exception, and failed reads,
\* which disturb the comparisons they take part in and no later one.
DrumMeansMovement ==
    outcome.played =>
        \A new \in outcome.new, old \in outcome.old :
            Abs(new - old) > MOVEMENT_THRESHOLD - Torn

\* "Check each axis for significant movement" (accelerometer.c:57): a movement
\* above the threshold plays its drum, unless one was played just before.  The
\* int16_t of the difference sets the upper limit: a movement of half the range
\* or more, from one side to the other, turns negative there and plays nothing.
MovementPlaysDrum ==
    \A new \in outcome.new, old \in outcome.old :
        LET moved == Abs(new - old)
        IN  /\ moved > MOVEMENT_THRESHOLD + Torn
            /\ moved + Torn < Modulus \div 2
            /\ outcome.ready
            => outcome.played

\* Both: drums are played for movements, for all of them the debounce and 16
\* bits allow, and for nothing else (accelerometer.c:34-78).
DrumsFollowMovement == DrumMeansMovement /\ MovementPlaysDrum
==============================================================================
