----------------------------- MODULE FlashControl -----------------------------
(***************************************************************************)
(* How the knob sets the flashing LED of assignment 2.  A thread of        *)
(* rotary_encoder.c takes the edges of lines A and B, as the kernel queues *)
(* them line by line and drops those that find their queue full, through a *)
(* state machine that reports a direction at the third edge; main fetches  *)
(* the last report once a second, moves the frequency by 1 Hz and has      *)
(* pwm_led.c write it to the PWM, which refuses a pulse longer than the    *)
(* period.  Writes are taken to reach the driver.                          *)
(***************************************************************************)
EXTENDS Integers, Sequences

CONSTANTS
    MaxQueued,          \* edges of a line the kernel holds; 16 in Linux
    MAX_FREQUENCY,      \* 500 in the code
    InitialFrequency,   \* 10
    Second              \* a second in the unit of the PWM

FlashAssumption ==
    /\ MaxQueued \in Nat \ {0} /\ Second \in Nat \ {0}
    /\ MAX_FREQUENCY \in Nat
    /\ InitialFrequency \in 3 .. MAX_FREQUENCY

Lines == {"A", "B"}
Turns == {"cw", "ccw"}
States == {"REST", "CW_BEGIN", "CW_FINAL", "CCW_BEGIN", "CCW_FINAL"}

VARIABLES
    position,           \* place of the knob in its cycle; 0 is the detent
    events,             \* events[l]: edges of line l the kernel holds
    bulk,               \* lines the last wait reported and not read yet
    pCurrentState,      \* of the state machine
    last_direction,     \* 1, -1 or 0, what was reported and not fetched
    current_frequency,
    pwm,                \* period and pulse of the PWM
    run,                \* history: edges in a row in one direction, up to 3,
    late,               \* two edges have waited since the machine rested last,
    report              \* and what a report was based on

flashVars == <<position, events, bulk, pCurrentState, last_direction,
               current_frequency, pwm, run, late, report>>

TypeOK ==
    /\ position \in 0 .. 3
    /\ events \in [Lines -> Seq({"rising", "falling"})]
    /\ \A l \in Lines : Len(events[l]) <= MaxQueued
    /\ bulk \subseteq Lines
    /\ pCurrentState \in States
    /\ last_direction \in {-1, 0, 1}
    /\ current_frequency \in 0 .. MAX_FREQUENCY
    /\ pwm \in [period : Nat, duty : Nat]
    /\ run \in -3 .. 3 /\ late \in BOOLEAN
    /\ report \in [direction : {-1, 0, 1}, run : -3 .. 3, late : BOOLEAN]

NoReport == [direction |-> 0, run |-> 0, late |-> FALSE]

\* RotaryEncoder_init and PwmLed_init have run.
Init ==
    /\ position = 0 /\ events = [l \in Lines |-> << >>] /\ bulk = {}
    /\ pCurrentState = "REST" /\ last_direction = 0
    /\ current_frequency = InitialFrequency
    /\ pwm = [period |-> Second \div InitialFrequency,
              duty |-> (Second \div InitialFrequency) \div 2]
    /\ run = 0 /\ late = FALSE /\ report = NoReport

------------------------------------------------------------------------------
\* Clockwise: A falls, B falls, A rises, B rises.
High(l, p) == p \in (IF l = "A" THEN {0, 3} ELSE {0, 1})

Waiting == {l \in Lines : events[l] # << >>}

\* One edge in the same direction more, or the first in the other.
Continued(t) ==
    IF t = "cw" THEN IF run < 0 THEN 1 ELSE IF run = 3 THEN 3 ELSE run + 1
                ELSE IF run > 0 THEN -1 ELSE IF run = -3 THEN -3 ELSE run - 1

\* The user turns the knob by one edge, which is dropped if the queue of its
\* line is full.
TurnKnob(t) ==
    /\ position' = (position + (IF t = "cw" THEN 1 ELSE 3)) % 4
    /\ events' = [l \in Lines |->
                    IF \/ High(l, position') = High(l, position)
                       \/ Len(events[l]) = MaxQueued
                    THEN events[l]
                    ELSE Append(events[l], IF High(l, position') THEN "rising"
                                           ELSE "falling")]
    /\ run' = Continued(t)
    /\ late' = (late \/ Waiting # {})
    /\ UNCHANGED <<bulk, pCurrentState, last_direction, current_frequency, pwm,
                   report>>

\* gpiod_line_event_wait_bulk returns the lines that have an edge, or nothing
\* after 100 ms.
WaitForEdges ==
    /\ bulk = {} /\ Waiting # {}
    /\ bulk' = Waiting
    /\ UNCHANGED <<position, events, pCurrentState, last_direction,
                   current_frequency, pwm, run, late, report>>

BugNextState(s, l, e) ==                \* mutant: reports at the second edge
    CASE s = "REST" /\ e = "falling" -> IF l = "A" THEN "CW_FINAL" ELSE "CCW_FINAL"
      [] OTHER -> "REST"

\* The table states[], without its actions.
NextState(s, l, e) ==
    CASE s = "REST" /\ e = "falling" -> IF l = "A" THEN "CW_BEGIN" ELSE "CCW_BEGIN"
      [] s = "CW_BEGIN" /\ e = "falling" -> IF l = "A" THEN s ELSE "CW_FINAL"
      [] s = "CCW_BEGIN" /\ e = "falling" -> IF l = "B" THEN s ELSE "CCW_FINAL"
      [] s = "CW_FINAL" /\ l = "B" /\ e = "falling" -> s
      [] s = "CCW_FINAL" /\ l = "B" /\ e = "falling" -> s
      [] OTHER -> "REST"

\* Its actions: on_clockwise and on_counter_clockwise.
Reported(s, l, e) ==
    CASE s = "CW_FINAL" /\ l = "A" /\ e = "rising" -> 1
      [] s = "CCW_FINAL" /\ l = "B" /\ e = "rising" -> -1
      [] OTHER -> 0

\* One turn of the loop over the events of a wait.
ReadEvent(l) ==
    /\ l \in bulk /\ (l = "B" => "A" \notin bulk)
    /\ bulk' = bulk \ {l}
    /\ events' = [events EXCEPT ![l] = Tail(@)]
    /\ LET e == Head(events[l])
           by == Reported(pCurrentState, l, e)
       IN  /\ pCurrentState' = NextState(pCurrentState, l, e)
           /\ last_direction' = IF by # 0 THEN by ELSE last_direction
           /\ report' = IF by = 0 THEN NoReport
                        ELSE [direction |-> by, run |-> run, late |-> late]
    /\ late' = /\ late
               /\ pCurrentState' # "REST" \/ \E k \in Lines : events'[k] # << >>
    /\ UNCHANGED <<position, current_frequency, pwm, run>>

\* gpiod_line_event_read fails: the edge is left to the next wait.
ReadEventFails(l) ==
    /\ l \in bulk /\ (l = "B" => "A" \notin bulk)
    /\ bulk' = bulk \ {l}
    /\ UNCHANGED <<position, events, pCurrentState, last_direction,
                   current_frequency, pwm, run, late, report>>

------------------------------------------------------------------------------
(* process_rotary of main.c and PwmLed_setFrequency; only main calls them. *)

\* The driver's answer to a write.
WriteDuty(h, d) == IF d > h.period THEN h ELSE [h EXCEPT !.duty = d]
WritePeriod(h, p) == IF h.duty > p THEN h ELSE [h EXCEPT !.period = p]

SetPwmValues(h, p, d) == WriteDuty(WritePeriod(WriteDuty(h, 0), p), d)

BugRemembered(f) == IF f < 3 THEN current_frequency ELSE f
                                        \* mutant: an early return too early

\* The frequency kept: also the one the LED is too slow for.
Remembered(f) == f

\* Below 3 Hz the LED is off.
SetFrequency(f) ==
    /\ pwm' = IF f < 3 THEN WriteDuty(pwm, 0)
              ELSE SetPwmValues(pwm, Second \div f, (Second \div f) \div 2)
    /\ current_frequency' = Remembered(f)

Clamped(f) == IF f < 0 THEN 0 ELSE IF f > MAX_FREQUENCY THEN MAX_FREQUENCY ELSE f

\* RotaryEncoder_process takes the last report; earlier ones are forgotten.
ProcessRotary ==
    /\ last_direction # 0
    /\ last_direction' = 0
    /\ LET f == Clamped(current_frequency + last_direction)
       IN  IF f # current_frequency THEN SetFrequency(f)
           ELSE UNCHANGED <<current_frequency, pwm>>
    /\ UNCHANGED <<position, events, bulk, pCurrentState, run, late, report>>

Next ==
    \/ \E t \in Turns : TurnKnob(t)
    \/ WaitForEdges
    \/ \E l \in Lines : ReadEvent(l) \/ ReadEventFails(l)
    \/ ProcessRotary

Spec == Init /\ [][Next]_flashVars

------------------------------------------------------------------------------
\* A direction is reported only after three edges in a row in it, however the
\* knob wobbles in between, as long as no second edge arrived before the first
\* was read since the machine rested last.  A thread that was late reads A
\* before B, and a turn counter-clockwise for one clockwise
\* (rotary_encoder.c:54-90, 104-171).
ReportNeedsTurn ==
    ~report.late => /\ report.direction = 1 => report.run = 3
                    /\ report.direction = -1 => report.run = -3

\* The LED flashes half on, half off at the frequency the display shows, and is
\* off below 3 Hz, whatever the PWM has refused on the way (pwm_led.c:112-149).
LedFollowsFrequency ==
    IF current_frequency < 3 THEN pwm.duty = 0
    ELSE /\ pwm.period = Second \div current_frequency
         /\ pwm.duty = pwm.period \div 2
==============================================================================
