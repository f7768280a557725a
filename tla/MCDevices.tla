------------------------------ MODULE MCDevices ------------------------------
(***************************************************************************)
(* Six small parts of the programs that share no state with one another,   *)
(* for TLC: the two copies of the tempo, the period timer, the rotation    *)
(* thread, the accelerometer, the screens with their button, and the knob  *)
(* and LED of assignment 2.  In a behaviour one of them moves and the      *)
(* others stay as they were started: what is checked of each is what a run *)
(* of its own would check.                                                 *)
(***************************************************************************)
EXTENDS TempoSync

CONSTANTS
    Events, Reporters, MAX_EVENT_TIMESTAMPS, MaxStep, MaxTime,
    MaxQueued,
    Low, Modulus, MOVEMENT_THRESHOLD, Readings,
    MAX_FREQUENCY, InitialFrequency, Second,
    LCD_SCREEN_COUNT, MaxPresses

VARIABLES
    mover,
    timestampsInNs, prevTimestampInNs, now, stats, marked, dropped, reported,
        first, total,
    knob, queue, toRead, clk_last_state, dt_last_state, first_reading, recent,
        step, behind, lost,
    sensor, lowByte, lowFailed, current, prev, justDrummed, truth, before, outcome,
    position, events, bulk, pCurrentState, last_direction, current_frequency,
        pwm, run, late, report,
    currentScreen, frameBuffer, panel, update, place, seen, buttonPressed,
        lastButtonState, presses, switches

Period == INSTANCE PeriodTimer
Encoder == INSTANCE RotaryEncoder
Accel == INSTANCE AccelTrigger WITH recent <- justDrummed
Flash == INSTANCE FlashControl
Lcd == INSTANCE LcdDisplay

ASSUME DevicesAssumption ==
    /\ Period!PeriodAssumption /\ Encoder!EncoderAssumption
    /\ Accel!AccelAssumption /\ Flash!FlashAssumption
    /\ Lcd!LcdAssumption

\* Readings of both signs and both low bits, some a threshold apart, some
\* half the range or more.
MCReadings == {-16, -9, -8, -1, 0, 3, 8, 15}

Movers == {"tempo", "period", "encoder", "accel", "flash", "lcd"}

periodVars == <<timestampsInNs, prevTimestampInNs, now, stats, marked, dropped,
                reported, first, total>>
encoderVars == <<knob, queue, toRead, clk_last_state, dt_last_state,
                 first_reading, recent, step, behind, lost>>
accelVars == <<sensor, lowByte, lowFailed, current, prev, justDrummed, truth,
               before, outcome>>
flashVars == <<position, events, bulk, pCurrentState, last_direction,
               current_frequency, pwm, run, late, report>>
lcdVars == <<currentScreen, frameBuffer, panel, update, place, seen, buttonPressed,
             lastButtonState, presses, switches>>
allVars == <<mover, vars, periodVars, encoderVars, accelVars, flashVars, lcdVars>>

AllInit ==
    /\ mover \in Movers
    /\ Init /\ Period!Init /\ Encoder!Init /\ Accel!Init /\ Flash!Init
    /\ Lcd!Init
    /\ mover # "encoder" => knob = 0
    /\ mover # "accel" => sensor = 0 /\ justDrummed = FALSE

AllNext ==
    \/ /\ mover = "tempo" /\ Next
       /\ UNCHANGED <<periodVars, encoderVars, accelVars, flashVars, lcdVars>>
    \/ /\ mover = "period" /\ Period!Next
       /\ UNCHANGED <<vars, encoderVars, accelVars, flashVars, lcdVars>>
    \/ /\ mover = "encoder" /\ Encoder!Next
       /\ UNCHANGED <<vars, periodVars, accelVars, flashVars, lcdVars>>
    \/ /\ mover = "accel" /\ Accel!Next
       /\ UNCHANGED <<vars, periodVars, encoderVars, flashVars, lcdVars>>
    \/ /\ mover = "flash" /\ Flash!Next
       /\ UNCHANGED <<vars, periodVars, encoderVars, accelVars, lcdVars>>
    \/ /\ mover = "lcd" /\ Lcd!Next
       /\ UNCHANGED <<vars, periodVars, encoderVars, accelVars, flashVars>>

AllSpec == AllInit /\ [][AllNext /\ UNCHANGED mover]_allVars

\* Every part keeps to its types.
TypesOK ==
    /\ TypeOK /\ Period!TypeOK /\ Encoder!TypeOK /\ Accel!TypeOK /\ Flash!TypeOK
    /\ Lcd!TypeOK

\* periodTimer.c: each event is in one report, and the periods join.
ReportsAddUp == Period!ReportsAddUp

\* periodTimer.c: a period of zero is what only the first event gets.
ZeroOnlyAtStartup == Period!ZeroOnlyAtStartup

\* rotaryEncoder.c: the tempo goes the way the knob was turned, and a thread
\* that was late catches up.
EncoderFollowsKnob == Encoder!EncoderFollowsKnob

\* accelerometer.c: a drum means a movement, and a movement plays its drum.
DrumsFollowMovement == Accel!DrumsFollowMovement

\* rotary_encoder.c: a report means three edges in its direction.
ReportNeedsTurn == Flash!ReportNeedsTurn

\* pwm_led.c: the LED has the frequency that is kept.
LedFollowsFrequency == Flash!LedFollowsFrequency

\* lcdDisplay.c, inputHandler.c: a press of the button shows one screen at most.
OneScreenPerPress == Lcd!OneScreenPerPress
==============================================================================
