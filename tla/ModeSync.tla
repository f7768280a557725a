------------------------------- MODULE ModeSync -------------------------------
(***************************************************************************)
(* The beat mode of the beatbox lives twice: currentBeatMode belongs to    *)
(* the encoder's button (buttonStateMachine.c, rotaryEncoder.c), and       *)
(* currentMode to the beat player.  The button changes both, a UDP command *)
(* only the player's, and the main loop reconciles the two every 50 ms     *)
(* from copies it read a moment before (main.c:126-142).  Neither button   *)
(* nor main holds a lock over its read and its write of currentBeatMode.   *)
(***************************************************************************)
EXTENDS Integers

CONSTANTS
    MaxModeRequests \* bound: presses and commands an instance makes

ASSUME ModeAssumption == MaxModeRequests \in Nat

\* The iteration a request falls into, one that carries it to the other
\* variable, and one that brings lastEncoderMode up to date.
Settle == 3

NONE == 0
ROCK == 1
CUSTOM == 2
Modes == {NONE, ROCK, CUSTOM}

VARIABLES
    currentBeatMode,    \* the encoder's mode
    currentMode,        \* the beat player's mode
    lastEncoderMode,    \* main: the encoder's mode one iteration ago
    main, enc, ply,     \* main: its place and the two copies it read
    pressed,            \* pCurrentState of the button's state machine
    recent,             \* less than 250 ms since lastButtonPressTime
    button, seen,       \* button thread: its place, and the mode it read
    udp,                \* UDP thread: "idle", or "reply" after setting
    modeRequests,       \* presses and commands so far
    latest,             \* history: the mode asked for last
    age,                \* history: iterations of main since, up to Settle
    spaced              \* history: the last request found main's loop settled

modeVars == <<currentBeatMode, currentMode, lastEncoderMode, main, enc, ply,
              pressed, recent, button, seen, udp, modeRequests, latest, age, spaced>>
mainVars == <<lastEncoderMode, main, enc, ply>>
buttonVars == <<pressed, recent, button, seen>>
history == <<modeRequests, latest, age, spaced>>

ModeTypeOK ==
    /\ {currentBeatMode, currentMode, lastEncoderMode, enc, ply, seen, latest}
            \subseteq Modes
    /\ main \in {"start", "encoder", "player", "reconcile"}
    /\ pressed \in BOOLEAN /\ recent \in BOOLEAN
    /\ button \in {"idle", "write", "set"}
    /\ udp \in {"idle", "reply"}
    /\ modeRequests \in 0 .. MaxModeRequests /\ age \in 0 .. Settle /\ spaced \in BOOLEAN

\* BeatPlayer_init and RotaryEncoder_init are done; main.c:86 comes next.
ModeInit ==
    /\ currentBeatMode = ROCK /\ currentMode = NONE
    /\ lastEncoderMode = ROCK /\ main = "start" /\ enc = ROCK /\ ply = ROCK
    /\ pressed = FALSE /\ recent = TRUE /\ button = "idle" /\ seen = ROCK
    /\ udp = "idle"
    /\ modeRequests = 0 /\ latest = ROCK /\ age = Settle /\ spaced = FALSE

\* The environment asks for mode m.
MayRequest == modeRequests < MaxModeRequests
Request(m) ==
    /\ modeRequests' = modeRequests + 1 /\ latest' = m /\ age' = 0
    /\ spaced' = (age = Settle /\ main # "start")

------------------------------------------------------------------------------
(* main.c                                                                  *)

\* BeatPlayer_setMode(BEAT_MODE_ROCK) before the loop.
SetDefault ==
    /\ main = "start"
    /\ currentMode' = ROCK
    /\ main' = "encoder"
    /\ UNCHANGED <<currentBeatMode, lastEncoderMode, enc, ply, buttonVars, udp,
                   history>>

\* RotaryEncoder_getBeatMode, under the encoder's mutex.
ReadEncoder ==
    /\ main = "encoder"
    /\ enc' = currentBeatMode
    /\ main' = "player"
    /\ UNCHANGED <<currentBeatMode, currentMode, lastEncoderMode, ply,
                   buttonVars, udp, history>>

\* BeatPlayer_getMode, without a lock.
ReadPlayer ==
    /\ main = "player"
    /\ ply' = currentMode
    /\ main' = "reconcile"
    /\ UNCHANGED <<currentBeatMode, currentMode, lastEncoderMode, enc,
                   buttonVars, udp, history>>

\* The copies differ: the player follows an encoder that has moved since the
\* last iteration; otherwise the encoder follows the player.
Follow ==
    IF enc # lastEncoderMode
    THEN currentMode' = enc /\ UNCHANGED currentBeatMode
    ELSE currentBeatMode' = ply /\ UNCHANGED currentMode

BugReconcile ==                         \* mutant: without the else branch
    IF enc # ply /\ enc # lastEncoderMode
    THEN currentMode' = enc /\ UNCHANGED currentBeatMode
    ELSE UNCHANGED <<currentMode, currentBeatMode>>

ReconcileModes ==
    IF enc # ply THEN Follow ELSE UNCHANGED <<currentMode, currentBeatMode>>

BugRemember == UNCHANGED lastEncoderMode
                                        \* mutant: the copy is not kept

Remember == lastEncoderMode' = enc

Reconcile ==
    /\ main = "reconcile"
    /\ ReconcileModes
    /\ Remember
    /\ main' = "encoder"
    /\ age' = IF age < Settle /\ button = "idle" THEN age + 1 ELSE age
    /\ UNCHANGED <<enc, ply, buttonVars, udp, modeRequests, latest, spaced>>

------------------------------------------------------------------------------
(* buttonStateMachine.c: two states, and on_release on the rising edge.    *)

FallingEdge ==
    /\ button = "idle" /\ ~pressed
    /\ pressed' = TRUE
    /\ UNCHANGED <<currentBeatMode, currentMode, mainVars, recent, button, seen,
                   udp, history>>

\* Within 250 ms of the last accepted release nothing happens.
BouncedEdge ==
    /\ button = "idle" /\ pressed /\ recent
    /\ pressed' = FALSE
    /\ UNCHANGED <<currentBeatMode, currentMode, mainVars, recent, button, seen,
                   udp, history>>

\* NONE -> ROCK -> CUSTOM -> NONE.
Cycle(m) == (m + 1) % 3

\* on_release starts: it reads the mode in the switch ...
Release ==
    /\ button = "idle" /\ pressed /\ ~recent
    /\ MayRequest
    /\ pressed' = FALSE /\ recent' = TRUE
    /\ seen' = currentBeatMode
    /\ button' = "write"
    /\ Request(Cycle(currentBeatMode))
    /\ UNCHANGED <<currentBeatMode, currentMode, mainVars, udp>>

\* ... stores its successor ...
WriteMode ==
    /\ button = "write"
    /\ currentBeatMode' = Cycle(seen)
    /\ button' = "set"
    /\ UNCHANGED <<currentMode, mainVars, pressed, recent, seen, udp, history>>

\* ... and gives the player what the variable holds by then.
SetPlayer ==
    /\ button = "set"
    /\ currentMode' = currentBeatMode
    /\ button' = "idle"
    /\ UNCHANGED <<currentBeatMode, mainVars, pressed, recent, seen, udp, history>>

\* 250 ms have passed since lastButtonPressTime.
DebounceOver ==
    /\ recent
    /\ recent' = FALSE
    /\ UNCHANGED <<currentBeatMode, currentMode, mainVars, pressed, button, seen,
                   udp, history>>

------------------------------------------------------------------------------
(* udpServer.c: "mode m".                                                  *)

UdpMode(m) ==
    /\ udp = "idle" /\ MayRequest
    /\ currentMode' = m
    /\ udp' = "reply"
    /\ Request(m)
    /\ UNCHANGED <<currentBeatMode, mainVars, buttonVars>>

UdpReply ==
    /\ udp = "reply"
    /\ udp' = "idle"
    /\ UNCHANGED <<currentBeatMode, currentMode, mainVars, buttonVars, history>>

------------------------------------------------------------------------------
MainStep == SetDefault \/ ReadEncoder \/ ReadPlayer \/ Reconcile
ButtonStep == WriteMode \/ SetPlayer
Input == FallingEdge \/ BouncedEdge \/ Release \/ DebounceOver
             \/ \E m \in Modes : UdpMode(m)

ModeNext == MainStep \/ ButtonStep \/ UdpReply \/ Input

ModeSpec == ModeInit /\ [][ModeNext]_modeVars

(* The three threads are scheduled; users owe nothing.                     *)
ModeFairSpec ==
    /\ ModeSpec
    /\ WF_modeVars(MainStep) /\ WF_modeVars(ButtonStep) /\ WF_modeVars(UdpReply)

------------------------------------------------------------------------------
\* Once the users are quiet the two modes become equal and stay so: whatever
\* interleaving of button, command and main loop came before, the main loop
\* does not toggle between them, and what is shown is what is played.
ModesConverge == <>[](currentBeatMode = currentMode)

\* A request that finds the main loop settled, Settle iterations or more after
\* the one before it, is never undone, whatever raced earlier: Settle iterations
\* later both modes are what it asked for, whether the button or a command asked.
LatestRequestWins ==
    spaced /\ age = Settle /\ button = "idle" /\ main = "encoder" =>
        currentMode = latest /\ currentBeatMode = latest
==============================================================================
