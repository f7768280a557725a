------------------------------ MODULE TargetGame ------------------------------
(***************************************************************************)
(* The "Find the Dot" game of linux_neopixel.  main starts the components, *)
(* then loops: it looks whether the joystick asked for the end, reads the  *)
(* accelerometer, fires if the button was pressed, and writes the colours  *)
(* of an animation or of the aim to memory it shares with the R5 core.     *)
(* Three threads feed it: the accelerometer's, the firing button's with a  *)
(* state machine and a debounce, and the shutdown button's.  SIGINT is     *)
(* handled by main.c at first and by lcd_display_impl.c from the start of  *)
(* the display on.  Coordinates are whole numbers, any unit.               *)
(***************************************************************************)
EXTENDS Integers, Sequences, FiniteSets

CONSTANTS
    NEO_NUM_LEDS,           \* 8
    T1, T2, T3, T4, T5,     \* the thresholds of target_game.c
    Targets,                \* <<x, y>> a target may have
    Pointings,              \* <<x, y>> the board may point at
    MaxQueued,              \* edges of the button the kernel holds: 16
    MaxPresses,             \* bound: presses of the firing button
    MaxBounces              \* bound: times its contact bounces

ASSUME GameAssumption ==
    /\ NEO_NUM_LEDS \in Nat /\ NEO_NUM_LEDS >= 8
    /\ {T1, T2, T3, T4, T5} \subseteq Nat
    /\ 0 < T1 /\ T1 < T2 /\ T2 < T3 /\ T3 < T4 /\ T4 < T5
    /\ Targets \subseteq Int \X Int /\ Targets # {}
    /\ Pointings \subseteq Int \X Int
    /\ {MaxQueued, MaxPresses, MaxBounces} \subseteq Nat

Leds == 0 .. NEO_NUM_LEDS - 1
Hues == {"red", "green", "blue"}
Off == <<"off", "off">>
Colors == (Hues \X {"bright", "dim"}) \cup
          {Off, <<"hit", "any">>, <<"miss", "any">>}
All(c) == [i \in Leds |-> c]
Dark == All(Off)

Threads == {"accel", "firing", "shutdown"}
Resources == {"gpio", "lcd", "i2c", "firing line", "shutdown line", "memory"}

VARIABLES
    main,               \* where main is; the names follow the calls
    exit,               \* "no", or how the process ended: "clean" by the
                        \* cleanup of main, "failed" in the startup, "handler"
                        \* in lcd_display_impl.c's signal handler
    should_exit,        \* main.c's flag
    handler,            \* whose handler SIGINT has: "main" or "lcd"
    open,               \* resources in use
    thread,             \* thread[t]: "none", "run" or "ended"
    running,            \* threads whose flag says go on
    held, down,         \* firing button: a finger on it, its contact closed
    contact,            \* "settled", or since the finger last moved "moving"
                        \* with no rising edge so far, "risen" after one
    queue,              \* its edges not yet read, each with its chance
    pressed, recent,    \* its state machine; less than 250 ms since a press
    button_was_pressed,
    shutdown_requested, \* shutdown button: flag of its thread
    target, hitCount, missCount, currentAnimation,
    aim,                \* where the board pointed in the last iteration
    leds,               \* the colours in shared memory
    presses, bounces,   \* history: how often the finger pressed, the contact
                        \* bounced,
    chances,            \* how often the contact moved with a rising edge,
    fired, slips,       \* the last such chance taken; debounce times that
                        \* passed before another edge of that chance was read
    generated           \* targets made

place == <<main, exit, should_exit>>
process == <<handler, open, thread, running>>
line == <<held, down, contact, queue>>
counts == <<presses, bounces, chances, fired, slips>>
button == <<line, pressed, recent, button_was_pressed, counts>>
input == <<button, shutdown_requested>>
game == <<target, hitCount, missCount, currentAnimation, aim, leds, generated>>
vars == <<place, process, input, game>>

Startup == {"gpio", "signal", "lcd", "accel", "firing", "shutdown", "memory", "game"}
Loop == {"test", "ask", "play"}
Cleanup == {"dark", "unmap", "stop shutdown", "join shutdown", "stop firing",
            "join firing", "stop accel", "join accel", "stop lcd", "stop gpio"}

Edges == [edge : {"falling", "rising"}, chance : Nat]

ButtonTypeOK ==
    /\ contact \in {"settled", "moving", "risen"}
    /\ queue \in Seq(Edges)
    /\ {held, down, pressed, recent, button_was_pressed} \subseteq BOOLEAN
    /\ {presses, bounces, chances, fired, slips} \subseteq Nat

TypeOK ==
    /\ main \in Startup \cup Loop \cup Cleanup \cup {"ended"}
    /\ exit \in {"no", "clean", "failed", "handler"}
    /\ should_exit \in BOOLEAN /\ handler \in {"main", "lcd"}
    /\ open \subseteq Resources /\ running \subseteq Threads
    /\ thread \in [Threads -> {"none", "run", "ended"}]
    /\ ButtonTypeOK /\ shutdown_requested \in BOOLEAN
    /\ target \in Targets
    /\ {hitCount, missCount, generated} \subseteq Nat
    /\ currentAnimation \in {"none", "hit", "miss"}
    /\ aim \in Pointings \cup {<<0, 0>>}
    /\ leds \in [Leds -> Colors]

\* main has set its own signal handlers; the button may be held down.  The
\* debounce starts with its thread.
Init ==
    /\ main = "gpio" /\ exit = "no" /\ should_exit = FALSE /\ handler = "main"
    /\ open = {} /\ thread = [t \in Threads |-> "none"] /\ running = {}
    /\ held \in BOOLEAN /\ down = held /\ contact = "settled" /\ queue = << >>
    /\ pressed = FALSE /\ recent = TRUE /\ button_was_pressed = FALSE
    /\ shutdown_requested = FALSE
    /\ target \in Targets /\ hitCount = 0 /\ missCount = 0
    /\ currentAnimation = "none" /\ aim = <<0, 0>> /\ leds = Dark
    /\ presses = (IF held THEN 1 ELSE 0) /\ bounces = 0
    /\ chances = 0 /\ fired = 0 /\ slips = 0 /\ generated = 0

------------------------------------------------------------------------------
(* target_game.c without its clock: an animation may end at any moment.    *)

Abs(n) == IF n < 0 THEN -n ELSE n
DeltaX(at) == at[1] - target'[1]
DeltaY(at) == at[2] - target'[2]
OnTarget(at, t) == Abs(at[1] - t[1]) < T1 /\ Abs(at[2] - t[2]) < T1

\* The band of a vertical offset: how many thresholds it is beyond, below
\* the target or above it.
Band(d) ==
    LET beyond == Cardinality({t \in {T1, T2, T3, T4, T5} : Abs(d) > t})
    IN  IF d < 0 THEN -beyond ELSE beyond

Around(i) == [bright |-> {i}, dim |-> {i - 1, i + 1}]

BugShape(b) ==                          \* mutant: the band below, copied
    LET last == NEO_NUM_LEDS - 1
    IN  CASE b = 1 -> Around(last - 3)
          [] b = -1 -> Around(last - 3)
          [] OTHER -> [bright |-> {}, dim |-> {}]

\* The LEDs that are lit for a band, o for dim and X for bright.
Shape(b) ==
    LET last == NEO_NUM_LEDS - 1
    IN  CASE b = -5 -> [bright |-> {}, dim |-> {last}]
          [] b = -4 -> [bright |-> {last}, dim |-> {last - 1}]
          [] b = -3 -> Around(last - 1)
          [] b = -2 -> Around(last - 2)
          [] b = -1 -> Around(last - 3)
          [] b =  1 -> Around(2)
          [] b =  2 -> Around(3)
          [] b =  3 -> Around(2)
          [] b =  4 -> [bright |-> {0}, dim |-> {1}]
          [] b =  5 -> [bright |-> {}, dim |-> {0}]
          [] OTHER  -> [bright |-> {}, dim |-> {}]

Hue(d) == IF d < -T1 THEN "red" ELSE IF d > T1 THEN "green" ELSE "blue"

\* TargetGame_processPointing.
ProcessPointing(at) ==
    LET hue == Hue(DeltaX(at))
        shape == Shape(Band(DeltaY(at)))
    IN  IF Abs(DeltaY(at)) < T1 THEN All(<<hue, "bright">>)
        ELSE [i \in Leds |-> IF i \in shape.bright THEN <<hue, "bright">>
                             ELSE IF i \in shape.dim THEN <<hue, "dim">> ELSE Off]

\* TargetGame_fire: counts, and starts an animation in place of any other.
Fire(at) ==
    LET hit == OnTarget(at, target)
    IN  [anim |-> IF hit THEN "hit" ELSE "miss",
         hits |-> IF hit THEN hitCount + 1 ELSE hitCount,
         misses |-> IF hit THEN missCount ELSE missCount + 1]

BugReplaces(anim) == anim # "none"      \* mutant: a miss moves the target too

\* The animations at whose end a new target is made.
Replaces(anim) == anim = "hit"

\* TargetGame_updateAnimations, then TargetGame_processPointing unless an
\* animation is running; over is whether its 500 ms have passed.
Render(anim, at, over) ==
    IF anim # "none" /\ ~over
    THEN /\ currentAnimation' = anim
         /\ leds' = All(<<anim, "any">>)
         /\ UNCHANGED <<target, generated>>
    ELSE /\ currentAnimation' = "none"
         /\ IF Replaces(anim)
            THEN target' \in Targets /\ generated' = generated + 1
            ELSE UNCHANGED <<target, generated>>
         /\ leds' = ProcessPointing(at)

------------------------------------------------------------------------------
(* main.c: startup.  A component that fails to start sends main into its   *)
(* cleanup, behind the components that were not started yet.               *)

GoTo(p) == main' = p
Fails(p) == GoTo(p) /\ exit' = "failed"

GpioInitialize ==
    /\ main = "gpio"
    /\ \/ GoTo("signal") /\ open' = open \cup {"gpio"} /\ UNCHANGED exit
       \/ Fails("ended") /\ UNCHANGED open
    /\ UNCHANGED <<should_exit, handler, thread, running, input, game>>

\* LcdDisplayImpl_init takes SIGINT over, then spends two seconds on the LCD.
TakeSignal ==
    /\ main = "signal"
    /\ handler' = "lcd"
    /\ GoTo("lcd")
    /\ UNCHANGED <<exit, should_exit, open, thread, running, input, game>>

LcdInit ==
    /\ main = "lcd"
    /\ \/ GoTo("accel") /\ open' = open \cup {"lcd"} /\ UNCHANGED exit
       \/ Fails("ended") /\ UNCHANGED open
    /\ UNCHANGED <<should_exit, handler, thread, running, input, game>>

Starts(t, r, next) ==
    /\ open' = open \cup {r}
    /\ thread' = [thread EXCEPT ![t] = "run"]
    /\ running' = running \cup {t}
    /\ GoTo(next) /\ UNCHANGED exit

\* Accelerometer_init, FiringInput_init, ShutdownInput_init: t, what it opens,
\* where main goes next, and where it goes when it fails; a failed write to
\* the accelerometer leaves the bus open.
InitThread(t, r, next, undo) ==
    /\ main = t
    /\ \/ Starts(t, r, next)
       \/ Fails(undo) /\ UNCHANGED <<open, thread, running>>
       \/ Fails(undo) /\ t = "accel" /\ open' = open \cup {r}
          /\ UNCHANGED <<thread, running>>
    /\ UNCHANGED <<should_exit, handler, input, game>>

MemoryInit ==
    /\ main = "memory"
    /\ \/ GoTo("game") /\ open' = open \cup {"memory"} /\ UNCHANGED exit
       \/ Fails("stop shutdown") /\ UNCHANGED open
    /\ UNCHANGED <<should_exit, handler, thread, running, input, game>>

TargetGameInit ==
    /\ main = "game"
    /\ target' \in Targets /\ generated' = 1
    /\ GoTo("test")
    /\ UNCHANGED <<exit, should_exit, process, input, hitCount, missCount,
                   currentAnimation, aim, leds>>

------------------------------------------------------------------------------
(* main.c: the loop.                                                       *)

TestExit ==
    /\ main = "test"
    /\ GoTo(IF should_exit THEN "dark" ELSE "ask")
    /\ UNCHANGED <<exit, should_exit, process, input, game>>

\* ShutdownInput_isShutdownRequested; the iteration goes on all the same.
AskShutdown ==
    /\ main = "ask"
    /\ should_exit' = (should_exit \/ shutdown_requested)
    /\ shutdown_requested' = FALSE
    /\ GoTo("play")
    /\ UNCHANGED <<exit, process, button, game>>

\* The rest of an iteration; nothing but the test of the button is shared.
Play(at, over) ==
    LET shot == Fire(at)
    IN  /\ main = "play"
        /\ aim' = at
        /\ IF button_was_pressed
           THEN /\ hitCount' = shot.hits /\ missCount' = shot.misses
                /\ Render(shot.anim, at, over)
           ELSE /\ UNCHANGED <<hitCount, missCount>>
                /\ Render(currentAnimation, at, over)
        /\ button_was_pressed' = FALSE
        /\ GoTo("test")
        /\ UNCHANGED <<exit, should_exit, process, line, pressed, recent, counts,
                       shutdown_requested>>

------------------------------------------------------------------------------
(* main.c: cleanup.                                                        *)

TurnOff ==
    /\ main = "dark"
    /\ leds' = Dark
    /\ GoTo("unmap")
    /\ UNCHANGED <<exit, should_exit, process, input, target, hitCount,
                   missCount, currentAnimation, aim, generated>>

MemoryCleanup ==
    /\ main = "unmap"
    /\ open' = open \ {"memory"}
    /\ GoTo("stop shutdown")
    /\ UNCHANGED <<exit, should_exit, handler, thread, running, input, game>>

\* A cleanup that clears the flag of its thread ...
StopThread(t, here, next) ==
    /\ main = here
    /\ running' = running \ {t}
    /\ GoTo(next)
    /\ UNCHANGED <<exit, should_exit, handler, open, thread, input, game>>

BugJoined(t) == thread[t] # "none"      \* mutant: pthread_join left out

Joined(t) == thread[t] = "ended"

\* ... joins it and closes what it used.
JoinThread(t, r, here, next) ==
    /\ main = here
    /\ Joined(t)
    /\ open' = open \ {r}
    /\ GoTo(next)
    /\ UNCHANGED <<exit, should_exit, handler, thread, running, input, game>>

LcdCleanup ==
    /\ main = "stop lcd"
    /\ open' = open \ {"lcd"}
    /\ GoTo("stop gpio")
    /\ UNCHANGED <<exit, should_exit, handler, thread, running, input, game>>

GpioCleanup ==
    /\ main = "stop gpio"
    /\ open' = open \ {"gpio"}
    /\ GoTo("ended")
    /\ exit' = IF exit = "no" THEN "clean" ELSE exit
    /\ UNCHANGED <<should_exit, handler, thread, running, input, game>>

MainStep ==
    \/ GpioInitialize \/ TakeSignal \/ LcdInit
    \/ InitThread("accel", "i2c", "firing", "stop lcd")
    \/ InitThread("firing", "firing line", "shutdown", "stop accel")
    \/ InitThread("shutdown", "shutdown line", "memory", "stop firing")
    \/ MemoryInit \/ TargetGameInit
    \/ TestExit \/ AskShutdown
    \/ \E at \in Pointings, over \in BOOLEAN : Play(at, over)
    \/ TurnOff \/ MemoryCleanup
    \/ StopThread("shutdown", "stop shutdown", "join shutdown")
    \/ JoinThread("shutdown", "shutdown line", "join shutdown", "stop firing")
    \/ StopThread("firing", "stop firing", "join firing")
    \/ JoinThread("firing", "firing line", "join firing", "stop accel")
    \/ StopThread("accel", "stop accel", "join accel")
    \/ JoinThread("accel", "i2c", "join accel", "stop lcd")
    \/ LcdCleanup \/ GpioCleanup

------------------------------------------------------------------------------
(* Signals.                                                                *)

\* handle_signal, for SIGTERM at any time and for SIGINT at first.
HandleSignal ==
    /\ main # "ended"
    /\ should_exit' = TRUE
    /\ UNCHANGED <<main, exit, process, input, game>>

\* LcdDisplay_SignalHandler frees the frame buffer and exits.
LcdSignalHandler ==
    /\ main # "ended" /\ handler = "lcd"
    /\ GoTo("ended") /\ exit' = "handler"
    /\ open' = open \ {"lcd"}
    /\ UNCHANGED <<should_exit, handler, thread, running, input, game>>

------------------------------------------------------------------------------
(* The threads: one step is a round of a loop, from after its test of the   *)
(* flag to the next test; its wait for an edge ends after 100 ms at the     *)
(* latest.                                                                 *)

BugWaitEnds(t) == FALSE                 \* mutant: no time limit

\* The wait of Gpio_waitForLineChange, or a round of I2C reads, is over.
WaitEnds(t) == main # "ended" /\ thread[t] = "run"

TestRunning(t) ==
    thread' = [thread EXCEPT ![t] = IF t \in running THEN "run" ELSE "ended"]

\* A wait that brought nothing, or edges that could not be read.
NoEvent(t) ==
    /\ WaitEnds(t)
    /\ TestRunning(t)
    /\ UNCHANGED <<place, handler, open, running, input, game>>

\* The contact closes or opens: an edge, which the kernel drops when its queue
\* is full.  The rising edges of one move of the contact are one chance to fire.
Moves(closed) ==
    /\ down' = closed
    /\ contact' = IF ~closed THEN "risen"
                  ELSE IF contact = "settled" THEN "moving" ELSE contact
    /\ chances' = IF closed \/ contact = "risen" THEN chances ELSE chances + 1
    /\ queue' = IF "firing line" \in open /\ Len(queue) < MaxQueued
                THEN Append(queue, [edge |-> IF closed THEN "falling" ELSE "rising",
                                    chance |-> chances'])
                ELSE queue
    /\ UNCHANGED <<place, process, pressed, recent, button_was_pressed, fired,
                   slips, shutdown_requested, game>>

\* The finger presses or lets go once the contact has come to rest ...
Finger ==
    /\ main # "ended" /\ contact = "settled"
    /\ held \/ presses < MaxPresses
    /\ held' = ~held
    /\ presses' = IF held THEN presses ELSE presses + 1
    /\ Moves(~held)
    /\ UNCHANGED bounces

\* ... which bounces off and comes back ...
Bounce ==
    /\ main # "ended" /\ contact # "settled"
    /\ down = held => bounces < MaxBounces
    /\ bounces' = IF down = held THEN bounces + 1 ELSE bounces
    /\ Moves(~down)
    /\ UNCHANGED <<held, presses>>

\* ... until it stays where the finger wants it.
Settle ==
    /\ main # "ended" /\ contact # "settled" /\ down = held
    /\ contact' = "settled"
    /\ UNCHANGED <<place, process, held, down, queue, pressed, recent,
                   button_was_pressed, counts, shutdown_requested, game>>

\* The edges whose action is on_release.
Released(e) == pressed /\ e.edge = "rising"

BugAccepted(e) == Released(e)           \* mutant: no debounce

\* on_release and its debounce.
Accepted(e) == Released(e) /\ ~recent

\* firing_input.c takes one edge through its state machine.
ReadEdge ==
    /\ main # "ended" /\ thread["firing"] = "run" /\ queue # << >>
    /\ LET e == Head(queue)
       IN  /\ pressed' = (e.edge = "falling")
           /\ button_was_pressed' = (button_was_pressed \/ Accepted(e))
           /\ recent' = (recent \/ Accepted(e))
           /\ fired' = IF Accepted(e) THEN e.chance ELSE fired
    /\ queue' = Tail(queue)
    /\ TestRunning("firing")
    /\ UNCHANGED <<place, handler, open, running, held, down, contact, presses,
                   bounces, chances, slips, shutdown_requested, game>>

\* shutdown_input.c takes a falling edge; one that comes too soon after
\* another, or a rising one, is no event.
ReadShutdown ==
    /\ WaitEnds("shutdown")
    /\ shutdown_requested' = TRUE
    /\ TestRunning("shutdown")
    /\ UNCHANGED <<place, handler, open, running, button, game>>

\* Rising edges of the last chance taken that are still to be read.
Pending == \E i \in 1 .. Len(queue) :
               queue[i].edge = "rising" /\ queue[i].chance = fired

\* The debounce time passes; the contact comes to rest before it does, but the
\* thread may be later in reading what the contact did.
FiringDebounceOver ==
    /\ main # "ended" /\ thread["firing"] # "none" /\ recent
    /\ ~(contact = "risen" /\ fired = chances)
    /\ recent' = FALSE
    /\ slips' = IF Pending THEN slips + 1 ELSE slips
    /\ UNCHANGED <<place, process, line, pressed, button_was_pressed, presses,
                   bounces, chances, fired, shutdown_requested, game>>

ThreadStep(t) == NoEvent(t) \/ (t = "firing" /\ ReadEdge)

Ended == main = "ended" /\ UNCHANGED vars

Next ==
    \/ MainStep
    \/ \E t \in Threads : ThreadStep(t)
    \/ Finger \/ Bounce \/ Settle
    \/ ReadShutdown
    \/ FiringDebounceOver
    \/ HandleSignal \/ LcdSignalHandler
    \/ Ended

Spec == Init /\ [][Next]_vars

\* Every thread is scheduled, and its waits have a time limit.
FairSpec == Spec /\ WF_vars(MainStep) /\ \A t \in Threads : WF_vars(ThreadStep(t))

------------------------------------------------------------------------------
(* Properties.                                                             *)

\* What the button has fired so far.
Shots == hitCount + missCount + (IF button_was_pressed THEN 1 ELSE 0)

\* However often the contact bounces, its edges queue up or get lost and main's
\* polling falls between them, a move of the contact fires once at most, a press
\* so at most twice, as it closes and as it opens, unless the thread reads an
\* edge when the debounce time is over; and a target gives way only to a hit
\* (firing_input.c:51-83, target_game.c:253-280, 406-412).
ScoreIsEarned ==
    /\ Shots <= chances + slips
    /\ Shots <= 2 * presses + slips
    /\ generated <= hitCount + 1

\* "Debounce - Check if enough time has passed since last button press"
\* (firing_input.c:53): while the thread reads in time, a press fires once.
OneShotPerPress == slips = 0 => Shots <= presses

Lit == {i \in Leds : leds[i] # Off}
Bright == {i \in Leds : leds[i][2] = "bright"}

\* Where the LEDs tell the player to go is where the current target is: a lit
\* LED is red when the board points at a smaller x, green at a greater, blue in
\* line with it; the whole strip is bright exactly at its height; a bright LED
\* is otherwise in the last half below it, in the first half above
\* (target_game.c:93-249).
LedsPointTheWay ==
    (main \in Loop /\ currentAnimation = "none" /\ Lit # {}) =>
        LET dx == aim[1] - target[1]
            dy == aim[2] - target[2]
        IN  /\ \A i \in Lit : leds[i][1] = IF dx < -T1 THEN "red"
                                           ELSE IF dx > T1 THEN "green" ELSE "blue"
            /\ Bright = Leds <=> Abs(dy) < T1
            /\ Bright # Leds => \A i \in Bright :
                    IF 2 * i >= NEO_NUM_LEDS THEN dy < -T1 ELSE dy > T1

Uses(t) == CASE t = "accel" -> {"i2c"}
             [] t = "firing" -> {"gpio", "firing line"}
             [] t = "shutdown" -> {"gpio", "shutdown line"}

\* Neither main nor a thread uses a line, the bus, the display or the shared
\* memory before it is open or after it is closed, whichever component failed
\* to start (main.c:98-154, 237-262).
NothingUsedClosed ==
    /\ main # "ended" => \A t \in Threads :
            thread[t] = "run" => Uses(t) \subseteq open
    /\ main = "play" => {"memory", "lcd"} \subseteq open
    /\ main \in {"dark", "unmap"} => "memory" \in open
    /\ main = "stop lcd" => {"lcd", "gpio"} \subseteq open
    /\ main \in {"join firing", "join shutdown"} => "gpio" \in open

\* Once a signal or the joystick has asked for the end the process ends,
\* although every thread has to come out of its wait first (main.c:162-171,
\* gpio.c:101-140).
StopEndsGame == (should_exit \/ shutdown_requested) ~> main = "ended"

\* When the game has ended the NeoPixels are off ("Turn off NeoPixels before
\* cleaning up shared memory", main.c:239).
DarkAtTheEnd == main = "ended" => leds = Dark
==============================================================================
