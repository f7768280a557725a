------------------------------- MODULE BeatBox -------------------------------
(***************************************************************************)
(* The life of the beatbox process (beatbox/app/src/main.c): main brings   *)
(* the components up one by one, each starting its threads, runs its loop  *)
(* until Ctrl+C, a UDP command or the one hour limit, and takes them down  *)
(* again, clearing the flag each thread polls, joining it and releasing    *)
(* what it used.  The module is about who uses what, when, and who waits   *)
(* for whom; what the threads compute is the business of AudioMixer,       *)
(* ModeSync, TempoSync, VolumeInput, PeriodTimer and UdpServer.            *)
(***************************************************************************)
EXTENDS Integers, Sequences

CONSTANTS
    Workers     \* the threads an instance follows: all of them, or fewer
                \* where a liveness check has to stay small

(* A thread, and the flag its loop tests.  "beat" has no exit test at all  *)
(* and only idles while its flag is FALSE; "accel" and "lcd" may fail to   *)
(* start, and "encoderLines" to open, and the code goes on without them.   *)
Flag == [encoder  |-> "rotary",   btn     |-> "rotary", udp   |-> "udp",
         joy      |-> "joy",      stick   |-> "stick",  stickBtn |-> "stickBtn",
         display  |-> "display",  player  |-> "player", accel |-> "accel",
         beat     |-> "beat"]
Threads == DOMAIN Flag

ASSUME BeatBoxAssumption == Workers \subseteq Threads

Flags == {Flag[t] : t \in Threads}

Resources == {"gpio", "period", "mixer", "sounds", "lcd", "joystick",
              "btnLine", "encoderLines"}

\* These hold lines of the GPIO chips; the chips assert that they are open.
Lined == {"joystick", "btnLine", "encoderLines"}

\* Without these an init function exits the process.
Vital == {"gpio", "mixer", "sounds", "btnLine"}

\* What main does to a flag, a thread or a resource.
Set(f) == <<"set", f>>
Clear(f) == <<"clear", f>>
Spawn(t) == <<"spawn", t>>
Join(t) == <<"join", t>>
Open(r) == <<"open", r>>
Close(r) == <<"close", r>>
Register == <<"register", "shutdown">>

(* What each init and cleanup function does, in its own order.             *)

Gpio_initialize == << Open("gpio") >>
Gpio_cleanup == << Close("gpio") >>

Period_init == << Open("period") >>

AudioMixer_init == << Open("mixer"), Set("player"), Spawn("player") >>
AudioMixer_cleanup == << Clear("player"), Join("player"), Close("mixer") >>

DrumSounds_init == << Open("sounds") >>
DrumSounds_cleanup == << Close("sounds") >>

BeatPlayer_start == << Set("beat"), Spawn("beat") >>
BeatPlayer_stop == << Clear("beat") >>
BeatPlayer_cleanup == << Join("beat") >>

LcdDisplay_init == << Open("lcd") >>
LcdDisplay_cleanup == << Close("lcd") >>

Joystick_init == << Open("joystick") >>

BugStartSampling ==     \* mutant: a thread is started before its flag is set
    << Spawn("stick"), Set("stick"), Set("stickBtn"), Spawn("stickBtn") >>

Joystick_startSampling ==
    << Set("stick"), Spawn("stick"), Set("stickBtn"), Spawn("stickBtn") >>

Joystick_stopSampling ==
    << Clear("stick"), Join("stick"), Clear("stickBtn"), Join("stickBtn") >>

\* It calls Joystick_stopSampling again, which finds nothing to do.
Joystick_cleanup == << Close("joystick") >>

InputHandler_init ==
    Joystick_init \o Joystick_startSampling \o << Set("joy"), Spawn("joy") >>
InputHandler_cleanup ==
    << Clear("joy"), Join("joy") >> \o Joystick_stopSampling \o Joystick_cleanup

TerminalDisplay_init == << Set("display"), Spawn("display") >>
TerminalDisplay_cleanup == << Clear("display"), Join("display") >>

\* The thread first.
UdpServer_init == << Spawn("udp"), Set("udp") >>
UdpServer_cleanup == << Clear("udp"), Join("udp") >>

BtnStateMachine_init == << Open("btnLine") >>
BtnStateMachine_cleanup == << Close("btnLine") >>

RotaryEncoder_init ==
    << Open("encoderLines"), Set("rotary"), Spawn("btn"), Spawn("encoder") >>
RotaryEncoder_cleanup ==
    << Clear("rotary"), Join("encoder"), Join("btn"), Close("encoderLines") >>

Accelerometer_init == << Set("accel"), Spawn("accel") >>
Accelerometer_cleanup == << Clear("accel"), Join("accel") >>

BugStartup ==           \* mutant: the period timer comes up after its first user
    Gpio_initialize \o AudioMixer_init \o Period_init \o DrumSounds_init
        \o LcdDisplay_init \o InputHandler_init
        \o TerminalDisplay_init \o << Register >> \o UdpServer_init
        \o BtnStateMachine_init \o RotaryEncoder_init \o Accelerometer_init
        \o BeatPlayer_start

\* "Initialize components in correct order".
Startup ==
    Gpio_initialize \o Period_init \o AudioMixer_init \o DrumSounds_init
        \o LcdDisplay_init \o InputHandler_init
        \o TerminalDisplay_init \o << Register >> \o UdpServer_init
        \o BtnStateMachine_init \o RotaryEncoder_init \o Accelerometer_init
        \o BeatPlayer_start

BugCleanup ==           \* mutant: the LCD goes before the thread that draws on it
    BeatPlayer_stop \o RotaryEncoder_cleanup \o BtnStateMachine_cleanup
        \o UdpServer_cleanup \o LcdDisplay_cleanup \o InputHandler_cleanup
        \o TerminalDisplay_cleanup \o BeatPlayer_cleanup \o DrumSounds_cleanup
        \o AudioMixer_cleanup \o Accelerometer_cleanup \o Gpio_cleanup

\* "Cleanup in reverse order of initialization".
Cleanup ==
    BeatPlayer_stop \o RotaryEncoder_cleanup \o BtnStateMachine_cleanup
        \o UdpServer_cleanup \o InputHandler_cleanup \o LcdDisplay_cleanup
        \o TerminalDisplay_cleanup \o BeatPlayer_cleanup \o DrumSounds_cleanup
        \o AudioMixer_cleanup \o Accelerometer_cleanup \o Gpio_cleanup

VARIABLES
    phase,        \* of main: "startup", "loop", "cleanup", "returned"
    at,           \* its entry of Startup or Cleanup; 0 elsewhere
    place,        \* its place in the loop
    isRunning,    \* main.c's flag, cleared by the signal handler too
    shouldStop,   \* udpServer.c: shouldStopApplication
    shuttingDown, \* terminalDisplay.c: isShuttingDown
    signal,       \* the handler: "none", "entered" (flag cleared), "done"
    run,          \* run[f]: the flag a thread polls
    thread,       \* thread[t]: "none", "test", "body", "use", "exited"
    res,          \* res[r]: "none", "open", "closed"
    failed        \* an assertion has failed: the process is dead where assert()
                  \* is compiled in, and goes on as modelled with -DNDEBUG

vars == <<phase, at, place, isRunning, shouldStop, shuttingDown, signal, run,
          thread, res, failed>>
mainVars == <<phase, at, place>>
stopVars == <<isRunning, shouldStop, shuttingDown, signal>>

LoopPlaces == {"test", "stop", "accel", "display", "sleep"}

TypeOK ==
    /\ \/ phase = "startup" /\ at \in 1 .. Len(Startup)
       \/ phase = "loop" /\ at = 0
       \/ phase = "cleanup" /\ at \in 1 .. Len(Cleanup)
       \/ phase = "returned" /\ at = 0
    /\ place \in LoopPlaces
    /\ isRunning \in BOOLEAN /\ shouldStop \in BOOLEAN /\ shuttingDown \in BOOLEAN
    /\ signal \in {"none", "entered", "done"}
    /\ run \in [Flags -> BOOLEAN]
    /\ thread \in [Threads -> {"none", "test", "body", "use", "exited"}]
    /\ res \in [Resources -> {"none", "open", "closed"}]
    /\ failed \in BOOLEAN

Init ==
    /\ phase = "startup" /\ at = 1 /\ place = "test"
    /\ isRunning = TRUE /\ shouldStop = FALSE /\ shuttingDown = FALSE
    /\ signal = "none"
    /\ run = [f \in Flags |-> FALSE]
    /\ thread = [t \in Threads |-> "none"]
    /\ res = [r \in Resources |-> "none"]
    /\ failed = FALSE

Alive == phase # "returned"

\* assert(r is initialized).
Assert(r) == failed' = (failed \/ res[r] # "open")

------------------------------------------------------------------------------
(* main.                                                                   *)

\* One entry of Startup or Cleanup.  The LCD and the accelerometer may be
\* absent, and the encoder's lines fail to open, which is only printed.
Do(op, x) ==
    \/ /\ op = "set"
       /\ run' = [run EXCEPT ![x] = TRUE]
       /\ UNCHANGED <<thread, res, shuttingDown, failed>>
    \/ /\ op = "clear"
       /\ run' = [run EXCEPT ![x] = FALSE]
       /\ shuttingDown' = (shuttingDown \/ x = "display")
       /\ UNCHANGED <<thread, res, failed>>
    \/ /\ op = "spawn"
       /\ \/ x \in Workers /\ thread' = [thread EXCEPT ![x] = "test"]
          \/ x \in {"accel"} \cup (Threads \ Workers) /\ UNCHANGED thread
       /\ shuttingDown' = (shuttingDown /\ x # "display")
       /\ UNCHANGED <<run, res, failed>>
    \/ /\ op = "join"
       /\ thread[x] \in {"none", "exited"}
       /\ UNCHANGED <<run, thread, res, shuttingDown, failed>>
    \/ /\ op = "open"
       /\ \/ res' = [res EXCEPT ![x] = "open"]
          \/ x \in {"lcd", "encoderLines"} /\ UNCHANGED res
       /\ IF x \in Lined THEN Assert("gpio") ELSE UNCHANGED failed
       /\ UNCHANGED <<run, thread, shuttingDown>>
    \/ /\ op = "close"
       /\ res' = [res EXCEPT ![x] = "closed"]
       /\ IF x \in Lined \cup {"gpio"} THEN Assert("gpio") ELSE UNCHANGED failed
       /\ UNCHANGED <<run, thread, shuttingDown>>
    \/ /\ op = "register"
       /\ shuttingDown' = ~isRunning
       /\ UNCHANGED <<run, thread, res, failed>>

\* On to the next entry, or to the next phase after the last.
Advance(table, next) ==
    IF at < Len(table) THEN at' = at + 1 /\ UNCHANGED phase
                       ELSE at' = 0 /\ phase' = next

StartupStep ==
    /\ Alive /\ phase = "startup"
    /\ Do(Startup[at][1], Startup[at][2])
    /\ Advance(Startup, "loop")
    /\ UNCHANGED <<place, isRunning, shouldStop, signal>>

\* exit(EXIT_FAILURE): a chip, the sound card, a wave file or the button's line
\* is missing.
StartupFails ==
    /\ Alive /\ phase = "startup"
    /\ Startup[at][1] = "open" /\ Startup[at][2] \in Vital
    /\ phase' = "returned" /\ at' = 0
    /\ UNCHANGED <<place, stopVars, run, thread, res, failed>>

CleanupStep ==
    /\ Alive /\ phase = "cleanup"
    /\ Do(Cleanup[at][1], Cleanup[at][2])
    /\ Advance(Cleanup, "returned")
    /\ UNCHANGED <<place, isRunning, shouldStop, signal>>

AtLoop(p) == Alive /\ phase = "loop" /\ place = p
GoTo(p) == place' = p /\ UNCHANGED <<phase, at>>
LeaveLoop == phase' = "cleanup" /\ at' = 1 /\ place' = "test"

LoopTest ==
    /\ AtLoop("test")
    /\ IF isRunning THEN GoTo("stop") ELSE LeaveLoop
    /\ UNCHANGED <<stopVars, run, thread, res, failed>>

LoopStop ==
    /\ AtLoop("stop")
    /\ IF shouldStop
       THEN isRunning' = FALSE /\ shuttingDown' = TRUE /\ LeaveLoop
       ELSE UNCHANGED <<isRunning, shuttingDown>> /\ GoTo("accel")
    /\ UNCHANGED <<shouldStop, signal, run, thread, res, failed>>

\* AccelerometerApp_process marks an event; every second the display follows.
LoopAccel ==
    /\ AtLoop("accel")
    /\ Assert("period")
    /\ GoTo("display") \/ GoTo("sleep")
    /\ UNCHANGED <<stopVars, run, thread, res>>

LoopDisplay ==
    /\ AtLoop("display")
    /\ Assert("period")
    /\ GoTo("sleep")
    /\ UNCHANGED <<stopVars, run, thread, res>>

\* The second disjunct: MAX_RUNTIME is over.
LoopSleep ==
    /\ AtLoop("sleep")
    /\ \/ GoTo("test") /\ UNCHANGED isRunning
       \/ LeaveLoop /\ isRunning' = FALSE
    /\ UNCHANGED <<shouldStop, shuttingDown, signal, run, thread, res, failed>>

Main == StartupStep \/ StartupFails \/ CleanupStep \/ LoopTest \/ LoopStop \/ LoopAccel
            \/ LoopDisplay \/ LoopSleep

\* sigHandler: the flag first, then TerminalDisplay_registerShutdown.
SignalEnters ==
    /\ Alive /\ signal = "none"
    /\ signal' = "entered" /\ isRunning' = FALSE
    /\ UNCHANGED <<mainVars, shouldStop, shuttingDown, run, thread, res, failed>>

SignalRegisters ==
    /\ Alive /\ signal = "entered"
    /\ signal' = "done" /\ shuttingDown' = ~isRunning
    /\ UNCHANGED <<mainVars, isRunning, shouldStop, run, thread, res, failed>>

------------------------------------------------------------------------------
(* The threads.                                                            *)

In(t, p) == Alive /\ thread[t] = p
Move(t, p) == thread' = [thread EXCEPT ![t] = p]

\* The rotation thread without its lines returns before its loop begins.
Blind(t) == t = "encoder" /\ res["encoderLines"] # "open"

BugMustExit(t) ==                       \* mutant: while (1) in the joystick thread too
    t # "joy" /\ (~run[Flag[t]] \/ (t = "display" /\ shuttingDown) \/ Blind(t))

MustExit(t) == ~run[Flag[t]] \/ (t = "display" /\ shuttingDown) \/ Blind(t)

\* The threads with nothing of interest between two tests: they read a bus.
Samplers == {"stick", "accel"}
Buttons == {"btn", "stickBtn"}

\* The test at the head of the loop.  The beat thread never leaves; the
\* display thread calls Period_cleanup on its way out; a button's thread calls
\* Gpio_waitForLineChange, which asserts that the chips are open.
Test(t) ==
    /\ In(t, "test")
    /\ \/ ~MustExit(t) /\ t \notin Samplers /\ Move(t, "body")
       \/ ~MustExit(t) /\ t \in Samplers /\ UNCHANGED thread
       \/ MustExit(t) /\ t = "beat" /\ UNCHANGED thread
       \/ MustExit(t) /\ t # "beat" /\ Move(t, "exited")
    /\ res' = IF t = "display" /\ MustExit(t)
              THEN [res EXCEPT !["period"] = "closed"] ELSE res
    /\ IF t \in Buttons /\ ~MustExit(t) THEN Assert("gpio") ELSE UNCHANGED failed
    /\ UNCHANGED <<mainVars, stopVars, run>>

\* Someone turns the knob: gpiod_line_event_wait_bulk returns.
Turned ==
    /\ In("encoder", "body")
    /\ Move("encoder", "test")
    /\ UNCHANGED <<mainVars, stopVars, run, res, failed>>

\* Someone presses a button: Gpio_waitForLineChange returns.
Pressed(t) ==
    /\ t \in Buttons
    /\ In(t, "body")
    /\ Move(t, "test")
    /\ UNCHANGED <<mainVars, stopVars, run, res, failed>>

\* recvfrom returns: a command, or what UdpServer_cleanup does to wake it.
Received ==
    /\ In("udp", "body")
    /\ IF run["udp"] THEN Move("udp", "use") ELSE Move("udp", "exited")
    /\ UNCHANGED <<mainVars, stopVars, run, res, failed>>

Processed ==
    /\ In("udp", "use")
    /\ Move("udp", "test")
    /\ shouldStop' \in {shouldStop, TRUE}
    /\ UNCHANGED <<mainVars, isRunning, shuttingDown, signal, run, res, failed>>

\* The joystick's button: draw the next screen, if there is an LCD.
JoyPass ==
    /\ In("joy", "body")
    /\ \/ Move("joy", "test")
       \/ res["lcd"] = "open" /\ Move("joy", "use")
    /\ UNCHANGED <<mainVars, stopVars, run, res, failed>>

JoyDrawn ==
    /\ In("joy", "use")
    /\ Move("joy", "test")
    /\ UNCHANGED <<mainVars, stopVars, run, res, failed>>

\* fillPlaybackBuffer, then TerminalDisplay_markAudioEvent.
PlayerPass ==
    /\ In("player", "body")
    /\ Assert("period")
    /\ Move("player", "test")
    /\ UNCHANGED <<mainVars, stopVars, run, res>>

\* updateConsoleOutput, unless it is not time yet or the end is near.
DisplayPass ==
    /\ In("display", "body")
    /\ \/ UNCHANGED failed
       \/ ~shuttingDown /\ Assert("period")
    /\ Move("display", "test")
    /\ UNCHANGED <<mainVars, stopVars, run, res>>

\* DrumSounds_play, or a rest in the pattern.
BeatPass ==
    /\ In("beat", "body")
    /\ Move("beat", "test")
    /\ UNCHANGED <<mainVars, stopVars, run, res, failed>>

\* Nothing can have been queued before the drum sounds were loaded.
Queued == IF res["sounds"] = "none" THEN {} ELSE {"sounds"}

\* What a thread's next step reads, draws on or plays.
Uses(t) ==
    CASE thread[t] = "body" /\ t = "btn"      -> {"gpio", "btnLine"}
      [] thread[t] = "body" /\ t = "stickBtn" -> {"gpio", "joystick"}
      [] thread[t] = "test" /\ t = "stick"    -> {"joystick"}
      [] thread[t] = "body" /\ t = "encoder"  -> {"encoderLines"}
      [] thread[t] = "body" /\ t = "player"   -> {"mixer"} \cup Queued
      [] thread[t] = "body" /\ t = "beat"     -> {"mixer", "sounds"}
      [] thread[t] = "use" /\ t = "udp"       -> {"mixer", "sounds"}
      [] thread[t] = "use" /\ t = "joy"       -> {"lcd"}
      [] OTHER                                -> {}

ThreadStep(t) ==
    Test(t) \/ Pressed(t)
        \/ (t = "encoder" /\ Turned)
        \/ (t = "udp" /\ (Received \/ Processed))
        \/ (t = "joy" /\ (JoyPass \/ JoyDrawn))
        \/ (t = "player" /\ PlayerPass)
        \/ (t = "display" /\ DisplayPass)
        \/ (t = "beat" /\ BeatPass)

\* The process is gone.
Returned == phase = "returned" /\ UNCHANGED vars

Next ==
    \/ Main
    \/ SignalEnters \/ SignalRegisters
    \/ \E t \in Threads : ThreadStep(t)
    \/ Returned

Spec == Init /\ [][Next]_vars

(* Every thread is scheduled.  UdpServer_cleanup wakes recvfrom with a     *)
(* datagram of its own, so a closed server does return from it (module     *)
(* UdpServer looks into that).  Nobody promises a command or a signal; but *)
(* gpiod waits are unbounded, and that somebody keeps turning the knob and *)
(* pressing the two buttons is an assumption of its own, UserFair.         *)
WaitsForUser == {"encoder", "btn", "stickBtn"}

Fairness ==
    /\ WF_vars(Main) /\ WF_vars(SignalRegisters)
    /\ \A t \in Threads \ (WaitsForUser \cup {"udp"}) : WF_vars(ThreadStep(t))
    /\ WF_vars(Test("udp")) /\ WF_vars(Received /\ ~run["udp"]) /\ WF_vars(Processed)

UserFair == \A t \in WaitsForUser : WF_vars(ThreadStep(t))

FairSpec == Spec /\ Fairness /\ UserFair

------------------------------------------------------------------------------
(* Safety.                                                                 *)

\* No thread touches a component before main has opened it or after main has
\* closed it: the buffers behind the LCD, the mixer and the drum sounds are
\* freed, and the GPIO lines released, only once their users are joined.
NothingUsedClosed == \A t \in Threads : \A r \in Uses(t) : res[r] = "open"

\* While the program is running no worker has quietly left its loop.  Three
\* are excepted: the accelerometer may be absent; the listener returns at
\* once if it tests isRunning before UdpServer_init, which creates it first,
\* has set it (udpServer.c:77-84), and nobody then notices; and the rotation
\* thread returns at once if its lines could not be opened, which
\* RotaryEncoder_init only prints (rotaryEncoder.c:62-72, 189-192): the knob is
\* dead then, but nothing else is.
WorkersStayWhileRunning ==
    phase = "loop" /\ isRunning =>
        \A t \in Workers \ {"udp", "accel"} :
            thread[t] \notin {"none", "exited"} \/ Blind(t)

\* An assertion can fail only on the way out: in normal running the period
\* timer and the GPIO chips are ready for everyone who asserts it.
AbortsOnlyAtShutdown == failed => ~isRunning

\* What the assertions of periodTimer.c:47 and :70 and of gpio.c:104 claim.
AssertionsHold == ~failed

(* Liveness.                                                               *)

\* A stop request reaches every thread that is joined before the beat
\* thread, provided somebody still touches the knob and the two buttons.
StopReachesThreads ==
    ~isRunning ~>
        \/ phase = "returned"
        \/ \A t \in Workers \ {"beat", "player", "accel"} : thread[t] = "exited"

\* "then ensures all components are properly cleaned up before exit"
\* (main.c:13): a stop request ends with main returning.
CleanupCompletes == ~isRunning ~> (phase = "returned" \/ failed)
==============================================================================
