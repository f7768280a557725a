----------------------------- MODULE VolumeInput -----------------------------
(***************************************************************************)
(* The volume of the beatbox has two writers: the joystick thread of       *)
(* beatbox/app/src/inputHandler.c, which asks Joystick for the direction   *)
(* every 10 ms (a tick) and tells a press from a hold, and the UDP command *)
(* "volume".                                                               *)
(* Both end in AudioMixer_setVolume (hal/src/audioMixer.c:218-249), which  *)
(* stores the cached value and only later, after opening the ALSA mixer,   *)
(* reads it again and hands it to the hardware.  No lock is held: the      *)
(* mutex of inputHandler.c has the joystick thread as its only user.       *)
(***************************************************************************)
EXTENDS Joystick

CONSTANTS
    INITIAL_DELAY_COUNT,        \* 100 ticks in the code
    CONTINUOUS_RATE,            \* 10
    DIRECTION_CHANGE_COOLDOWN,  \* 100
    VOLUME_CHANGE_AMOUNT,       \* 5
    HOLD_VOLUME_CHANGE_AMOUNT,  \* 1
    MAX_VOLUME,                 \* 100
    DefaultVolume,              \* 80, set by InputHandler_init
    Requests,                   \* volumes a UDP command may ask for
    MaxRequests                 \* bound: UDP commands

\* The hold delay is not shorter than the cooldown (both are 100).
ASSUME VolumeAssumption ==
    /\ CONTINUOUS_RATE \in Nat \ {0}
    /\ DIRECTION_CHANGE_COOLDOWN \in Nat \ {0}
    /\ INITIAL_DELAY_COUNT \in Nat
    /\ INITIAL_DELAY_COUNT >= DIRECTION_CHANGE_COOLDOWN
    /\ MAX_VOLUME \in Nat /\ DefaultVolume \in 0 .. MAX_VOLUME
    /\ VOLUME_CHANGE_AMOUNT \in Nat /\ HOLD_VOLUME_CHANGE_AMOUNT \in Nat
    /\ Requests \subseteq 0 .. MAX_VOLUME /\ MaxRequests \in Nat

Writers == {"joystick", "udp"}
Volumes == 0 .. MAX_VOLUME

\* holdCounter beyond the delay matters only modulo the rate.
HoldCounts == 0 .. INITIAL_DELAY_COUNT + CONTINUOUS_RATE - 1

VARIABLES
    lastDirection, holdCounter, directionChangeCooldown,
    step,                       \* the step a tick has decided on: 0, 5 or 1
    volume,                     \* the cache
    hardware,                   \* the volume of the ALSA element
    pc,                         \* per writer: "idle", "read", "store",
                                \* "fetch", "apply"
    newVolume,                  \* per writer: the argument of setVolume, then
                                \* what it read back from the cache
    requests,                   \* UDP commands so far
    since,                      \* history: ticks since the last press took
                                \* effect, up to the cooldown
    overlapped                  \* history: the last call to store the cache
                                \* did so in the middle of another

vars == <<joystickVars, lastDirection, holdCounter, directionChangeCooldown, step,
          volume, hardware, pc, newVolume, requests, since, overlapped>>
tickVars == <<lastDirection, holdCounter, directionChangeCooldown, step, since>>

TypeOK ==
    /\ JoystickTypeOK
    /\ lastDirection \in Directions
    /\ holdCounter \in HoldCounts
    /\ directionChangeCooldown \in 0 .. DIRECTION_CHANGE_COOLDOWN
    /\ step \in {0, VOLUME_CHANGE_AMOUNT, HOLD_VOLUME_CHANGE_AMOUNT}
    /\ volume \in Volumes /\ hardware \in Volumes
    /\ pc \in [Writers -> {"idle", "read", "store", "fetch", "apply"}]
    /\ newVolume \in [Writers -> Volumes]
    /\ requests \in 0 .. MaxRequests
    /\ since \in 0 .. DIRECTION_CHANGE_COOLDOWN
    /\ overlapped \in BOOLEAN

Init ==
    /\ JoystickInit
    /\ lastDirection = "none"
    /\ holdCounter = 0 /\ directionChangeCooldown = 0 /\ step = 0
    /\ volume = DefaultVolume /\ hardware = DefaultVolume
    /\ pc = [w \in Writers |-> "idle"]
    /\ newVolume = [w \in Writers |-> DefaultVolume]
    /\ requests = 0
    /\ since = DIRECTION_CHANGE_COOLDOWN /\ overlapped = FALSE

------------------------------------------------------------------------------
(* joystick_thread_function.                                               *)

volumeVars == <<tickVars, volume, hardware, pc, newVolume, requests, overlapped>>

\* The stick and the thread that samples it go on by themselves.
Sampled == Sample /\ UNCHANGED volumeVars
SampledBadly == SampleFails /\ UNCHANGED volumeVars
Moved(d) == Move(d) /\ UNCHANGED volumeVars

Vertical(d) == d \in {"up", "down"}
Changed == currentDirection # lastDirection

\* Case 1: the direction just changed and no cooldown is active.
Press == Vertical(currentDirection) /\ Changed /\ directionChangeCooldown = 0

\* Case 2: the stick is held.
Repeat ==
    /\ Vertical(currentDirection) /\ ~Changed
    /\ holdCounter >= INITIAL_DELAY_COUNT
    /\ holdCounter % CONTINUOUS_RATE = 0

BugCount(n) == n                                    \* mutant: never counts

Count(n) ==
    IF n + 1 = INITIAL_DELAY_COUNT + CONTINUOUS_RATE THEN INITIAL_DELAY_COUNT ELSE n + 1

\* A change of direction during the cooldown neither counts nor resets.
NextHold ==
    IF ~Vertical(currentDirection) \/ Press THEN 0
    ELSE IF Changed THEN holdCounter ELSE Count(holdCounter)

Decremented(n) == IF n > 0 THEN n - 1 ELSE 0

AtMost(n, bound) == IF n < bound THEN n ELSE bound

BugCooldown ==                                      \* mutant: a tick short
    Decremented(Decremented(
        IF Press THEN DIRECTION_CHANGE_COOLDOWN ELSE directionChangeCooldown))

Cooldown ==
    Decremented(IF Press THEN DIRECTION_CHANGE_COOLDOWN ELSE directionChangeCooldown)

\* What a tick decides, before it looks at the volume.
Tick ==
    /\ pc["joystick"] = "idle"
    /\ holdCounter' = NextHold
    /\ directionChangeCooldown' = Cooldown
    /\ lastDirection' = currentDirection
    /\ step' = IF Press THEN VOLUME_CHANGE_AMOUNT
               ELSE IF Repeat THEN HOLD_VOLUME_CHANGE_AMOUNT ELSE 0
    /\ pc' = IF Press \/ Repeat THEN [pc EXCEPT !["joystick"] = "read"] ELSE pc
    /\ since' = IF Press THEN 1 ELSE AtMost(since + 1, DIRECTION_CHANGE_COOLDOWN)
    /\ UNCHANGED <<joystickVars, volume, hardware, newVolume, requests, overlapped>>

Stepped(v) ==
    IF lastDirection = "up" THEN AtMost(v + step, MAX_VOLUME)
    ELSE IF v < step THEN 0 ELSE v - step

\* AudioMixer_getVolume, and no call of setVolume if the limit is reached.
ReadVolume ==
    /\ pc["joystick"] = "read"
    /\ newVolume' = [newVolume EXCEPT !["joystick"] = Stepped(volume)]
    /\ pc' = [pc EXCEPT !["joystick"] =
                  IF Stepped(volume) = volume THEN "idle" ELSE "store"]
    /\ UNCHANGED <<joystickVars, tickVars, volume, hardware, requests, overlapped>>

\* udpServer.c: "volume v".
UdpVolume(v) ==
    /\ pc["udp"] = "idle" /\ requests < MaxRequests
    /\ newVolume' = [newVolume EXCEPT !["udp"] = v]
    /\ pc' = [pc EXCEPT !["udp"] = "store"]
    /\ requests' = requests + 1
    /\ UNCHANGED <<joystickVars, tickVars, volume, hardware, overlapped>>

------------------------------------------------------------------------------
(* AudioMixer_setVolume, called by w: cache the argument, ...              *)

\* w stores its argument while another call is between its store and its end.
Overlaps(w) == \E v \in Writers \ {w} : pc[v] \in {"fetch", "apply"}

BugStore(w) ==      \* mutant: the cache is read for the hardware before it is set
    /\ pc[w] = "store"
    /\ volume' = newVolume[w]
    /\ newVolume' = [newVolume EXCEPT ![w] = volume]
    /\ overlapped' = Overlaps(w)
    /\ pc' = [pc EXCEPT ![w] = "apply"]
    /\ UNCHANGED <<joystickVars, tickVars, hardware, requests>>

Store(w) ==
    /\ pc[w] = "store"
    /\ volume' = newVolume[w]
    /\ overlapped' = Overlaps(w)
    /\ pc' = [pc EXCEPT ![w] = "fetch"]
    /\ UNCHANGED <<joystickVars, tickVars, hardware, newVolume, requests>>

\* ... open the mixer, and read the cache for the call that ...
Fetch(w) ==
    /\ pc[w] = "fetch"
    /\ newVolume' = [newVolume EXCEPT ![w] = volume]
    /\ pc' = [pc EXCEPT ![w] = "apply"]
    /\ UNCHANGED <<joystickVars, tickVars, volume, hardware, requests, overlapped>>

\* ... sets the hardware.
Apply(w) ==
    /\ pc[w] = "apply"
    /\ hardware' = newVolume[w]
    /\ pc' = [pc EXCEPT ![w] = "idle"]
    /\ UNCHANGED <<joystickVars, tickVars, volume, newVolume, requests, overlapped>>

SetVolume(w) == Store(w) \/ Fetch(w) \/ Apply(w)

JoystickStep == Tick \/ ReadVolume \/ SetVolume("joystick")

Next ==
    \/ JoystickStep \/ SetVolume("udp")
    \/ Sampled \/ SampledBadly
    \/ \E d \in Directions : Moved(d)
    \/ \E v \in Requests : UdpVolume(v)

Spec == Init /\ [][Next]_vars

\* The threads are scheduled; the user and the network owe nothing.
FairSpec ==
    /\ Spec
    /\ WF_vars(JoystickStep) /\ WF_vars(SetVolume("udp")) /\ WF_vars(Sampled)

------------------------------------------------------------------------------
\* After a press has changed the volume nothing the user does with the stick
\* changes it again for a cooldown: neither another press, in either
\* direction, nor the repetition of a hold that began before.
PauseAfterPress ==
    [][pc["joystick"] = "idle" /\ pc'["joystick"] # "idle" =>
           since = DIRECTION_CHANGE_COOLDOWN]_vars

\* A press that falls into the cooldown is swallowed (inputHandler.c:60), but
\* holding the stick makes up for it: whatever came before, and whatever UDP
\* commands interfered, the volume reaches the end of its range.
HoldReachesTheLimit ==
    /\ <>[](stick = "up") => <>[](volume = MAX_VOLUME)
    /\ <>[](stick = "down" /\ failures = 0) => <>[](volume = 0)

\* "Return the cached volume; good enough unless someone is changing the
\* volume through other means" (audioMixer.c:210): when no call of setVolume is
\* under way the cache says what the hardware does, unless the last two calls
\* overlapped, and then the next call that is alone brings them together again.
CacheIsHardware ==
    (\A w \in Writers : pc[w] \in {"idle", "read"}) /\ ~overlapped =>
        volume = hardware
==============================================================================
