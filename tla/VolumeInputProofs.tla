-------------------------- MODULE VolumeInputProofs --------------------------
(***************************************************************************)
(* Proofs about VolumeInput, for every delay, rate, cooldown and range.    *)
(* That a press is followed by a pause rests on two facts which the code   *)
(* never states: the cooldown still to come makes up for the ticks that    *)
(* have not passed since the press, and the hold counter cannot be ahead   *)
(* of those ticks, because a press resets it. That the cache agrees with   *)
(* the hardware rests on who may be between its store and its end. That    *)
(* failed reads are not reported rests on the reads counted since them.    *)
(***************************************************************************)
EXTENDS VolumeInput, TLAPS

\* The cooldown counts down what is missing since the press.
CooldownCovers == directionChangeCooldown + since >= DIRECTION_CHANGE_COOLDOWN

\* The hold is younger than the press, unless that is a cooldown ago.
HoldIsYounger == holdCounter < since \/ since = DIRECTION_CHANGE_COOLDOWN

\* Between its store and its end: the call in which the two volumes differ.
Inside(w) == pc[w] \in {"fetch", "apply"}

\* Unless the last two calls overlapped, one call at most is inside, and what
\* it hands to the hardware is what the cache holds.
CallAlone ==
    ~overlapped =>
        /\ \A v, w \in Writers : Inside(v) /\ Inside(w) => v = w
        /\ \A w \in Writers : pc[w] = "apply" => newVolume[w] = volume
        /\ (\A w \in Writers : ~Inside(w)) => volume = hardware

\* As long as every read counted has failed, each of them is in the count.
FailuresCounted == ~genuine => stableCount < failures

IInv == TypeOK /\ CooldownCovers /\ HoldIsYounger /\ CallAlone /\ FailuresCounted

\* The initial states of VolumeInput satisfy the inductive invariant.
LEMMA InitInvariant == Init => IInv
<1> SUFFICES ASSUME Init
             PROVE  IInv
  OBVIOUS
<1>1. TypeOK /\ CooldownCovers /\ HoldIsYounger
  <2>1. overlapped \in BOOLEAN
    BY DEF Init
  <2>2. /\ pc \in [Writers -> {"idle", "read", "store", "fetch", "apply"}]
        /\ newVolume \in [Writers -> Volumes]
    BY VolumeAssumption DEF Init, Volumes
  <2> QED
    BY <2>1, <2>2, VolumeAssumption, JoystickAssumption
    DEF Init, JoystickInit, TypeOK, JoystickTypeOK, CooldownCovers, HoldIsYounger,
        Directions, Volumes, HoldCounts
<1>2. CallAlone
  <2>1. \A w \in Writers : pc[w] = "idle"
    BY DEF Init
  <2> QED
    BY <2>1 DEF Init, CallAlone, Inside
<1>3. FailuresCounted
  BY DEF Init, JoystickInit, FailuresCounted
<1> QED
  BY <1>1, <1>2, <1>3 DEF IInv

\* What the arithmetic of one tick returns stays in its range.
LEMMA Ranges ==
    ASSUME TypeOK
    PROVE  /\ NextHold \in HoldCounts
           /\ Cooldown \in 0 .. DIRECTION_CHANGE_COOLDOWN
           /\ \A v \in Volumes : Stepped(v) \in Volumes
           /\ \A n \in Nat : AtMost(n, DIRECTION_CHANGE_COOLDOWN)
                                 \in 0 .. DIRECTION_CHANGE_COOLDOWN
           /\ \A n \in Nat : AtMost(n, INITIAL_DELAY_COUNT) \in 0 .. INITIAL_DELAY_COUNT
  BY VolumeAssumption
  DEF TypeOK, JoystickTypeOK, NextHold, Cooldown, Decremented, Stepped, AtMost, Count, Press,
      Volumes, HoldCounts

\* A tick of joystick_thread_function preserves the inductive invariant.
LEMMA TickInvariant ==
    ASSUME IInv, Tick
    PROVE  IInv'
<1>1. TypeOK'
  BY Ranges, VolumeAssumption
  DEF Tick, IInv, TypeOK, JoystickTypeOK, joystickVars, Directions, Writers, HoldCounts
<1>2. CooldownCovers'
  BY VolumeAssumption
  DEF Tick, IInv, TypeOK, CooldownCovers, Cooldown, Decremented, AtMost
<1>3. HoldIsYounger'
  BY VolumeAssumption
  DEF Tick, IInv, TypeOK, HoldIsYounger, NextHold, Count, AtMost, HoldCounts
<1>4. CallAlone'
  <2>1. \A w \in Writers : (Inside(w)' <=> Inside(w)) /\ (pc[w]' = "apply" <=> pc[w] = "apply")
    BY DEF Tick, IInv, TypeOK, Inside, Writers
  <2> QED
    BY <2>1 DEF Tick, IInv, CallAlone
<1> QED
  BY <1>1, <1>2, <1>3, <1>4 DEF IInv, Tick, FailuresCounted, joystickVars

\* A read, good or bad, and a move of the stick preserve it too.
LEMMA StickInvariant ==
    ASSUME IInv,
           Sampled \/ SampledBadly \/ \E d \in Directions : Moved(d)
    PROVE  IInv'
<1>1. JoystickTypeOK'
  <2>1. genuine' \in BOOLEAN
    BY Zenon
    DEF IInv, TypeOK, JoystickTypeOK, Sampled, SampledBadly, Moved, Sample,
        SampleFails, Move
  <2>2. /\ stick' \in Directions /\ lastRawDirection' \in Directions
        /\ currentDirection' \in Directions
        /\ stableCount' \in 0 .. StableReads /\ failures' \in 0 .. StableReads
    BY JoystickAssumption
    DEF IInv, TypeOK, JoystickTypeOK, Sampled, SampledBadly, Moved, Sample,
        SampleFails, Move, Debounce, Directions
  <2> QED
    BY <2>1, <2>2 DEF JoystickTypeOK
<1>2. UNCHANGED volumeVars
  BY DEF Sampled, SampledBadly, Moved
<1>3. TypeOK'
  BY <1>1, <1>2 DEF IInv, TypeOK, volumeVars, tickVars
<1>4. CallAlone'
  BY <1>2 DEF IInv, CallAlone, Inside, volumeVars, tickVars
<1>5. FailuresCounted'
  BY JoystickAssumption
  DEF IInv, TypeOK, JoystickTypeOK, FailuresCounted, Sampled, SampledBadly, Moved,
      Sample, SampleFails, Move, Debounce
<1> QED
  BY <1>2, <1>3, <1>4, <1>5
  DEF IInv, CooldownCovers, HoldIsYounger, volumeVars, tickVars

\* So does every other step: none of them touches the counters.
LEMMA StepInvariant ==
    ASSUME IInv, [Next]_vars
    PROVE  IInv'
<1> USE VolumeAssumption
<1>1. CASE Tick
  BY <1>1, TickInvariant
<1>2. CASE ReadVolume
  <2>1. TypeOK'
    BY <1>2, Ranges DEF ReadVolume, IInv, TypeOK, JoystickTypeOK, joystickVars, tickVars, Writers
  <2>2. CallAlone'
    BY <1>2 DEF ReadVolume, IInv, TypeOK, CallAlone, Inside, Writers, tickVars, JoystickTypeOK, joystickVars,
                      FailuresCounted
  <2> QED
    BY <1>2, <2>1, <2>2
    DEF ReadVolume, IInv, CooldownCovers, HoldIsYounger, FailuresCounted, joystickVars,
        tickVars
<1>3. ASSUME NEW w \in Writers, SetVolume(w)
      PROVE  IInv'
  <2>1. CASE Store(w)
    BY <1>3, <2>1 DEF Store, Overlaps, IInv, TypeOK, CooldownCovers, HoldIsYounger,
                      CallAlone, Inside, Writers, tickVars, JoystickTypeOK, joystickVars,
                      FailuresCounted
  <2>2. CASE Fetch(w)
    BY <1>3, <2>2 DEF Fetch, IInv, TypeOK, CooldownCovers, HoldIsYounger, CallAlone,
                      Inside, Writers, tickVars, JoystickTypeOK, joystickVars,
                      FailuresCounted
  <2>3. CASE Apply(w)
    BY <1>3, <2>3 DEF Apply, IInv, TypeOK, CooldownCovers, HoldIsYounger, CallAlone,
                      Inside, Writers, tickVars, JoystickTypeOK, joystickVars,
                      FailuresCounted
  <2> QED
    BY <1>3, <2>1, <2>2, <2>3 DEF SetVolume
<1>4. CASE Sampled \/ SampledBadly \/ \E d \in Directions : Moved(d)
  BY <1>4, StickInvariant
<1>5. ASSUME NEW v \in Requests, UdpVolume(v)
      PROVE  IInv'
  BY <1>5 DEF UdpVolume, IInv, TypeOK, CooldownCovers, HoldIsYounger, CallAlone,
             Inside, tickVars, Volumes, Writers, JoystickTypeOK, joystickVars,
             FailuresCounted
<1>6. CASE UNCHANGED vars
  BY <1>6 DEF vars, joystickVars, IInv, TypeOK, JoystickTypeOK, CooldownCovers,
             HoldIsYounger, CallAlone, Inside, FailuresCounted
<1> QED
  BY <1>1, <1>2, <1>3, <1>4, <1>5, <1>6 DEF Next, JoystickStep, Writers

\* Every reachable state of VolumeInput is well typed: in particular no order
\* of presses, holds and commands takes the volume out of its range.
THEOREM VolumeTypeOK == Spec => []TypeOK
<1>1. IInv => TypeOK
  BY DEF IInv
<1> QED
  BY InitInvariant, StepInvariant, <1>1, PTL DEF Spec

\* Whatever the order of two setVolume calls, the cache tells the volume of the
\* hardware again after the first call that had it to itself.
THEOREM CacheFollowsHardware == Spec => []CacheIsHardware
<1>1. IInv => CacheIsHardware
  BY DEF IInv, CallAlone, Inside, CacheIsHardware
<1> QED
  BY InitInvariant, StepInvariant, <1>1, PTL DEF Spec

\* The joystick thread decides on a change only a whole cooldown after the
\* last press took effect, for every setting of the counters whose hold delay
\* is not shorter than the cooldown.
THEOREM PressIsFollowedByPause == Spec => PauseAfterPress
<1> DEFINE Pause == pc["joystick"] = "idle" /\ pc'["joystick"] # "idle" =>
                        since = DIRECTION_CHANGE_COOLDOWN
<1>1. ASSUME IInv, [Next]_vars
      PROVE  [Pause]_vars
  <2>1. CASE Tick
    BY <1>1, <2>1, VolumeAssumption
    DEF IInv, TypeOK, Tick, Press, Repeat, CooldownCovers, HoldIsYounger, HoldCounts
  <2>2. CASE ~Tick
    BY <1>1, <2>2
    DEF IInv, TypeOK, Next, JoystickStep, ReadVolume, SetVolume, Store, Fetch,
        Apply, Sampled, SampledBadly, Moved, volumeVars, UdpVolume, vars, Writers
  <2> QED
    BY <2>1, <2>2
<1> QED
  BY InitInvariant, StepInvariant, <1>1, PTL DEF Spec, PauseAfterPress

\* No run of failed reads the bus can produce is ever reported as a deflection
\* of the stick, for every number of repetitions that counts as stable.
THEOREM ReportsAreGenuine == Spec => ReportIsGenuine
<1> DEFINE Genuine == currentDirection' # currentDirection => genuine'
<1>1. ASSUME IInv, [Next]_vars
      PROVE  [Genuine]_joystickVars
  <2>1. CASE Sampled
    BY <2>1 DEF Sampled, Sample
  <2>2. CASE SampledBadly
    BY <1>1, <2>2, JoystickAssumption
    DEF IInv, TypeOK, JoystickTypeOK, FailuresCounted, SampledBadly, SampleFails,
        Debounce, Stable
  <2>3. ASSUME NEW d \in Directions, Moved(d)
        PROVE  Genuine
    BY <2>3 DEF Moved, Move
  <2>4. CASE UNCHANGED joystickVars
    BY <2>4
  <2>5. Sampled \/ SampledBadly \/ (\E d \in Directions : Moved(d))
            \/ UNCHANGED joystickVars
    BY <1>1
    DEF Next, JoystickStep, Tick, ReadVolume, SetVolume, Store, Fetch, Apply,
        UdpVolume, vars
  <2> QED
    BY <2>1, <2>2, <2>3, <2>4, <2>5
<1> QED
  BY InitInvariant, StepInvariant, <1>1, PTL DEF Spec, ReportIsGenuine
==============================================================================
