---------------------------- MODULE DevicesProofs ----------------------------
(***************************************************************************)
(* Proofs about the six parts that MCDevices runs side by side, for all    *)
(* ranges, thresholds and lengths of arrays and queues: the copy of the    *)
(* tempo main carries is out of date for one iteration at most; the LED    *)
(* has the frequency that is kept; a turn of either knob is read for what  *)
(* it was by a thread that is in time; a drum means a movement; every      *)
(* event is in one report; a press shows one screen at most. The two knobs *)
(* come down to where they stand and what a thread that kept up can have   *)
(* left unread, which is one edge.                                         *)
(***************************************************************************)
EXTENDS MCDevices, Sequences, WellFoundedInduction, TLAPS

\* The encoder's variable is the one that decides.
EncoderDecides == encoderBPM = latest

\* An iteration counts only when it began after the last request was
\* carried out, and the copy it carries is then up to date.
IterationIsFresh ==
    /\ age > 0 => main \in {"read", "set"} /\ udp # "encoder"
    /\ age = 1 => main = "set"
    /\ age > 0 /\ main = "set" => bpm = encoderBPM
    /\ age = 2 => playerBPM = encoderBPM

IInv == TypeOK /\ EncoderDecides /\ IterationIsFresh

\* RotaryEncoder_setBPM and the knob stay between the limits, and leave alone
\* what is there already.
LEMMA TurnedInRange ==
    /\ \A n \in Int : Turned(n) \in InRange
    /\ \A n \in InRange : Turned(n) = n
  BY TempoAssumption DEF Turned, InRange

\* The initial states of TempoSync satisfy the inductive invariant.
LEMMA InitInvariant == Init => IInv
  BY TempoAssumption
  DEF Init, IInv, TypeOK, EncoderDecides, IterationIsFresh, InRange

\* Every step of the main loop, the knob and the command preserves it.
LEMMA StepInvariant ==
    ASSUME IInv, [Next]_vars
    PROVE  IInv'
<1> USE TempoAssumption DEF IInv, EncoderDecides, IterationIsFresh
<1>1. CASE InitEncoder
  BY <1>1 DEF InitEncoder, TypeOK, InRange
<1>2. CASE SetDefault
  BY <1>2 DEF SetDefault, TypeOK, InRange
<1>3. CASE ReadEncoder
  BY <1>3 DEF ReadEncoder, TypeOK
<1>4. CASE SetPlayer
  BY <1>4 DEF SetPlayer, TypeOK
<1>5. CASE UdpSetBPM
  <2>1. encoderBPM' = tempo /\ tempo \in InRange
    BY <1>5, TurnedInRange DEF UdpSetBPM, SetBPM, TypeOK
  <2> QED
    BY <1>5, <2>1 DEF UdpSetBPM, TypeOK
<1>6. CASE UdpReply
  BY <1>6 DEF UdpReply, TypeOK
<1>7. ASSUME NEW by \in Int, Turn(by)
      PROVE  IInv'
  <2>1. encoderBPM' \in InRange
    BY <1>7, TurnedInRange DEF Turn, TypeOK, InRange
  <2> QED
    BY <1>7, <2>1 DEF Turn, TypeOK
<1>8. ASSUME NEW t \in Tempos, UdpTempo(t)
      PROVE  IInv'
  BY <1>8 DEF UdpTempo, TypeOK
<1>9. CASE UNCHANGED vars
  BY <1>9 DEF vars, TypeOK
<1> QED
  BY <1>1, <1>2, <1>3, <1>4, <1>5, <1>6, <1>7, <1>8, <1>9
  DEF Next, MainStep, UdpStep

\* Every reachable state of TempoSync is well typed: no sequence of turns and
\* commands takes a tempo out of its range.
THEOREM TempoTypeOK == Spec => []TypeOK
<1>1. IInv => TypeOK
  BY DEF IInv
<1> QED
  BY InitInvariant, StepInvariant, <1>1, PTL DEF Spec

\* One iteration of the main loop after the last request, the beat is played
\* at the tempo asked for last, wherever the request fell between its steps.
THEOREM OneIterationSettlesTempo == Spec => []LatestTempoPlays
<1>1. IInv => LatestTempoPlays
  BY DEF IInv, EncoderDecides, IterationIsFresh, LatestTempoPlays
<1> QED
  BY InitInvariant, StepInvariant, <1>1, PTL DEF Spec

------------------------------------------------------------------------------
(* In MCDevices one part moves and the others stay, so what a part does on *)
(* its own it does there.                                                  *)

\* Every step of MCDevices is a step of each part or leaves the part alone.
LEMMA StepOfParts ==
    ASSUME [AllNext /\ UNCHANGED mover]_allVars
    PROVE  /\ [Next]_vars /\ [Period!Next]_(Period!periodVars)
           /\ [Encoder!Next]_(Encoder!encoderVars) /\ [Accel!Next]_(Accel!accelVars)
           /\ [Flash!Next]_(Flash!flashVars) /\ [Lcd!Next]_(Lcd!vars)
  BY DEF AllNext, allVars, periodVars, encoderVars, accelVars, flashVars, lcdVars,
         Lcd!vars, Lcd!button, Period!periodVars,
         Period!data, Period!history, Encoder!encoderVars, Accel!accelVars, Flash!flashVars

------------------------------------------------------------------------------
(* The LED of assignment 2.                                                *)

\* A second divided by a frequency is a number, and half of it no more.
LEMMA PeriodType ==
    ASSUME NEW f \in Nat, f > 0
    PROVE  /\ Second \div f \in Nat
           /\ (Second \div f) \div 2 \in Nat
           /\ (Second \div f) \div 2 <= Second \div f
<1>1. Second \in Nat
  BY DevicesAssumption DEF Flash!FlashAssumption
<1>2. Second \div f \in Nat
  BY <1>1
<1> QED
  BY <1>2

\* What is kept of the frequency and the PWM between the steps of main.
LedInv ==
    /\ current_frequency \in 0 .. MAX_FREQUENCY
    /\ last_direction \in {-1, 0, 1}
    /\ pwm \in [period : Nat, duty : Nat]
    /\ LedFollowsFrequency

\* PwmLed_init leaves the LED flashing.
LEMMA InitLed == Flash!Init => LedInv
<1> SUFFICES ASSUME Flash!Init
             PROVE  LedInv
  OBVIOUS
<1>1. InitialFrequency \in 3 .. MAX_FREQUENCY /\ MAX_FREQUENCY \in Nat
  BY DevicesAssumption DEF Flash!FlashAssumption
<1>2. /\ Second \div InitialFrequency \in Nat
      /\ (Second \div InitialFrequency) \div 2 \in Nat
  BY <1>1, PeriodType
<1> QED
  BY <1>1, <1>2 DEF Flash!Init, LedInv, LedFollowsFrequency, Flash!LedFollowsFrequency

\* The three writes of PwmLed_setFrequency all reach the PWM, for the pulse is
\* out of the way when the period shrinks.
LEMMA StepLed ==
    ASSUME LedInv, [Flash!Next]_(Flash!flashVars)
    PROVE  LedInv'
<1>1. CASE Flash!ProcessRotary
  <2> DEFINE f == Flash!Clamped(current_frequency + last_direction)
  <2>1. MAX_FREQUENCY \in Nat /\ f \in 0 .. MAX_FREQUENCY /\ last_direction' = 0
    BY <1>1, DevicesAssumption DEF Flash!FlashAssumption, Flash!Clamped, LedInv,
       Flash!ProcessRotary
  <2> HIDE DEF f
  <2>2. CASE f = current_frequency
    BY <1>1, <2>1, <2>2 DEF Flash!ProcessRotary, LedInv, f, LedFollowsFrequency,
       Flash!LedFollowsFrequency
  <2>3. CASE f # current_frequency
    <3>1. Flash!SetFrequency(f)
      BY <1>1, <2>3 DEF Flash!ProcessRotary, f
    <3>2. current_frequency' = f
      BY <3>1 DEF Flash!SetFrequency, Flash!Remembered
    <3>3. CASE f < 3
      BY <2>1, <3>1, <3>2, <3>3 DEF Flash!SetFrequency, Flash!WriteDuty, LedInv,
         LedFollowsFrequency, Flash!LedFollowsFrequency
    <3>4. CASE f >= 3
      <4> DEFINE p == Second \div f
                 d == p \div 2
      <4>1. p \in Nat /\ d \in Nat /\ d <= p
        BY <2>1, <3>4, PeriodType
      <4>2. pwm' = Flash!SetPwmValues(pwm, p, d)
        BY <2>1, <3>1, <3>4 DEF Flash!SetFrequency
      <4> HIDE DEF p, d
      <4>3. pwm' \in [period : Nat, duty : Nat] /\ pwm'.period = p /\ pwm'.duty = d
        <5> DEFINE h1 == Flash!WriteDuty(pwm, 0)
                   h2 == Flash!WritePeriod(h1, p)
        <5>1. h1 \in [period : Nat, duty : Nat] /\ h1.duty = 0
          BY DEF Flash!WriteDuty, LedInv
        <5> HIDE DEF h1
        <5>2. h2 \in [period : Nat, duty : Nat] /\ h2.duty = 0 /\ h2.period = p
          BY <4>1, <5>1 DEF Flash!WritePeriod
        <5> HIDE DEF h2
        <5>3. pwm' = Flash!WriteDuty(h2, d)
          BY <4>2 DEF Flash!SetPwmValues, h1, h2
        <5> QED
          BY <4>1, <5>2, <5>3 DEF Flash!WriteDuty
      <4> QED
        BY <2>1, <3>2, <3>4, <4>3 DEF LedInv, LedFollowsFrequency,
           Flash!LedFollowsFrequency, p, d
    <3> QED
      BY <2>1, <3>3, <3>4
  <2> QED
    BY <2>2, <2>3
<1>2. CASE ~Flash!ProcessRotary
  <2>1. UNCHANGED <<current_frequency, pwm>>
    BY <1>2 DEF Flash!Next, Flash!TurnKnob, Flash!WaitForEdges, Flash!ReadEvent,
       Flash!ReadEventFails, Flash!flashVars
  <2>2. last_direction' \in {-1, 0, 1}
    BY <1>2 DEF Flash!Next, Flash!TurnKnob, Flash!WaitForEdges, Flash!ReadEvent,
       Flash!ReadEventFails, Flash!Reported, Flash!flashVars, LedInv
  <2> QED
    BY <2>1, <2>2 DEF LedInv, LedFollowsFrequency, Flash!LedFollowsFrequency
<1> QED
  BY <1>1, <1>2

\* The LED has the frequency the program keeps, whatever the unit of time and
\* the limit, and is off when it is too slow to flash.
THEOREM LedHasFrequency == AllSpec => []LedFollowsFrequency
<1>1. AllInit => LedInv
  BY InitLed DEF AllInit
<1>2. LedInv => LedFollowsFrequency
  BY DEF LedInv
<1> QED
  BY <1>1, <1>2, StepOfParts, StepLed, PTL DEF AllSpec

------------------------------------------------------------------------------
(* The knob of assignment 2.                                               *)

\* One edge on in direction t.
FlashStep(p, t) == (p + (IF t = "cw" THEN 1 ELSE 3)) % 4

\* The knob's cycle: one edge on, one of the lines changes.
LEMMA FlashMoves ==
    ASSUME NEW p \in 0 .. 3, NEW t \in Flash!Turns
    PROVE  /\ FlashStep(p, t) \in 0 .. 3
           /\ Flash!High("A", FlashStep(p, t)) # Flash!High("A", p)
                  <=> Flash!High("B", FlashStep(p, t)) = Flash!High("B", p)
<1>1. /\ FlashStep(0, "cw") = 1 /\ FlashStep(1, "cw") = 2
      /\ FlashStep(2, "cw") = 3 /\ FlashStep(3, "cw") = 0
      /\ FlashStep(0, "ccw") = 3 /\ FlashStep(1, "ccw") = 0
      /\ FlashStep(2, "ccw") = 1 /\ FlashStep(3, "ccw") = 2
  BY DEF FlashStep
<1>2. /\ Flash!High("A", 0) /\ ~Flash!High("A", 1) /\ ~Flash!High("A", 2) /\ Flash!High("A", 3)
      /\ Flash!High("B", 0) /\ Flash!High("B", 1) /\ ~Flash!High("B", 2) /\ ~Flash!High("B", 3)
  BY DEF Flash!High
<1>3. \A l, q : Flash!High(l, q) \in BOOLEAN
  BY DEF Flash!High
<1>4. (p = 0 \/ p = 1 \/ p = 2 \/ p = 3) /\ (t = "cw" \/ t = "ccw")
  BY DEF Flash!Turns
<1> QED
  BY <1>1, <1>2, <1>3, <1>4

\* Where the state machine can be when all edges have been read and it has
\* rested since two of them waited: what it has begun, the knob has turned.
MachineFollows(s, p, n) ==
    CASE s = "REST"      -> TRUE
      [] s = "CW_BEGIN"  -> (p = 1 /\ n >= 1) \/ (p = 2 /\ n <= -1)
      [] s = "CCW_BEGIN" -> (p = 3 /\ n <= -1) \/ (p = 2 /\ n >= 1)
      [] s = "CW_FINAL"  -> p = 2 /\ n >= 2
      [] s = "CCW_FINAL" -> p = 2 /\ n <= -2
      [] OTHER           -> FALSE

\* The machine has followed the knob, all but the last edge in turn t at most.
NothingRead == \A l \in Flash!Lines : events[l] = << >>

OneEdgeBehind ==
    \E p \in 0 .. 3, n \in -3 .. 3, t \in Flash!Turns :
        /\ MachineFollows(pCurrentState, p, n)
        /\ position = FlashStep(p, t)
        /\ IF t = "cw" THEN run >= 1 /\ (n >= 1 => run >= 2) /\ (n >= 2 => run = 3)
                       ELSE run <= -1 /\ (n <= -1 => run <= -2) /\ (n <= -2 => run = -3)
        /\ \A l \in Flash!Lines :
               events[l] = IF Flash!High(l, position) = Flash!High(l, p) THEN << >>
                           ELSE << IF Flash!High(l, position) THEN "rising" ELSE "falling" >>

MachineInv ==
    /\ position \in 0 .. 3 /\ run \in -3 .. 3 /\ late \in BOOLEAN
    /\ pCurrentState \in Flash!States
    /\ bulk \subseteq Flash!Waiting
    /\ events \in [Flash!Lines -> Seq({"rising", "falling"})]
    /\ \A l \in Flash!Lines : Len(events[l]) <= MaxQueued
    /\ ~late => \/ NothingRead /\ MachineFollows(pCurrentState, position, run)
                \/ OneEdgeBehind
    /\ ReportNeedsTurn

\* The machine rests when the thread starts.
LEMMA InitMachine == Flash!Init => MachineInv
<1> SUFFICES ASSUME Flash!Init
             PROVE  MachineInv
  OBVIOUS
<1>1. NothingRead /\ MachineFollows(pCurrentState, position, run)
  BY DEF Flash!Init, NothingRead, MachineFollows
<1>2. /\ events \in [Flash!Lines -> Seq({"rising", "falling"})]
      /\ \A l \in Flash!Lines : Len(events[l]) <= MaxQueued
  BY DevicesAssumption DEF Flash!Init, Flash!FlashAssumption
<1>3. ReportNeedsTurn
  BY DEF Flash!Init, ReportNeedsTurn, Flash!ReportNeedsTurn, Flash!NoReport
<1>4. /\ position \in 0 .. 3 /\ run \in -3 .. 3 /\ late \in BOOLEAN
      /\ pCurrentState \in Flash!States /\ bulk \subseteq Flash!Waiting
  <2>1. /\ position = 0 /\ run = 0 /\ late = FALSE /\ pCurrentState = "REST" /\ bulk = {}
    BY DEF Flash!Init
  <2>2. position \in 0 .. 3 /\ run \in -3 .. 3
    BY <2>1
  <2>3. pCurrentState \in Flash!States
    BY <2>1 DEF Flash!States
  <2>4. late \in BOOLEAN /\ bulk \subseteq Flash!Waiting
    BY <2>1, Zenon
  <2> QED
    BY <2>2, <2>3, <2>4
<1> QED
  BY <1>1, <1>2, <1>3, <1>4 DEF MachineInv

\* A turn is one edge ahead of a machine that has read everything.
LEMMA TurnMachine ==
    ASSUME MachineInv, NEW t \in Flash!Turns, Flash!TurnKnob(t)
    PROVE  MachineInv'
<1>1. /\ position' = FlashStep(position, t) /\ position' \in 0 .. 3
      /\ run' = Flash!Continued(t) /\ late' = (late \/ Flash!Waiting # {})
      /\ UNCHANGED <<bulk, pCurrentState, report>>
  BY DEF Flash!TurnKnob, FlashStep, MachineInv
<1>2. \A l \in Flash!Lines :
          events'[l] = IF \/ Flash!High(l, position') = Flash!High(l, position)
                          \/ Len(events[l]) = MaxQueued
                       THEN events[l]
                       ELSE Append(events[l], IF Flash!High(l, position') THEN "rising"
                                              ELSE "falling")
  BY DEF Flash!TurnKnob
<1>3. /\ events' \in [Flash!Lines -> Seq({"rising", "falling"})]
      /\ \A l \in Flash!Lines : Len(events'[l]) <= MaxQueued
  <2>1. events' \in [Flash!Lines -> Seq({"rising", "falling"})]
    BY DEF Flash!TurnKnob, MachineInv
  <2> SUFFICES ASSUME NEW l \in Flash!Lines
               PROVE  Len(events'[l]) <= MaxQueued
    BY <2>1
  <2>2. /\ events[l] \in Seq({"rising", "falling"}) /\ Len(events[l]) \in Nat
        /\ Len(events[l]) <= MaxQueued /\ MaxQueued \in Nat
    BY DevicesAssumption DEF MachineInv, Flash!FlashAssumption
  <2> DEFINE e == IF Flash!High(l, position') THEN "rising" ELSE "falling"
  <2>3. e \in {"rising", "falling"}
    OBVIOUS
  <2>4. \/ events'[l] = events[l]
        \/ Len(events[l]) # MaxQueued /\ events'[l] = Append(events[l], e)
    BY <1>2
  <2> HIDE DEF e
  <2>5. Len(Append(events[l], e)) = Len(events[l]) + 1
    BY <2>2, <2>3
  <2> QED
    BY <2>2, <2>4, <2>5
<1>4. bulk' \subseteq Flash!Waiting'
  <2> SUFFICES ASSUME NEW l \in Flash!Lines, events[l] # << >>
               PROVE  events'[l] # << >>
    BY <1>1 DEF MachineInv, Flash!Waiting
  <2>1. events[l] \in Seq({"rising", "falling"})
    BY DEF MachineInv
  <2>2. \A e \in {"rising", "falling"} : Append(events[l], e) # << >>
    BY <2>1
  <2> QED
    BY <1>2, <2>2
<1>5. /\ run' \in -3 .. 3
      /\ IF t = "cw" THEN run' >= 1 /\ (run >= 1 => run' >= 2) /\ (run >= 2 => run' = 3)
                     ELSE run' <= -1 /\ (run <= -1 => run' <= -2) /\ (run <= -2 => run' = -3)
  BY <1>1 DEF Flash!Continued, MachineInv
<1>6. ~late' => OneEdgeBehind'
  <2> SUFFICES ASSUME ~late'
               PROVE  OneEdgeBehind'
    OBVIOUS
  <2>1. ~late /\ NothingRead
    BY <1>1 DEF NothingRead, Flash!Waiting, MachineInv
  <2>2. MachineFollows(pCurrentState, position, run)
    <3>1. ~OneEdgeBehind
      <4> SUFFICES ASSUME OneEdgeBehind
                   PROVE  FALSE
        OBVIOUS
      <4>1. PICK p \in 0 .. 3, u \in Flash!Turns :
              /\ position = FlashStep(p, u)
              /\ \A l \in Flash!Lines :
                   events[l] = IF Flash!High(l, position) = Flash!High(l, p) THEN << >>
                       ELSE << IF Flash!High(l, position) THEN "rising" ELSE "falling" >>
        BY DEF OneEdgeBehind
      <4>2. ASSUME NEW e
            PROVE  << e >> # << >>
        OBVIOUS
      <4>3. \A l \in Flash!Lines : Flash!High(l, position) = Flash!High(l, p)
        BY <2>1, <4>1, <4>2 DEF NothingRead
      <4>4. /\ Flash!High("A", position) = Flash!High("A", p)
            /\ Flash!High("B", position) = Flash!High("B", p)
        BY <4>3 DEF Flash!Lines
      <4> QED
        BY <4>1, <4>4, FlashMoves
    <3> QED
      BY <2>1, <3>1 DEF MachineInv
  <2>3. \A l \in Flash!Lines :
          events'[l] = IF Flash!High(l, position') = Flash!High(l, position) THEN << >>
                       ELSE << IF Flash!High(l, position') THEN "rising" ELSE "falling" >>
    <3>1. /\ Append(<< >>, "rising") = << "rising" >>
          /\ Append(<< >>, "falling") = << "falling" >>
          /\ Len(<< >>) # MaxQueued
      BY DevicesAssumption DEF Flash!FlashAssumption
    <3> QED
      BY <1>2, <2>1, <3>1 DEF NothingRead
  <2>4. position \in 0 .. 3 /\ run \in -3 .. 3
    BY DEF MachineInv
  <2> QED
    BY <1>1, <1>5, <2>2, <2>3, <2>4 DEF OneEdgeBehind
<1>7. late' \in BOOLEAN
  BY <1>1 DEF MachineInv
<1> QED
  BY <1>1, <1>3, <1>4, <1>5, <1>6, <1>7 DEF MachineInv, ReportNeedsTurn, Flash!ReportNeedsTurn

\* The machine takes the edge it was behind by, and a report it makes then is
\* the third edge of a turn; or it was late, and rests when it has caught up.
LEMMA ReadMachine ==
    ASSUME MachineInv, NEW l \in Flash!Lines, Flash!ReadEvent(l)
    PROVE  MachineInv'
<1> DEFINE e == Head(events[l])
           by == Flash!Reported(pCurrentState, l, e)
<1>1. /\ l \in bulk /\ bulk' = bulk \ {l} /\ events' = [events EXCEPT ![l] = Tail(@)]
      /\ pCurrentState' = Flash!NextState(pCurrentState, l, e)
      /\ report' = IF by = 0 THEN Flash!NoReport
                   ELSE [direction |-> by, run |-> run, late |-> late]
      /\ late' = (late /\ (pCurrentState' # "REST" \/ \E k \in Flash!Lines : events'[k] # << >>))
      /\ UNCHANGED <<position, run>>
  BY DEF Flash!ReadEvent
<1>2. events[l] \in Seq({"rising", "falling"}) /\ events[l] # << >>
  BY <1>1 DEF MachineInv, Flash!Waiting
<1>3. e \in {"rising", "falling"}
  BY <1>2
<1>4. /\ events' \in [Flash!Lines -> Seq({"rising", "falling"})]
      /\ \A k \in Flash!Lines : Len(events'[k]) <= MaxQueued
  <2>1. Tail(events[l]) \in Seq({"rising", "falling"}) /\ Len(events[l]) <= MaxQueued
        /\ Len(Tail(events[l])) = Len(events[l]) - 1 /\ Len(events[l]) \in Nat
        /\ MaxQueued \in Nat
    BY <1>2, DevicesAssumption DEF MachineInv, Flash!FlashAssumption
  <2>2. \A k \in Flash!Lines : k # l => events'[k] = events[k]
    BY <1>1 DEF MachineInv
  <2>3. events'[l] = Tail(events[l])
    BY <1>1 DEF MachineInv
  <2>4. Len(events'[l]) <= MaxQueued
    BY <2>1, <2>3
  <2>5. events' \in [Flash!Lines -> Seq({"rising", "falling"})]
    BY <1>1, <2>1 DEF MachineInv
  <2> QED
    BY <2>2, <2>4, <2>5 DEF MachineInv
<1>5. bulk' \subseteq Flash!Waiting'
  BY <1>1 DEF MachineInv, Flash!Waiting
<1>6. pCurrentState' \in Flash!States
  BY <1>1 DEF Flash!NextState, Flash!States, MachineInv
<1>7. late' \in BOOLEAN /\ (late => (~late' => pCurrentState' = "REST" /\ NothingRead'))
  BY <1>1 DEF MachineInv, NothingRead
<1>8. ASSUME ~late
      PROVE  /\ NothingRead' /\ MachineFollows(pCurrentState', position, run)
             /\ by = 1 => run = 3
             /\ by = -1 => run = -3
  <2>1. OneEdgeBehind
    BY <1>2, <1>8 DEF MachineInv, NothingRead
  <2>2. PICK p \in 0 .. 3, n \in -3 .. 3, t \in Flash!Turns :
        /\ MachineFollows(pCurrentState, p, n)
        /\ position = FlashStep(p, t)
        /\ IF t = "cw" THEN run >= 1 /\ (n >= 1 => run >= 2) /\ (n >= 2 => run = 3)
                       ELSE run <= -1 /\ (n <= -1 => run <= -2) /\ (n <= -2 => run = -3)
        /\ \A k \in Flash!Lines :
               events[k] = IF Flash!High(k, position) = Flash!High(k, p) THEN << >>
                           ELSE << IF Flash!High(k, position) THEN "rising" ELSE "falling" >>
    BY <2>1 DEF OneEdgeBehind
  <2>3. /\ Flash!High(l, position) # Flash!High(l, p)
        /\ events[l] = << IF Flash!High(l, position) THEN "rising" ELSE "falling" >>
    BY <1>2, <2>2
  <2>4. e = (IF Flash!High(l, position) THEN "rising" ELSE "falling") /\ Tail(events[l]) = << >>
    BY <2>3
  <2>5. NothingRead'
    <3> SUFFICES ASSUME NEW k \in Flash!Lines
                 PROVE  events'[k] = << >>
      BY DEF NothingRead
    <3>1. CASE k = l
      BY <1>1, <2>4, <3>1 DEF MachineInv
    <3>2. CASE k # l
      <4>1. Flash!High(k, position) = Flash!High(k, p)
        BY <2>2, <2>3, <3>2, FlashMoves DEF Flash!Lines
      <4> QED
        BY <1>1, <2>2, <3>2, <4>1 DEF MachineInv
    <3> QED
      BY <3>1, <3>2
  <2>6. /\ MachineFollows(pCurrentState', position, run)
        /\ by = 1 => run = 3
        /\ by = -1 => run = -3
    <3> HIDE DEF e
    <3>1. run \in -3 .. 3 /\ pCurrentState \in Flash!States
      BY DEF MachineInv
    <3>2. CASE t = "cw"
      <4>1. \/ p = 0 /\ position = 1 /\ l = "A" /\ e = "falling"
            \/ p = 1 /\ position = 2 /\ l = "B" /\ e = "falling"
            \/ p = 2 /\ position = 3 /\ l = "A" /\ e = "rising"
            \/ p = 3 /\ position = 0 /\ l = "B" /\ e = "rising"
        BY <2>2, <2>3, <2>4, <3>2 DEF FlashStep, Flash!High, Flash!Lines
      <4> QED
        BY <1>1, <2>2, <3>1, <3>2, <4>1
        DEF MachineFollows, Flash!NextState, Flash!Reported, Flash!States
    <3>3. CASE t = "ccw"
      <4>1. \/ p = 0 /\ position = 3 /\ l = "B" /\ e = "falling"
            \/ p = 3 /\ position = 2 /\ l = "A" /\ e = "falling"
            \/ p = 2 /\ position = 1 /\ l = "B" /\ e = "rising"
            \/ p = 1 /\ position = 0 /\ l = "A" /\ e = "rising"
        BY <2>2, <2>3, <2>4, <3>3 DEF FlashStep, Flash!High, Flash!Lines
      <4> QED
        BY <1>1, <2>2, <3>1, <3>3, <4>1
        DEF MachineFollows, Flash!NextState, Flash!Reported, Flash!States
    <3> QED
      BY <3>2, <3>3 DEF Flash!Turns
  <2> QED
    BY <2>5, <2>6
<1>9. ReportNeedsTurn'
  BY <1>1, <1>8 DEF ReportNeedsTurn, Flash!ReportNeedsTurn, Flash!NoReport
<1>10. ~late' => NothingRead' /\ MachineFollows(pCurrentState, position, run)'
  BY <1>1, <1>7, <1>8 DEF MachineFollows, MachineInv
<1> QED
  BY <1>1, <1>4, <1>5, <1>6, <1>7, <1>9, <1>10 DEF MachineInv

\* Every step keeps the machine behind the knob.
LEMMA StepMachine ==
    ASSUME MachineInv, [Flash!Next]_(Flash!flashVars)
    PROVE  MachineInv'
<1>1. CASE Flash!WaitForEdges
  <2>1. bulk' = Flash!Waiting
        /\ UNCHANGED <<position, events, pCurrentState, run, late, report>>
    BY <1>1 DEF Flash!WaitForEdges
  <2>2. bulk' \subseteq Flash!Waiting'
    BY <2>1 DEF Flash!Waiting
  <2> QED
    BY <2>1, <2>2 DEF MachineInv, OneEdgeBehind, NothingRead, ReportNeedsTurn,
                      Flash!ReportNeedsTurn
<1>2. CASE Flash!ProcessRotary \/ UNCHANGED Flash!flashVars
  <2>1. UNCHANGED <<position, events, bulk, pCurrentState, run, late, report>>
    BY <1>2 DEF Flash!ProcessRotary, Flash!flashVars
  <2>2. bulk' \subseteq Flash!Waiting'
    BY <2>1 DEF Flash!Waiting, MachineInv
  <2> QED
    BY <2>1, <2>2 DEF MachineInv, OneEdgeBehind, NothingRead, ReportNeedsTurn,
                      Flash!ReportNeedsTurn
<1>3. ASSUME NEW l \in Flash!Lines, Flash!ReadEventFails(l)
      PROVE  MachineInv'
  <2>1. bulk' \subseteq bulk
        /\ UNCHANGED <<position, events, pCurrentState, run, late, report>>
    BY <1>3 DEF Flash!ReadEventFails
  <2>2. bulk' \subseteq Flash!Waiting'
    BY <2>1 DEF Flash!Waiting, MachineInv
  <2> QED
    BY <2>1, <2>2 DEF MachineInv, OneEdgeBehind, NothingRead, ReportNeedsTurn,
                      Flash!ReportNeedsTurn
<1> QED
  BY <1>1, <1>2, <1>3, TurnMachine, ReadMachine DEF Flash!Next

\* No wobble of the knob makes a report: it takes three edges in its direction,
\* unless the thread was late, as it is when the kernel drops an edge.
THEOREM ReportsNeedTurns == AllSpec => []ReportNeedsTurn
<1>1. AllInit => MachineInv
  BY InitMachine DEF AllInit
<1>2. MachineInv => ReportNeedsTurn
  BY DEF MachineInv
<1> QED
  BY <1>1, <1>2, StepOfParts, StepMachine, PTL DEF AllSpec

------------------------------------------------------------------------------
(* The knob of the beatbox.                                                *)

\* The level the thread remembers of a line.
Remembered(l) == IF l = "clk" THEN clk_last_state ELSE dt_last_state

\* The last edge of a line has its level; with all edges read, the thread
\* remembers it; but for a line whose last edge was dropped.
LevelsArrive ==
    \A l \in Encoder!Lines \ lost :
        IF queue[l] = << >> THEN Remembered(l) \in {-1, Encoder!Level(l, knob)}
        ELSE queue[l][Len(queue[l])].level = Encoder!Level(l, knob)

\* One edge waits, made by a turn t from place p; the thread remembers the
\* level of the line that did not change.
OneEdgeWaits ==
    \E p \in 0 .. 3, t \in Encoder!Turns :
        /\ knob = FlashStep(p, t)
        /\ \A l \in Encoder!Lines :
               /\ queue[l] = IF Encoder!Level(l, knob) = Encoder!Level(l, p) THEN << >>
                             ELSE << [level |-> Encoder!Level(l, knob), turn |-> t] >>
               /\ Encoder!Level(l, knob) = Encoder!Level(l, p)
                      => Remembered(l) \in {-1, Encoder!Level(l, p)}

NoEdgeWaits == \A l \in Encoder!Lines : queue[l] = << >>

EncoderInv ==
    /\ knob \in 0 .. 3
    /\ queue \in [Encoder!Lines -> Seq(Encoder!Edges)]
    /\ LevelsArrive
    /\ ~behind => NoEdgeWaits \/ OneEdgeWaits
    /\ EncoderFollowsKnob

\* The levels of the lines at each place, and the places a turn leads to.
LEMMA EncoderMoves ==
    /\ Encoder!Level("clk", 0) = 1 /\ Encoder!Level("clk", 1) = 0
    /\ Encoder!Level("clk", 2) = 0 /\ Encoder!Level("clk", 3) = 1
    /\ Encoder!Level("dt", 0) = 1 /\ Encoder!Level("dt", 1) = 1
    /\ Encoder!Level("dt", 2) = 0 /\ Encoder!Level("dt", 3) = 0
    /\ FlashStep(0, "cw") = 1 /\ FlashStep(1, "cw") = 2
    /\ FlashStep(2, "cw") = 3 /\ FlashStep(3, "cw") = 0
    /\ FlashStep(0, "ccw") = 3 /\ FlashStep(1, "ccw") = 0
    /\ FlashStep(2, "ccw") = 1 /\ FlashStep(3, "ccw") = 2
    /\ \A l, k : Encoder!Level(l, k) \in {0, 1}
  BY DEF Encoder!Level, FlashStep

\* Reading the first of several edges leaves the last one the last.
LEMMA LastStays ==
    ASSUME NEW S, NEW s \in Seq(S), s # << >>
    PROVE  /\ Len(s) = 1 => Tail(s) = << >> /\ s[Len(s)] = Head(s)
           /\ Len(s) # 1 => Tail(s) # << >> /\ Tail(s)[Len(Tail(s))] = s[Len(s)]
<1> DEFINE t == Tail(s)
<1>1. /\ Len(s) \in Nat /\ Len(s) >= 1 /\ Len(t) = Len(s) - 1 /\ t \in Seq(S)
  OBVIOUS
<1>2. Head(s) = s[1] /\ \A i \in 1 .. Len(t) : t[i] = s[i + 1]
  OBVIOUS
<1> HIDE DEF t
<1>3. t = << >> <=> Len(t) = 0
  BY <1>1
<1>4. ASSUME Len(s) = 1
      PROVE  t = << >> /\ s[Len(s)] = Head(s)
  BY <1>1, <1>2, <1>3, <1>4
<1>5. ASSUME Len(s) # 1
      PROVE  t # << >> /\ t[Len(t)] = s[Len(s)]
  <2>1. Len(t) # 0 /\ Len(t) \in 1 .. Len(t)
    BY <1>1, <1>5
  <2> QED
    BY <1>1, <1>2, <1>3, <2>1
<1> QED
  BY <1>4, <1>5 DEF t

\* The thread starts with no edge and no level.
LEMMA InitEncoderInv == Encoder!Init => EncoderInv
<1> SUFFICES ASSUME Encoder!Init
             PROVE  EncoderInv
  OBVIOUS
<1>1. NoEdgeWaits /\ LevelsArrive
  BY DEF Encoder!Init, NoEdgeWaits, LevelsArrive, Remembered
<1>2. knob \in 0 .. 3 /\ queue \in [Encoder!Lines -> Seq(Encoder!Edges)]
  BY DEF Encoder!Init
<1>3. EncoderFollowsKnob
  BY DEF Encoder!Init, EncoderFollowsKnob, Encoder!EncoderFollowsKnob,
         Encoder!DirectionIsTurn, Encoder!CatchesUp
<1> QED
  BY <1>1, <1>2, <1>3 DEF EncoderInv

\* What a turn does to the queue of a line: the line gets its edge, or has not
\* changed, or has lost it.
LEMMA TurnOfLine ==
    ASSUME EncoderInv, NEW t \in Encoder!Turns, Encoder!Turn(t),
           NEW l \in Encoder!Lines
    PROVE  \/ /\ Encoder!Level(l, knob') # Encoder!Level(l, knob)
              /\ Len(queue[l]) # MaxQueued
              /\ queue'[l] = Append(queue[l],
                                   [level |-> Encoder!Level(l, knob'), turn |-> t])
              /\ l \notin lost'
           \/ /\ Encoder!Level(l, knob') = Encoder!Level(l, knob)
              /\ queue'[l] = queue[l] /\ (l \in lost' <=> l \in lost)
           \/ Len(queue[l]) = MaxQueued /\ queue'[l] = queue[l] /\ l \in lost'
<1> DEFINE moved == {k \in Encoder!Lines : Encoder!Level(k, knob') # Encoder!Level(k, knob)}
           full == {k \in moved : Len(queue[k]) = MaxQueued}
<1>1. /\ queue'[l] = IF l \in moved \ full
                     THEN Append(queue[l], [level |-> Encoder!Level(l, knob'), turn |-> t])
                     ELSE queue[l]
      /\ lost' = (lost \ moved) \cup full
  BY DEF Encoder!Turn, Encoder!Lost
<1>2. CASE l \in moved \ full
  BY <1>1, <1>2
<1>3. CASE l \notin moved
  BY <1>1, <1>3
<1>4. CASE l \in full
  BY <1>1, <1>4
<1> QED
  BY <1>2, <1>3, <1>4

\* A turn queues the edge it makes or loses it; the thread is behind if one
\* waited or a line is lost.
LEMMA TurnEncoderInv ==
    ASSUME EncoderInv, NEW t \in Encoder!Turns, Encoder!Turn(t)
    PROVE  EncoderInv'
<1>1. /\ knob' = FlashStep(knob, t)
      /\ behind' = (lost' # {} \/ \E l \in Encoder!Lines : queue[l] # << >>)
      /\ UNCHANGED <<clk_last_state, dt_last_state, step>>
  BY DEF Encoder!Turn, FlashStep
<1>2. knob \in 0 .. 3 /\ knob' \in 0 .. 3
  BY <1>1, EncoderMoves DEF EncoderInv, FlashStep
<1>3. ASSUME NEW l \in Encoder!Lines
      PROVE  [level |-> Encoder!Level(l, knob'), turn |-> t] \in Encoder!Edges
  BY EncoderMoves DEF Encoder!Edges
<1>4. queue' \in [Encoder!Lines -> Seq(Encoder!Edges)]
  <2>1. ASSUME NEW l \in Encoder!Lines
        PROVE  queue'[l] \in Seq(Encoder!Edges)
    <3> DEFINE e == [level |-> Encoder!Level(l, knob'), turn |-> t]
    <3>1. e \in Encoder!Edges /\ queue[l] \in Seq(Encoder!Edges)
      BY <1>3 DEF EncoderInv
    <3>2. queue'[l] = queue[l] \/ queue'[l] = Append(queue[l], e)
      BY TurnOfLine
    <3> HIDE DEF e
    <3> QED
      BY <3>1, <3>2
  <2>2. queue' = [l \in Encoder!Lines |-> queue'[l]]
    BY DEF Encoder!Turn
  <2> QED
    BY <2>1, <2>2
<1>5. LevelsArrive'
  <2> SUFFICES ASSUME NEW l \in Encoder!Lines, l \notin lost'
               PROVE  IF queue'[l] = << >> THEN Remembered(l) \in {-1, Encoder!Level(l, knob')}
                      ELSE queue'[l][Len(queue'[l])].level = Encoder!Level(l, knob')
    BY <1>1 DEF LevelsArrive, Remembered
  <2> DEFINE e == [level |-> Encoder!Level(l, knob'), turn |-> t]
  <2>1. queue[l] \in Seq(Encoder!Edges)
    BY DEF EncoderInv
  <2>2. CASE Encoder!Level(l, knob') = Encoder!Level(l, knob)
    <3>1. queue'[l] = queue[l] /\ l \notin lost
      BY <2>2, TurnOfLine
    <3> QED
      BY <2>2, <3>1 DEF EncoderInv, LevelsArrive
  <2>3. CASE Encoder!Level(l, knob') # Encoder!Level(l, knob)
    <3>1. e \in Encoder!Edges /\ e.level = Encoder!Level(l, knob')
      BY <1>3
    <3>2. queue'[l] = Append(queue[l], e)
      BY <2>3, TurnOfLine
    <3> HIDE DEF e
    <3>3. queue'[l] # << >> /\ queue'[l][Len(queue'[l])] = e
      BY <2>1, <3>1, <3>2
    <3> QED
      BY <3>1, <3>3
  <2> QED
    BY <2>2, <2>3
<1>6. ~behind' => OneEdgeWaits'
  <2> SUFFICES ASSUME ~behind'
               PROVE  OneEdgeWaits'
    OBVIOUS
  <2>1. lost' = {} /\ \A l \in Encoder!Lines : queue[l] = << >>
    BY <1>1
  <2>2. ASSUME NEW l \in Encoder!Lines
        PROVE  /\ queue'[l] = IF Encoder!Level(l, knob') = Encoder!Level(l, knob) THEN << >>
                              ELSE << [level |-> Encoder!Level(l, knob'), turn |-> t] >>
               /\ Encoder!Level(l, knob') = Encoder!Level(l, knob)
                      => Remembered(l)' \in {-1, Encoder!Level(l, knob)}
    <3>1. queue[l] = << >> /\ Append(<< >>, [level |-> Encoder!Level(l, knob'), turn |-> t])
              = << [level |-> Encoder!Level(l, knob'), turn |-> t] >>
      BY <2>1
    <3>2. Remembered(l)' = Remembered(l)
      BY <1>1 DEF Remembered
    <3>3. CASE Encoder!Level(l, knob') # Encoder!Level(l, knob)
      BY <2>1, <3>1, <3>3, TurnOfLine
    <3>4. CASE Encoder!Level(l, knob') = Encoder!Level(l, knob)
      <4>1. queue'[l] = << >> /\ l \notin lost
        BY <2>1, <3>4, TurnOfLine
      <4> QED
        BY <2>1, <3>2, <3>4, <4>1 DEF EncoderInv, LevelsArrive
    <3> QED
      BY <3>3, <3>4
  <2> SUFFICES \E p \in 0 .. 3, u \in Encoder!Turns :
          /\ knob' = FlashStep(p, u)
          /\ \A l \in Encoder!Lines :
                 /\ queue'[l] = IF Encoder!Level(l, knob') = Encoder!Level(l, p) THEN << >>
                                ELSE << [level |-> Encoder!Level(l, knob'), turn |-> u] >>
                 /\ Encoder!Level(l, knob') = Encoder!Level(l, p)
                        => Remembered(l)' \in {-1, Encoder!Level(l, p)}
    BY DEF OneEdgeWaits, FlashStep, Encoder!Level
  <2>3. knob \in 0 .. 3
    BY <1>2
  <2> WITNESS knob \in 0 .. 3, t \in Encoder!Turns
  <2> QED
    BY <1>1, <2>2
<1>7. EncoderFollowsKnob'
  <2>1. Encoder!CatchesUp'
    BY <1>5 DEF LevelsArrive, Encoder!CatchesUp, Encoder!Lines, Remembered
  <2> QED
    BY <1>1, <2>1 DEF EncoderInv, EncoderFollowsKnob, Encoder!EncoderFollowsKnob,
       Encoder!DirectionIsTurn
<1> QED
  BY <1>2, <1>4, <1>5, <1>6, <1>7 DEF EncoderInv

\* The thread that reads the one edge that waits sees which way it went.
LEMMA ReadEncoderInv ==
    ASSUME EncoderInv, NEW l \in Encoder!Lines, Encoder!ReadEdge(l)
    PROVE  EncoderInv'
<1> DEFINE e == Head(queue[l])
           by == step'.by
<1>1. /\ queue[l] # << >> /\ queue' = [queue EXCEPT ![l] = Tail(@)]
      /\ by \in {0, Encoder!Direction(l, e)} /\ step'.turn = e.turn /\ step'.behind = behind
      /\ UNCHANGED <<knob, behind, lost>>
      /\ Remembered(l)' = e.level
      /\ \A k \in Encoder!Lines : k # l => Remembered(k)' = Remembered(k)
  BY DEF Encoder!ReadEdge, Encoder!NoteLevel, Remembered, Encoder!Lines
<1>2. /\ queue[l] \in Seq(Encoder!Edges) /\ e \in Encoder!Edges
      /\ Tail(queue[l]) \in Seq(Encoder!Edges)
      /\ queue'[l] = Tail(queue[l])
      /\ \A k \in Encoder!Lines : k # l => queue'[k] = queue[k]
  BY <1>1 DEF EncoderInv
<1>3. knob' \in 0 .. 3 /\ queue' \in [Encoder!Lines -> Seq(Encoder!Edges)]
  BY <1>1, <1>2 DEF EncoderInv
<1>4. LevelsArrive'
  <2> SUFFICES ASSUME NEW k \in Encoder!Lines, k \notin lost
               PROVE  IF queue'[k] = << >> THEN Remembered(k)' \in {-1, Encoder!Level(k, knob)}
                      ELSE queue'[k][Len(queue'[k])].level = Encoder!Level(k, knob)
    BY <1>1 DEF LevelsArrive
  <2>1. CASE k # l
    BY <1>1, <1>2, <2>1 DEF EncoderInv, LevelsArrive
  <2>2. CASE k = l
    <3>1. queue[l][Len(queue[l])].level = Encoder!Level(l, knob)
      BY <1>1, <2>2 DEF EncoderInv, LevelsArrive
    <3>2. /\ Len(queue[l]) = 1 => /\ Tail(queue[l]) = << >>
                                  /\ queue[l][Len(queue[l])] = e
          /\ Len(queue[l]) # 1 =>
                 /\ Tail(queue[l]) # << >>
                 /\ Tail(queue[l])[Len(Tail(queue[l]))] = queue[l][Len(queue[l])]
      BY <1>1, <1>2, LastStays
    <3> QED
      BY <1>1, <1>2, <2>2, <3>1, <3>2
  <2> QED
    BY <2>1, <2>2
<1>5. ASSUME ~behind
      PROVE  /\ NoEdgeWaits'
             /\ by = 1 => e.turn = "cw"
             /\ by = -1 => e.turn = "ccw"
  <2>1. PICK p \in 0 .. 3, t \in Encoder!Turns :
            /\ knob = FlashStep(p, t)
            /\ \A k \in Encoder!Lines :
                   /\ queue[k] = IF Encoder!Level(k, knob) = Encoder!Level(k, p) THEN << >>
                                 ELSE << [level |-> Encoder!Level(k, knob), turn |-> t] >>
                   /\ Encoder!Level(k, knob) = Encoder!Level(k, p)
                          => Remembered(k) \in {-1, Encoder!Level(k, p)}
    BY <1>1, <1>5 DEF EncoderInv, NoEdgeWaits, OneEdgeWaits
  <2>2. /\ Encoder!Level(l, knob) # Encoder!Level(l, p)
        /\ queue[l] = << [level |-> Encoder!Level(l, knob), turn |-> t] >>
    BY <1>1, <2>1
  <2>3. e.level = Encoder!Level(l, knob) /\ e.turn = t /\ Tail(queue[l]) = << >>
    BY <2>2
  <2> HIDE DEF e, by
  <2>4. t = "cw" \/ t = "ccw"
    BY DEF Encoder!Turns
  <2>5. p = 0 \/ p = 1 \/ p = 2 \/ p = 3
    OBVIOUS
  <2>6. l = "clk" \/ l = "dt"
    BY DEF Encoder!Lines
  <2>7. ASSUME NEW k \in Encoder!Lines, k # l
        PROVE  Encoder!Level(k, knob) = Encoder!Level(k, p)
    <3>1. k = "clk" \/ k = "dt"
      BY DEF Encoder!Lines
    <3> QED
      BY <2>1, <2>2, <2>4, <2>5, <2>6, <2>7, <3>1, EncoderMoves
  <2>8. NoEdgeWaits'
    BY <1>2, <2>1, <2>3, <2>7 DEF NoEdgeWaits
  <2>9. /\ l = "dt" => clk_last_state \in {-1, Encoder!Level("clk", p)}
        /\ l = "clk" => dt_last_state \in {-1, Encoder!Level("dt", p)}
    BY <2>1, <2>7 DEF Remembered, Encoder!Lines
  <2>10. CASE by = 1
    <3>1. l = "clk" /\ e.level = 0 /\ dt_last_state = 1
      BY <1>1, <2>10 DEF Encoder!Direction
    <3> QED
      BY <2>1, <2>2, <2>3, <2>4, <2>5, <2>8, <2>9, <2>10, <3>1, EncoderMoves
  <2>11. CASE by = -1
    <3>1. l = "dt" /\ e.level = 0 /\ clk_last_state = 1
      BY <1>1, <2>11 DEF Encoder!Direction
    <3> QED
      BY <2>1, <2>2, <2>3, <2>4, <2>5, <2>8, <2>9, <2>11, <3>1, EncoderMoves
  <2> QED
    BY <2>8, <2>10, <2>11
<1>6. Encoder!DirectionIsTurn'
  BY <1>1, <1>5 DEF Encoder!DirectionIsTurn
<1>7. Encoder!CatchesUp'
  BY <1>4 DEF LevelsArrive, Encoder!CatchesUp, Encoder!Lines, Remembered
<1> QED
  BY <1>1, <1>3, <1>4, <1>5, <1>6, <1>7
  DEF EncoderInv, EncoderFollowsKnob, Encoder!EncoderFollowsKnob

\* Every step of the thread and the knob keeps the levels arriving.
LEMMA StepEncoderInv ==
    ASSUME EncoderInv, [Encoder!Next]_(Encoder!encoderVars)
    PROVE  EncoderInv'
<1>1. CASE \/ Encoder!WaitBulk \/ Encoder!DebounceOver \/ UNCHANGED Encoder!encoderVars
           \/ \E l \in Encoder!Lines : Encoder!ReadFails(l)
  <2>1. UNCHANGED <<knob, queue, clk_last_state, dt_last_state, step, behind, lost>>
    BY <1>1 DEF Encoder!WaitBulk, Encoder!DebounceOver, Encoder!encoderVars,
                Encoder!ReadFails
  <2> QED
    BY <2>1 DEF EncoderInv, LevelsArrive, OneEdgeWaits, NoEdgeWaits, Remembered,
       EncoderFollowsKnob, Encoder!EncoderFollowsKnob, Encoder!DirectionIsTurn,
       Encoder!CatchesUp
<1> QED
  BY <1>1, TurnEncoderInv, ReadEncoderInv DEF Encoder!Next

\* The tempo follows the knob, however many edges the thread is behind, the
\* kernel drops and the debounce swallows, and however many reads fail; only an
\* edge read while another had waited, or while the level of a line was lost,
\* may go the wrong way.
THEOREM TempoFollowsKnob == AllSpec => []EncoderFollowsKnob
<1>1. AllInit => EncoderInv
  BY InitEncoderInv DEF AllInit
<1>2. EncoderInv => EncoderFollowsKnob
  BY DEF EncoderInv
<1> QED
  BY <1>1, <1>2, StepOfParts, StepEncoderInv, PTL DEF AllSpec

------------------------------------------------------------------------------
(* The accelerometer.                                                      *)

Half == Modulus \div 2

\* An int16_t of the model: as many numbers on either side of 0, and a whole
\* number of low bytes.
LEMMA HalfType ==
    /\ Low \in Nat /\ Low >= 1 /\ Half \in Nat /\ Half >= 1 /\ Modulus = 2 * Half
    /\ Modulus \in Nat
    /\ \E k \in Nat : k >= 1 /\ Half = k * Low
<1>1. /\ Low \in Nat /\ Low >= 1 /\ Modulus \in Nat /\ Modulus >= 1
      /\ Modulus % 2 = 0 /\ Half % Low = 0
  BY DevicesAssumption DEF Accel!AccelAssumption, Half
<1>2. Half \in Nat /\ Half >= 1 /\ Modulus = 2 * Half
  BY <1>1 DEF Half
<1> DEFINE k == Half \div Low
<1>3. k \in Nat
  BY <1>1, <1>2
<1>4. Half = k * Low
  BY <1>1, <1>2, SMTT(30)
<1> HIDE DEF k
<1>5. k >= 1
  BY <1>1, <1>2, <1>3, <1>4
<1> QED
  BY <1>1, <1>2, <1>3, <1>4, <1>5

\* The conversion to int16_t leaves alone what fits, and makes a difference
\* that does not fit negative.
LEMMA WrapFits ==
    ASSUME NEW n \in Int
    PROVE  /\ Accel!Wrap(n) \in -Half .. Half - 1
           /\ n \in -Half .. Half - 1 => Accel!Wrap(n) = n
           /\ n \in Half .. 2 * Half - 1 => Accel!Wrap(n) < 0
<1>1. Half \in Nat /\ Half >= 1 /\ Modulus = 2 * Half
  BY HalfType
<1> DEFINE u == n % (2 * Half)
<1>2. u \in 0 .. 2 * Half - 1
  BY <1>1
<1>3. Accel!Wrap(n) = IF u < Half THEN u ELSE u - 2 * Half
  BY <1>1 DEF Accel!Wrap, Half
<1>4. n \in 0 .. 2 * Half - 1 => u = n
  BY <1>1
<1>5. n \in -Half .. -1 => u = n + 2 * Half
  BY <1>1
<1> HIDE DEF u
<1> QED
  BY <1>1, <1>2, <1>3, <1>4, <1>5

\* The high byte of a reading and any low byte make a number within a low byte
\* of the reading.
LEMMA JoinedIsClose ==
    ASSUME NEW r \in -Half .. Half - 1, NEW l \in 0 .. Low - 1
    PROVE  Accel!Joined(r, l) - r \in -(Low - 1) .. Low - 1
<1>1. /\ Low \in Nat /\ Low >= 1 /\ Half \in Nat
      /\ \E k \in Nat : k >= 1 /\ Half = k * Low
  BY HalfType
<1>2. PICK k \in Nat : k >= 1 /\ Half = k * Low
  BY <1>1
<1> DEFINE q == r \div Low
<1>3. q \in Int /\ q * Low <= r /\ r < q * Low + Low
  BY <1>1
<1> HIDE DEF q
<1>4. q >= -k /\ q <= k - 1
  <2>1. q >= -k
    <3> SUFFICES ASSUME q <= -k - 1
                 PROVE  FALSE
      BY <1>3
    <3>1. q * Low <= (-k - 1) * Low
      BY <1>1, <1>3
    <3>2. (-k - 1) * Low = -Half - Low
      BY <1>1, <1>2
    <3> QED
      BY <1>1, <1>3, <3>1, <3>2
  <2>2. q <= k - 1
    <3> SUFFICES ASSUME q >= k
                 PROVE  FALSE
      BY <1>3
    <3>1. q * Low >= k * Low
      BY <1>1, <1>3
    <3> QED
      BY <1>1, <1>2, <1>3, <3>1
  <2> QED
    BY <2>1, <2>2
<1>5. q * Low >= -Half /\ q * Low <= Half - Low
  <2>1. q * Low >= (-k) * Low /\ q * Low <= (k - 1) * Low
    BY <1>1, <1>3, <1>4
  <2>2. (-k) * Low = -Half /\ (k - 1) * Low = Half - Low
    BY <1>1, <1>2
  <2> QED
    BY <2>1, <2>2
<1> DEFINE n == q * Low + l
<1>6. n \in -Half .. Half - 1 /\ n - r \in -(Low - 1) .. Low - 1
  BY <1>1, <1>3, <1>5
<1>7. Accel!Joined(r, l) = Accel!Wrap(n)
  BY DEF Accel!Joined, q
<1> HIDE DEF n
<1> QED
  BY <1>1, <1>6, <1>7, WrapFits

\* What is published is an int16_t, within a low byte of the reading behind it.
Near(c, readings) ==
    /\ c \in -Half .. Half - 1
    /\ readings \subseteq Readings
    /\ \A r \in readings : c - r \in -(Low - 1) .. Low - 1

AccelInv ==
    /\ sensor \in Readings /\ lowByte \in -1 .. Low - 1
    /\ Near(current, truth) /\ Near(prev, before)
    /\ DrumsFollowMovement

\* The sensor reads an int16_t.
LEMMA ReadingsFit == Readings \subseteq -Half .. Half - 1
  BY DevicesAssumption DEF Accel!AccelAssumption, Accel!Int16, Half

\* The first samples have no reading behind them.
LEMMA InitAccel == Accel!Init => AccelInv
<1> SUFFICES ASSUME Accel!Init
             PROVE  AccelInv
  OBVIOUS
<1>1. sensor \in Readings /\ lowByte \in -1 .. Low - 1
  BY HalfType DEF Accel!Init
<1>2. Near(current, truth) /\ Near(prev, before)
  BY HalfType DEF Accel!Init, Near
<1>3. DrumsFollowMovement
  BY DEF Accel!Init, DrumsFollowMovement, Accel!DrumsFollowMovement,
         Accel!DrumMeansMovement, Accel!MovementPlaysDrum
<1> QED
  BY <1>1, <1>2, <1>3 DEF AccelInv

\* A call of AccelerometerApp_process compares two samples that are each
\* within a low byte of a reading.
LEMMA ProcessAccel ==
    ASSUME AccelInv, Accel!Process
    PROVE  AccelInv'
<1> DEFINE a == Accel!Abs(current - prev)
<1>1. /\ Low \in Nat /\ Low >= 1 /\ Half \in Nat /\ Half >= 1 /\ MOVEMENT_THRESHOLD \in Nat
      /\ Modulus = 2 * Half /\ Modulus \div 2 = Half
  BY HalfType, DevicesAssumption DEF Accel!AccelAssumption, Half
<1>2. /\ prev' = current /\ before' = truth
      /\ UNCHANGED <<sensor, lowByte, current, truth>>
      /\ outcome' = [played |-> Accel!Delta > MOVEMENT_THRESHOLD /\ ~justDrummed,
                     ready |-> ~justDrummed, new |-> truth, old |-> before]
  BY DEF Accel!Process, Accel!Keep
<1>3. a \in 0 .. 2 * Half - 1
  BY <1>1 DEF Accel!Abs, AccelInv, Near
<1>4. /\ a < Half => Accel!Delta = a
      /\ a >= Half => Accel!Delta < 0
      /\ Accel!Delta \in Int
  <2>1. Accel!Delta = Accel!Wrap(a)
    BY DEF Accel!Delta
  <2> HIDE DEF a
  <2> QED
    BY <1>1, <1>3, <2>1, WrapFits
<1>5. ASSUME NEW new \in truth, NEW old \in before
      PROVE  /\ Accel!Abs(new - old) \in Int
             /\ Accel!Abs(new - old) - a \in -(2 * (Low - 1)) .. 2 * (Low - 1)
  <2>1. /\ new \in Int /\ old \in Int /\ current \in Int /\ prev \in Int
        /\ current - new \in -(Low - 1) .. Low - 1
        /\ prev - old \in -(Low - 1) .. Low - 1
    BY <1>1, ReadingsFit DEF AccelInv, Near
  <2> QED
    BY <1>1, <2>1 DEF Accel!Abs
<1> HIDE DEF a
<1>6. Accel!DrumMeansMovement'
  <2> SUFFICES ASSUME outcome'.played, NEW new \in truth, NEW old \in before
               PROVE  Accel!Abs(new - old) > MOVEMENT_THRESHOLD - Accel!Torn
    BY <1>2 DEF Accel!DrumMeansMovement, Accel!Abs, Accel!Torn
  <2>1. Accel!Delta > MOVEMENT_THRESHOLD
    BY <1>2
  <2>2. a > MOVEMENT_THRESHOLD
    BY <1>1, <1>3, <1>4, <2>1
  <2> QED
    BY <1>1, <1>3, <1>5, <2>2 DEF Accel!Torn
<1>7. Accel!MovementPlaysDrum'
  <2> SUFFICES ASSUME NEW new \in truth, NEW old \in before,
                      Accel!Abs(new - old) > MOVEMENT_THRESHOLD + Accel!Torn,
                      Accel!Abs(new - old) + Accel!Torn < Modulus \div 2,
                      outcome'.ready
               PROVE  outcome'.played
    BY <1>2 DEF Accel!MovementPlaysDrum, Accel!Abs, Accel!Torn
  <2>1. a > MOVEMENT_THRESHOLD /\ a < Half
    BY <1>1, <1>3, <1>5 DEF Accel!Torn
  <2>2. Accel!Delta > MOVEMENT_THRESHOLD
    BY <1>4, <2>1
  <2> QED
    BY <1>2, <2>2
<1>8. DrumsFollowMovement'
  BY <1>6, <1>7 DEF DrumsFollowMovement, Accel!DrumsFollowMovement
<1> QED
  BY <1>2, <1>8 DEF AccelInv, Near

\* Every step of the sampling thread and of main keeps the samples near.
LEMMA StepAccel ==
    ASSUME AccelInv, [Accel!Next]_(Accel!accelVars)
    PROVE  AccelInv'
<1>1. UNCHANGED outcome => DrumsFollowMovement'
  BY DEF AccelInv, DrumsFollowMovement, Accel!DrumsFollowMovement,
         Accel!DrumMeansMovement, Accel!MovementPlaysDrum, Accel!Abs, Accel!Torn
<1>2. ASSUME NEW r \in Readings, Accel!Move(r)
      PROVE  AccelInv'
  BY <1>1, <1>2 DEF Accel!Move, AccelInv, Near
<1>3. CASE Accel!ReadLow
  <2>1. sensor % Low \in 0 .. Low - 1
    BY HalfType, ReadingsFit DEF AccelInv
  <2>2. lowByte' \in -1 .. Low - 1
    BY <1>3, <2>1, HalfType DEF Accel!ReadLow
  <2> QED
    BY <1>1, <1>3, <2>2 DEF Accel!ReadLow, AccelInv, Near
<1>4. CASE Accel!ReadHigh
  <2>1. lowByte \in 0 .. Low - 1 /\ lowByte' = -1 /\ Low \in Nat
    BY <1>4, HalfType DEF Accel!ReadHigh, AccelInv
  <2>2. UNCHANGED <<sensor, prev, before, outcome>>
    BY <1>4 DEF Accel!ReadHigh
  <2>3. Near(current', truth')
    <3>1. \A h \in Int : Accel!Joined(h, lowByte) \in -Half .. Half - 1
      <4> SUFFICES ASSUME NEW h \in Int
                   PROVE  Accel!Joined(h, lowByte) \in -Half .. Half - 1
        OBVIOUS
      <4>1. (h \div Low) * Low + lowByte \in Int
        BY <2>1, HalfType
      <4> QED
        BY <4>1, WrapFits DEF Accel!Joined
    <3>2. sensor \in -Half .. Half - 1 /\ sensor \in Int /\ 0 \in Int
      BY ReadingsFit, HalfType DEF AccelInv
    <3>3. Accel!Joined(sensor, lowByte) - sensor \in -(Low - 1) .. Low - 1
      BY <2>1, <3>2, JoinedIsClose
    <3>4. CASE current' = Accel!Joined(sensor, lowByte) /\ truth' \subseteq {sensor}
      BY <3>1, <3>2, <3>3, <3>4 DEF Near, AccelInv
    <3>5. CASE current' = Accel!Joined(0, lowByte) /\ truth' = {}
      BY <3>1, <3>2, <3>5 DEF Near
    <3> QED
      BY <1>4, <3>4, <3>5 DEF Accel!ReadHigh
  <2> QED
    BY <1>1, <2>1, <2>2, <2>3 DEF AccelInv, Near
<1>5. CASE Accel!DebounceOver \/ UNCHANGED Accel!accelVars
  BY <1>1, <1>5 DEF Accel!DebounceOver, Accel!accelVars, AccelInv, Near
<1> QED
  BY <1>2, <1>3, <1>4, <1>5, ProcessAccel DEF Accel!Next

\* Drums follow movements, whatever the width of the bytes and the threshold:
\* torn samples and failed reads move the threshold by two low bytes at most,
\* and only the sign of a difference that does not fit keeps a drum quiet.
THEOREM DrumsNeedMovement == AllSpec => []DrumsFollowMovement
<1>1. AllInit => AccelInv
  BY InitAccel DEF AllInit
<1>2. AccelInv => DrumsFollowMovement
  BY DEF AccelInv
<1> QED
  BY <1>1, <1>2, StepOfParts, StepAccel, PTL DEF AllSpec

------------------------------------------------------------------------------
(* The period timer.  What a recursive sum over the stamps computes is     *)
(* shown by induction, which the least counterexample stands for.          *)

\* A set of numbers has a least one.
LEMMA LeastElement ==
    ASSUME NEW T \in SUBSET Nat, T # {}
    PROVE  \E x \in T : \A y \in T : x <= y
<1> DEFINE R == {ss \in Nat \X Nat : ss[1] < ss[2]}
<1>1. IsWellFoundedOn(R, Nat)
  BY NatLessThanWellFounded, Zenon DEF OpToRel
<1>2. PICK x \in T : \A y \in T : ~(<<y, x>> \in R)
  <2> HIDE DEF R
  <2> QED
    BY <1>1, WFMin
<1>3. \A y \in T : ~(y < x)
  BY <1>2
<1> QED
  BY <1>3

\* A set that has 0 and, with a number below n, the next, has all up to n.
LEMMA CountUp ==
    ASSUME NEW n \in Nat, NEW S, 0 \in S, \A i \in 0 .. n - 1 : i \in S => i + 1 \in S
    PROVE  0 .. n \subseteq S
<1> DEFINE T == {i \in 0 .. n : i \notin S}
<1> SUFFICES ASSUME T # {}
             PROVE  FALSE
  OBVIOUS
<1>1. T \in SUBSET Nat
  OBVIOUS
<1>2. PICK x \in T : \A y \in T : x <= y
  <2> HIDE DEF T
  <2> QED
    BY <1>1, LeastElement
<1>3. x # 0 /\ x - 1 \in 0 .. n - 1 /\ x - 1 \notin T
  BY <1>2
<1> QED
  BY <1>2, <1>3

\* A bounded set of numbers has a greatest one; Least and Greatest find them.
LEMMA ExtremesFound ==
    ASSUME NEW b \in Nat, NEW T \in SUBSET (0 .. b), T # {}
    PROVE  /\ Period!Least(T) \in T /\ \A y \in T : Period!Least(T) <= y
           /\ Period!Greatest(T) \in T /\ \A y \in T : Period!Greatest(T) >= y
<1>1. \E x \in T : \A y \in T : x <= y
  BY LeastElement
<1>2. \E x \in T : \A y \in T : x >= y
  <2> DEFINE U == {b - x : x \in T}
  <2>1. U \in SUBSET Nat /\ U # {}
    <3>1. PICK x \in T : TRUE
      OBVIOUS
    <3>2. b - x \in U
      OBVIOUS
    <3>3. \A y \in T : b - y \in Nat
      OBVIOUS
    <3> QED
      BY <3>2, <3>3
  <2>2. PICK u \in U : \A y \in U : u <= y
    <3> HIDE DEF U
    <3> QED
      BY <2>1, LeastElement
  <2>3. PICK x \in T : u = b - x
    OBVIOUS
  <2>4. \A y \in T : b - y \in U
    OBVIOUS
  <2>5. \A y \in T : x >= y
    <3> SUFFICES ASSUME NEW y \in T
                 PROVE  x >= y
      OBVIOUS
    <3>1. b - x <= b - y
      BY <2>2, <2>3, <2>4
    <3>2. x \in Int /\ y \in Int
      OBVIOUS
    <3> QED
      BY <3>1, <3>2
  <2> QED
    BY <2>5
<1> QED
  BY <1>1, <1>2 DEF Period!Least, Period!Greatest

\* What is kept of one event: its stamps ts wait in order, after the last one
\* reported, p; t is the time reported, from the first stamp f on; of m marks d
\* were dropped and r reported; it is c o'clock.
EventOK(ts, p, m, d, r, f, t, c) ==
    /\ ts \in Seq(Nat) /\ Len(ts) <= MAX_EVENT_TIMESTAMPS
    /\ p \in Nat /\ m \in Nat /\ d \in Nat /\ r \in Nat /\ f \in Nat /\ t \in Nat
    /\ \A i \in 1 .. Len(ts) : p < ts[i] /\ ts[i] <= c
    /\ \A i, j \in 1 .. Len(ts) : i < j => ts[i] < ts[j]
    /\ p <= c
    /\ m = r + Len(ts) + d
    /\ p = 0 => t = 0 /\ r = 0 /\ f = IF Len(ts) = 0 THEN 0 ELSE ts[1]
    /\ p # 0 => f # 0 /\ f <= p /\ t = p - f

StatsType == [numSamples : 0 .. MAX_EVENT_TIMESTAMPS, min : Int, max : Int, avg : Int]

PeriodInv ==
    /\ Period!TypeOK /\ now >= 1
    /\ \A e \in Events :
           EventOK(timestampsInNs[e], prevTimestampInNs[e], marked[e], dropped[e],
                   reported[e], first[e], total[e], now)

\* Time alone disturbs nothing.
LEMMA EventLater ==
    ASSUME NEW ts, NEW p, NEW m, NEW d, NEW r, NEW f, NEW t, NEW c \in Nat, NEW k \in Nat,
           EventOK(ts, p, m, d, r, f, t, c), k >= c
    PROVE  EventOK(ts, p, m, d, r, f, t, k)
  BY DEF EventOK

\* A mark adds the newest stamp, if there is space.
LEMMA EventMarked ==
    ASSUME NEW ts, NEW p, NEW m, NEW d, NEW r, NEW f, NEW t, NEW c \in Nat, NEW k \in Nat,
           EventOK(ts, p, m, d, r, f, t, c), k > c, Len(ts) < MAX_EVENT_TIMESTAMPS
    PROVE  EventOK(Append(ts, k), p, m + 1, d, r, IF f = 0 THEN k ELSE f, t, k)
<1>1. MAX_EVENT_TIMESTAMPS \in Nat
  BY DevicesAssumption DEF Period!PeriodAssumption
<1>2. ts \in Seq(Nat) /\ Len(ts) \in Nat
  BY DEF EventOK
<1> DEFINE n == Len(ts)
           s == Append(ts, k)
<1>3. /\ s \in Seq(Nat) /\ Len(s) = n + 1 /\ s[n + 1] = k
      /\ \A i \in 1 .. n : s[i] = ts[i]
  BY <1>2
<1> HIDE DEF s
<1>4. s \in Seq(Nat) /\ Len(s) <= MAX_EVENT_TIMESTAMPS
  BY <1>1, <1>2, <1>3
<1>5. \A i \in 1 .. Len(s) : p < s[i] /\ s[i] <= k
  <2> SUFFICES ASSUME NEW i \in 1 .. Len(s)
               PROVE  p < s[i] /\ s[i] <= k
    OBVIOUS
  <2>1. CASE i \in 1 .. n
    <3>1. ts[i] \in Nat /\ p < ts[i] /\ ts[i] <= c
      BY <2>1 DEF EventOK
    <3> QED
      BY <1>3, <2>1, <3>1
  <2>2. CASE i = n + 1
    BY <1>3, <2>2 DEF EventOK
  <2> QED
    BY <1>2, <1>3, <2>1, <2>2
<1>6. \A i, j \in 1 .. Len(s) : i < j => s[i] < s[j]
  <2> SUFFICES ASSUME NEW i \in 1 .. Len(s), NEW j \in 1 .. Len(s), i < j
               PROVE  s[i] < s[j]
    OBVIOUS
  <2>1. i \in 1 .. n /\ s[i] = ts[i] /\ ts[i] \in Nat /\ ts[i] <= c
    BY <1>2, <1>3 DEF EventOK
  <2>2. CASE j \in 1 .. n
    BY <1>3, <2>1, <2>2 DEF EventOK
  <2>3. CASE j = n + 1
    BY <1>3, <2>1, <2>3
  <2>4. j \in 1 .. n \/ j = n + 1
    BY <1>2, <1>3
  <2> QED
    BY <2>2, <2>3, <2>4
<1>7. (IF f = 0 THEN k ELSE f) \in Nat /\ p <= k /\ m + 1 = r + Len(s) + d
  BY <1>2, <1>3 DEF EventOK
<1>8. p = 0 => (IF f = 0 THEN k ELSE f) = s[1]
  <2> SUFFICES ASSUME p = 0
               PROVE  (IF f = 0 THEN k ELSE f) = s[1]
    OBVIOUS
  <2>1. CASE n = 0
    BY <1>3, <2>1 DEF EventOK
  <2>2. CASE n # 0
    <3>1. 1 \in 1 .. n /\ ts[1] \in Nat /\ ts[1] > 0 /\ f = ts[1] /\ s[1] = ts[1]
      BY <1>2, <1>3, <2>2 DEF EventOK
    <3> QED
      BY <3>1
  <2> QED
    BY <2>1, <2>2
<1>9. p # 0 => (IF f = 0 THEN k ELSE f) = f
  BY DEF EventOK
<1>10. Len(s) # 0
  BY <1>2, <1>3
<1>11. EventOK(s, p, m + 1, d, r, IF f = 0 THEN k ELSE f, t, k)
  BY <1>4, <1>5, <1>6, <1>7, <1>8, <1>9, <1>10 DEF EventOK
<1> QED
  BY <1>11 DEF s

\* A mark without space is counted.
LEMMA EventDropped ==
    ASSUME NEW ts, NEW p, NEW m, NEW d, NEW r, NEW f, NEW t, NEW c \in Nat, NEW k \in Nat,
           EventOK(ts, p, m, d, r, f, t, c), k >= c
    PROVE  EventOK(ts, p, m + 1, d + 1, r, f, t, k)
<1>1. Len(ts) \in Nat
  BY DEF EventOK
<1> QED
  BY <1>1 DEF EventOK

\* A report empties the stamps and adds the time since the last one.
LEMMA EventReported ==
    ASSUME NEW ts, NEW p, NEW m, NEW d, NEW r, NEW f, NEW t, NEW c \in Nat,
           EventOK(ts, p, m, d, r, f, t, c), Len(ts) # 0
    PROVE  EventOK(<< >>, ts[Len(ts)], m, d, r + Len(ts), f,
                   t + (ts[Len(ts)] - IF p = 0 THEN ts[1] ELSE p), c)
<1> DEFINE n == Len(ts)
           l == ts[n]
           h == ts[1]
<1>1. n \in Nat /\ 1 \in 1 .. n /\ n \in 1 .. n
  BY DEF EventOK
<1>2. /\ l \in Nat /\ h \in Nat /\ l <= c /\ l > p /\ p < h
      /\ n # 1 => h < l
      /\ n = 1 => h = l
  <2>1. \A i \in 1 .. n : ts[i] \in Nat /\ p < ts[i] /\ ts[i] <= c
    BY DEF EventOK
  <2>2. \A i, j \in 1 .. n : i < j => ts[i] < ts[j]
    BY DEF EventOK
  <2> HIDE DEF n
  <2>3. p \in Nat /\ c \in Nat
    BY DEF EventOK
  <2>4. n # 1 => 1 < n
    BY <1>1
  <2> QED
    BY <1>1, <2>1, <2>2, <2>3, <2>4
<1>3. << >> \in Seq(Nat) /\ Len(<< >>) = 0 /\ 1 .. 0 = {}
  OBVIOUS
<1>4. MAX_EVENT_TIMESTAMPS \in Nat
  BY DevicesAssumption DEF Period!PeriodAssumption
<1>5. /\ p \in Nat /\ m \in Nat /\ d \in Nat /\ r + n \in Nat /\ f \in Nat /\ t \in Nat
      /\ m = r + n + 0 + d
      /\ p = 0 => t = 0 /\ f = h
      /\ p # 0 => f # 0 /\ f <= p /\ t = p - f
  BY <1>1 DEF EventOK
<1> HIDE DEF n, l, h
<1>6. /\ f # 0 /\ f <= l /\ l # 0
      /\ t + (l - IF p = 0 THEN h ELSE p) = l - f
      /\ l - f \in Nat
  BY <1>1, <1>2, <1>5
<1>7. EventOK(<< >>, l, m, d, r + n, f, t + (l - IF p = 0 THEN h ELSE p), c)
  BY <1>2, <1>3, <1>4, <1>5, <1>6 DEF EventOK
<1> QED
  BY <1>7 DEF n, l, h

\* What a report says of an event that has waited: the periods add up to the
\* time since the last one, their average is between the least and the
\* greatest, and none is zero but for the first stamp.
LEMMA StatsOfReport ==
    ASSUME PeriodInv, NEW e \in Events, Len(timestampsInNs[e]) # 0
    PROVE  /\ Period!SumDeltas(e) = timestampsInNs[e][Len(timestampsInNs[e])]
                                     - IF prevTimestampInNs[e] = 0 THEN timestampsInNs[e][1]
                                       ELSE prevTimestampInNs[e]
           /\ Period!UpdateStats(e) \in StatsType
           /\ 0 <= Period!UpdateStats(e).min
           /\ Period!UpdateStats(e).min <= Period!UpdateStats(e).avg
           /\ Period!UpdateStats(e).avg <= Period!UpdateStats(e).max
           /\ Period!UpdateStats(e).min = 0 => reported[e] = 0
<1> DEFINE ts == timestampsInNs[e]
           n == Len(ts)
           p == prevTimestampInNs[e]
           q == Period!Previous(e)
           d == Period!Deltas(e)
<1>1. EventOK(ts, p, marked[e], dropped[e], reported[e], first[e], total[e], now)
  BY DEF PeriodInv
<1>2. /\ n \in Nat \ {0} /\ n <= MAX_EVENT_TIMESTAMPS /\ now \in Nat
      /\ MAX_EVENT_TIMESTAMPS \in Nat
      /\ \A i \in 1 .. n : ts[i] \in Nat /\ p < ts[i] /\ ts[i] <= now
      /\ \A i, j \in 1 .. n : i < j => ts[i] < ts[j]
      /\ p \in Nat /\ (p = 0 => reported[e] = 0)
  <2>1. /\ ts \in Seq(Nat) /\ n \in Nat /\ n # 0 /\ n <= MAX_EVENT_TIMESTAMPS
        /\ p \in Nat /\ (p = 0 => reported[e] = 0)
    BY <1>1 DEF EventOK
  <2>2. now \in Nat /\ MAX_EVENT_TIMESTAMPS \in Nat
    BY DevicesAssumption DEF PeriodInv, Period!TypeOK, Period!PeriodAssumption
  <2>3. \A i \in 1 .. n : ts[i] \in Nat /\ p < ts[i] /\ ts[i] <= now
    BY <1>1 DEF EventOK
  <2>4. \A i, j \in 1 .. n : i < j => ts[i] < ts[j]
    BY <1>1 DEF EventOK
  <2> QED
    BY <2>1, <2>2, <2>3, <2>4
<1>3. q = IF p = 0 THEN ts[1] ELSE p
  BY DEF Period!Previous
<1>4. q \in Nat /\ q <= ts[1] /\ (p # 0 => q < ts[1])
  <2>1. 1 \in 1 .. n
    BY <1>2
  <2> QED
    BY <1>2, <1>3, <2>1
<1>5. d = [i \in 1 .. n |-> ts[i] - IF i = 1 THEN q ELSE ts[i - 1]]
  BY DEF Period!Deltas
<1> HIDE DEF d, q, p, n, ts
<1>6. \A i \in 1 .. n : d[i] \in 0 .. now /\ (d[i] = 0 => p = 0)
  <2> SUFFICES ASSUME NEW i \in 1 .. n
               PROVE  d[i] \in 0 .. now /\ (d[i] = 0 => p = 0)
    OBVIOUS
  <2>1. CASE i = 1
    BY <1>2, <1>4, <1>5, <2>1
  <2>2. CASE i # 1
    <3>1. i - 1 \in 1 .. n /\ i - 1 < i
      BY <1>2, <2>2
    <3>2. ts[i - 1] \in Nat /\ ts[i] \in Nat /\ ts[i - 1] < ts[i] /\ ts[i] <= now
      BY <1>2, <3>1
    <3>3. d[i] = ts[i] - ts[i - 1]
      BY <1>5, <2>2
    <3> QED
      BY <1>2, <3>2, <3>3
  <2> QED
    BY <2>1, <2>2
<1> DEFINE g == [i \in 0 .. n |-> IF i = 0 THEN 0 ELSE ts[i] - q]
           Sums(f) == f = [i \in 0 .. n |-> IF i = 0 THEN 0 ELSE f[i - 1] + d[i]]
           sum == CHOOSE f : Sums(f)
<1>7. Sums(g)
  <2> SUFFICES ASSUME NEW i \in 1 .. n
               PROVE  ts[i] - q = g[i - 1] + d[i]
    BY <1>2
  <2>1. CASE i = 1
    BY <1>2, <1>4, <1>5, <2>1
  <2>2. CASE i # 1
    <3>1. i - 1 \in 1 .. n
      BY <1>2, <2>2
    <3>2. ts[i - 1] \in Nat /\ ts[i] \in Nat /\ g[i - 1] = ts[i - 1] - q
      BY <1>2, <3>1
    <3>3. d[i] = ts[i] - ts[i - 1]
      BY <1>5, <2>2
    <3> HIDE DEF g
    <3> QED
      BY <1>4, <3>2, <3>3
  <2> QED
    BY <2>1, <2>2
<1>8. Sums(sum)
  <2> HIDE DEF g, Sums
  <2> QED
    BY <1>7
<1> HIDE DEF sum
<1>9. sum = g
  <2> DEFINE S == {i \in 0 .. n : sum[i] = g[i]}
  <2>1. 0 \in S
    BY <1>2, <1>8
  <2>2. ASSUME NEW i \in 0 .. n - 1, i \in S
        PROVE  i + 1 \in S
    <3>1. i + 1 \in 1 .. n /\ i + 1 # 0 /\ (i + 1) - 1 = i
      BY <1>2
    <3>2. sum[i + 1] = sum[i] + d[i + 1]
      BY <1>2, <1>8, <3>1
    <3>3. g[i + 1] = g[i] + d[i + 1]
      <4>1. g[i + 1] = g[(i + 1) - 1] + d[i + 1]
        <5> HIDE DEF g
        <5> QED
          BY <1>2, <1>7, <3>1
      <4> QED
        BY <3>1, <4>1
    <3> HIDE DEF g
    <3> QED
      BY <1>2, <2>2, <3>1, <3>2, <3>3
  <2> HIDE DEF S
  <2>3. 0 .. n \subseteq S
    BY <1>2, <2>1, <2>2, CountUp
  <2> QED
    BY <1>8, <2>3 DEF S
<1>10. Period!SumDeltas(e) = sum[n]
  BY Zenon DEF Period!SumDeltas, sum, Sums, d, n, ts
<1>11. sum[n] = ts[n] - q
  BY <1>2, <1>9
<1> DEFINE T == {d[i] : i \in 1 .. n}
           lo == Period!Least(T)
           hi == Period!Greatest(T)
<1>12. /\ lo \in T /\ \A y \in T : lo <= y
       /\ hi \in T /\ \A y \in T : hi >= y
  <2>1. T \in SUBSET (0 .. now) /\ T # {}
    BY <1>2, <1>6
  <2> HIDE DEF T
  <2> QED
    BY <1>2, <2>1, ExtremesFound
<1>13. lo \in Nat /\ hi \in Nat /\ (lo = 0 => p = 0)
  <2> HIDE DEF lo, hi
  <2> QED
    BY <1>6, <1>12
<1>14. \A i \in 1 .. n : lo <= d[i] /\ d[i] <= hi
  BY <1>12
<1> HIDE DEF T, lo, hi, Sums
<1>15. n * lo <= sum[n] /\ sum[n] <= n * hi
  <2> DEFINE S == {i \in 0 .. n : sum[i] \in Int /\ i * lo <= sum[i] /\ sum[i] <= i * hi}
  <2>1. 0 \in S
    BY <1>2, <1>8, <1>13 DEF Sums
  <2>2. ASSUME NEW i \in 0 .. n - 1, i \in S
        PROVE  i + 1 \in S
    <3>1. i + 1 \in 1 .. n /\ i + 1 # 0 /\ (i + 1) - 1 = i
      BY <1>2
    <3>2. sum[i + 1] = sum[i] + d[i + 1]
      BY <1>2, <1>8, <3>1 DEF Sums
    <3>3. (i + 1) * lo = i * lo + lo /\ (i + 1) * hi = i * hi + hi
      BY <1>2, <1>13
    <3>4. d[i + 1] \in Int /\ lo <= d[i + 1] /\ d[i + 1] <= hi /\ sum[i] \in Int
      BY <1>6, <1>14, <2>2, <3>1
    <3>5. i * lo \in Int /\ i * hi \in Int /\ i * lo <= sum[i] /\ sum[i] <= i * hi
      BY <1>2, <1>13, <2>2
    <3> QED
      BY <1>2, <1>13, <3>1, <3>2, <3>3, <3>4, <3>5
  <2> HIDE DEF S
  <2>3. 0 .. n \subseteq S
    BY <1>2, <2>1, <2>2, CountUp
  <2> QED
    BY <1>2, <2>3 DEF S
<1>16. sum[n] \div n \in Int /\ lo <= sum[n] \div n /\ sum[n] \div n <= hi
  <2>1. sum[n] \in Int
    BY <1>2, <1>4, <1>11
  <2> DEFINE s == sum[n]
             a == s \div n
  <2> HIDE DEF s
  <2>2. s \in Int /\ n * lo <= s /\ s <= n * hi
    BY <1>15, <2>1 DEF s
  <2>3. a \in Int /\ a * n <= s /\ s < a * n + n
    BY <1>2, <2>2
  <2> HIDE DEF a
  <2>4. lo <= a
    <3> SUFFICES ASSUME a + 1 <= lo
                 PROVE  FALSE
      BY <1>13, <2>3
    <3>1. (a + 1) * n <= lo * n
      BY <1>2, <1>13, <2>3
    <3>2. (a + 1) * n = a * n + n /\ lo * n = n * lo
      BY <1>2, <1>13, <2>3
    <3> QED
      BY <1>2, <1>13, <2>2, <2>3, <3>1, <3>2
  <2>5. a <= hi
    <3> SUFFICES ASSUME a >= hi + 1
                 PROVE  FALSE
      BY <1>13, <2>3
    <3>1. a * n >= (hi + 1) * n
      BY <1>2, <1>13, <2>3
    <3>2. (hi + 1) * n = n * hi + n
      BY <1>2, <1>13
    <3> QED
      BY <1>2, <1>13, <2>2, <2>3, <3>1, <3>2
  <2> QED
    BY <2>3, <2>4, <2>5 DEF a, s
<1>17. Period!UpdateStats(e) = [numSamples |-> n, min |-> lo, max |-> hi, avg |-> sum[n] \div n]
  <2>1. n # 0
    BY <1>2
  <2>2. T = {Period!Deltas(e)[i] : i \in 1 .. Len(timestampsInNs[e])}
    BY DEF T, d, n, ts
  <2> QED
    BY <1>10, <2>1, <2>2 DEF Period!UpdateStats, lo, hi, n, ts
<1>18. Period!UpdateStats(e) \in StatsType
  BY <1>2, <1>13, <1>16, <1>17 DEF StatsType
<1>19. Period!SumDeltas(e) = ts[n] - IF p = 0 THEN ts[1] ELSE p
  BY <1>3, <1>10, <1>11
<1>20. /\ 0 <= Period!UpdateStats(e).min
       /\ Period!UpdateStats(e).min <= Period!UpdateStats(e).avg
       /\ Period!UpdateStats(e).avg <= Period!UpdateStats(e).max
       /\ Period!UpdateStats(e).min = 0 => reported[e] = 0
  BY <1>2, <1>13, <1>16, <1>17
<1> QED
  BY <1>18, <1>19, <1>20 DEF p, n, ts

\* Nothing is marked or reported when the program starts.
LEMMA InitPeriod == Period!Init => PeriodInv
<1> SUFFICES ASSUME Period!Init
             PROVE  PeriodInv
  OBVIOUS
<1>1. MAX_EVENT_TIMESTAMPS \in Nat
  BY DevicesAssumption DEF Period!PeriodAssumption
<1>2. Period!TypeOK
  BY <1>1 DEF Period!Init, Period!TypeOK, Period!NoStats
<1>3. ASSUME NEW e \in Events
      PROVE  EventOK(timestampsInNs[e], prevTimestampInNs[e], marked[e], dropped[e],
                     reported[e], first[e], total[e], now)
  BY <1>1 DEF Period!Init, EventOK
<1> QED
  BY <1>2, <1>3 DEF Period!Init, PeriodInv

\* A mark of one event leaves the others, and time passes for all.
LEMMA MarkPeriod ==
    ASSUME PeriodInv, NEW e \in Events, Period!Mark(e)
    PROVE  PeriodInv'
<1>1. now \in Nat /\ now' \in Nat /\ now' > now /\ now >= 1
  BY DEF Period!Mark, Period!Advance, PeriodInv, Period!TypeOK
<1>2. ASSUME NEW k \in Events
      PROVE  /\ EventOK(timestampsInNs[k], prevTimestampInNs[k], marked[k], dropped[k],
                        reported[k], first[k], total[k], now)
             /\ prevTimestampInNs'[k] = prevTimestampInNs[k] /\ reported'[k] = reported[k]
             /\ total'[k] = total[k]
             /\ k # e => /\ timestampsInNs'[k] = timestampsInNs[k] /\ marked'[k] = marked[k]
                         /\ dropped'[k] = dropped[k] /\ first'[k] = first[k]
  BY DEF PeriodInv, Period!Mark, Period!TypeOK
<1>3. ASSUME NEW k \in Events
      PROVE  EventOK(timestampsInNs[k], prevTimestampInNs[k], marked[k], dropped[k],
                     reported[k], first[k], total[k], now)'
  <2>1. CASE k # e
    BY <1>1, <1>2, <2>1, EventLater
  <2>2. CASE k = e
    <3>1. marked'[e] = marked[e] + 1
      BY DEF Period!Mark, PeriodInv, Period!TypeOK
    <3>2. CASE Period!HasSpace(e)
      <4>1. /\ timestampsInNs'[e] = Append(timestampsInNs[e], now')
            /\ first'[e] = IF first[e] = 0 THEN now' ELSE first[e]
            /\ dropped'[e] = dropped[e]
        BY <3>2 DEF Period!Mark, PeriodInv, Period!TypeOK
      <4>2. Len(timestampsInNs[e]) < MAX_EVENT_TIMESTAMPS
        BY <3>2 DEF Period!HasSpace
      <4> QED
        BY <1>1, <1>2, <2>2, <3>1, <4>1, <4>2, EventMarked
    <3>3. CASE ~Period!HasSpace(e)
      <4>1. /\ timestampsInNs'[e] = timestampsInNs[e] /\ first'[e] = first[e]
            /\ dropped'[e] = dropped[e] + 1
        BY <3>3 DEF Period!Mark, PeriodInv, Period!TypeOK
      <4> QED
        BY <1>1, <1>2, <2>2, <3>1, <4>1, EventDropped
    <3> QED
      BY <3>2, <3>3
  <2> QED
    BY <2>1, <2>2
<1>4. Period!TypeOK'
  <2>1. /\ timestampsInNs' \in [Events -> Seq(Nat)]
        /\ \A k \in Events : Len(timestampsInNs'[k]) <= MAX_EVENT_TIMESTAMPS
    <3>1. timestampsInNs' = [k \in Events |-> timestampsInNs'[k]]
      BY DEF Period!Mark, PeriodInv, Period!TypeOK
    <3>2. \A k \in Events : /\ timestampsInNs'[k] \in Seq(Nat)
                            /\ Len(timestampsInNs'[k]) <= MAX_EVENT_TIMESTAMPS
      BY <1>3 DEF EventOK
    <3> QED
      BY <3>1, <3>2
  <2>2. marked' \in [Events -> Nat] /\ dropped' \in [Events -> Nat] /\ first' \in [Events -> Nat]
    <3>1. /\ marked' = [k \in Events |-> marked'[k]]
          /\ dropped' = [k \in Events |-> dropped'[k]]
          /\ first' = [k \in Events |-> first'[k]]
      BY DEF Period!Mark, PeriodInv, Period!TypeOK
    <3>2. \A k \in Events : marked'[k] \in Nat /\ dropped'[k] \in Nat /\ first'[k] \in Nat
      BY <1>3 DEF EventOK
    <3> QED
      BY <3>1, <3>2
  <2>3. UNCHANGED <<prevTimestampInNs, stats, reported, total>>
    BY DEF Period!Mark
  <2> QED
    BY <1>1, <2>1, <2>2, <2>3 DEF PeriodInv, Period!TypeOK
<1> QED
  BY <1>1, <1>3, <1>4 DEF PeriodInv

\* A report of one event leaves the others.
LEMMA ReportPeriod ==
    ASSUME PeriodInv, NEW r \in Reporters, NEW e \in Events,
           Period!GetStatisticsAndClear(r, e)
    PROVE  PeriodInv'
<1> DEFINE ts == timestampsInNs[e]
<1>1. now \in Nat /\ now' = now /\ now >= 1
      /\ UNCHANGED <<marked, dropped, first>>
  BY DEF Period!GetStatisticsAndClear, PeriodInv, Period!TypeOK
<1>2. ASSUME NEW k \in Events
      PROVE  /\ EventOK(timestampsInNs[k], prevTimestampInNs[k], marked[k], dropped[k],
                        reported[k], first[k], total[k], now)
             /\ k # e => /\ timestampsInNs'[k] = timestampsInNs[k]
                         /\ prevTimestampInNs'[k] = prevTimestampInNs[k]
                         /\ reported'[k] = reported[k] /\ total'[k] = total[k]
  BY DEF PeriodInv, Period!GetStatisticsAndClear, Period!UpdatePrevious, Period!Clear,
         Period!TypeOK
<1>3. /\ timestampsInNs'[e] = << >> /\ reported'[e] = reported[e] + Len(ts)
      /\ total'[e] = total[e] + Period!SumDeltas(e)
      /\ prevTimestampInNs'[e] = IF ts = << >> THEN prevTimestampInNs[e] ELSE ts[Len(ts)]
  BY DEF Period!GetStatisticsAndClear, Period!UpdatePrevious, Period!Clear, PeriodInv,
         Period!TypeOK
<1>4. ts \in Seq(Nat) /\ Len(ts) \in Nat /\ (ts = << >> <=> Len(ts) = 0)
  BY DEF PeriodInv, Period!TypeOK
<1>5. CASE Len(ts) = 0
  <2>1. Period!SumDeltas(e) = 0
    <3> DEFINE f == [i \in 0 .. 0 |-> 0]
               Sums(g) == g = [i \in 0 .. Len(timestampsInNs[e]) |->
                                  IF i = 0 THEN 0 ELSE g[i - 1] + Period!Deltas(e)[i]]
               sum == CHOOSE g : Sums(g)
    <3>1. Sums(f)
      BY <1>5
    <3>2. Sums(sum)
      <4> HIDE DEF f, Sums
      <4> QED
        BY <3>1
    <3> HIDE DEF sum
    <3>3. sum[Len(timestampsInNs[e])] = 0
      BY <1>5, <3>2
    <3>4. Period!SumDeltas(e) = sum[Len(timestampsInNs[e])]
      BY Zenon DEF Period!SumDeltas, sum, Sums
    <3> QED
      BY <3>3, <3>4
  <2>2. /\ timestampsInNs'[e] = timestampsInNs[e] /\ reported'[e] = reported[e]
        /\ total'[e] = total[e] /\ prevTimestampInNs'[e] = prevTimestampInNs[e]
    BY <1>3, <1>4, <1>5, <2>1 DEF PeriodInv, Period!TypeOK
  <2>3. ASSUME NEW k \in Events
        PROVE  EventOK(timestampsInNs[k], prevTimestampInNs[k], marked[k], dropped[k],
                       reported[k], first[k], total[k], now)'
    BY <1>1, <1>2, <2>2
  <2>4. Period!UpdateStats(e) \in StatsType
    <3>1. Period!UpdateStats(e) = Period!NoStats
      BY <1>5 DEF Period!UpdateStats
    <3> QED
      BY <3>1, DevicesAssumption DEF Period!NoStats, StatsType, Period!PeriodAssumption
  <2>5. Period!TypeOK'
    <3>1. UNCHANGED <<timestampsInNs, prevTimestampInNs, reported, total>>
      BY <1>3, <1>4, <1>5, <2>2
      DEF Period!GetStatisticsAndClear, Period!UpdatePrevious, Period!Clear, PeriodInv,
          Period!TypeOK
    <3>2. stats' \in [Reporters -> [Events -> StatsType]]
      BY <2>4 DEF Period!GetStatisticsAndClear, PeriodInv, Period!TypeOK, StatsType
    <3> QED
      BY <1>1, <3>1, <3>2 DEF PeriodInv, Period!TypeOK, StatsType
  <2> QED
    BY <1>1, <2>3, <2>5 DEF PeriodInv
<1>6. CASE Len(ts) # 0
  <2>1. /\ Period!SumDeltas(e) = ts[Len(ts)] - IF prevTimestampInNs[e] = 0 THEN ts[1]
                                               ELSE prevTimestampInNs[e]
        /\ Period!UpdateStats(e) \in StatsType
    BY <1>6, StatsOfReport
  <2>2. EventOK(timestampsInNs[e], prevTimestampInNs[e], marked[e], dropped[e],
                reported[e], first[e], total[e], now)'
    <3>1. EventOK(<< >>, ts[Len(ts)], marked[e], dropped[e], reported[e] + Len(ts), first[e],
                  total[e] + Period!SumDeltas(e), now)
      BY <1>1, <1>2, <1>6, <2>1, EventReported
    <3> QED
      BY <1>1, <1>3, <1>4, <1>6, <3>1
  <2>3. ASSUME NEW k \in Events
        PROVE  EventOK(timestampsInNs[k], prevTimestampInNs[k], marked[k], dropped[k],
                       reported[k], first[k], total[k], now)'
    <3>1. CASE k = e
      BY <2>2, <3>1
    <3>2. CASE k # e
      BY <1>1, <1>2, <3>2
    <3> QED
      BY <3>1, <3>2
  <2>4. Period!TypeOK'
    <3>1. stats' \in [Reporters -> [Events -> StatsType]]
      BY <2>1 DEF Period!GetStatisticsAndClear, PeriodInv, Period!TypeOK, StatsType
    <3>2. /\ timestampsInNs' = [k \in Events |-> timestampsInNs'[k]]
          /\ prevTimestampInNs' = [k \in Events |-> prevTimestampInNs'[k]]
          /\ reported' = [k \in Events |-> reported'[k]]
          /\ total' = [k \in Events |-> total'[k]]
      BY DEF Period!GetStatisticsAndClear, Period!UpdatePrevious, Period!Clear, PeriodInv,
             Period!TypeOK
    <3>3. /\ timestampsInNs' \in [Events -> Seq(Nat)]
          /\ \A k \in Events : Len(timestampsInNs'[k]) <= MAX_EVENT_TIMESTAMPS
      BY <2>3, <3>2 DEF EventOK
    <3>4. prevTimestampInNs' \in [Events -> Nat]
      BY <2>3, <3>2 DEF EventOK
    <3>5. {reported', total'} \subseteq [Events -> Nat]
      BY <2>3, <3>2 DEF EventOK
    <3> QED
      BY <1>1, <3>1, <3>3, <3>4, <3>5 DEF PeriodInv, Period!TypeOK, StatsType
  <2> QED
    BY <1>1, <2>3, <2>4 DEF PeriodInv
<1> QED
  BY <1>5, <1>6

\* Every call of the period timer keeps the books.
LEMMA StepPeriod ==
    ASSUME PeriodInv, [Period!Next]_(Period!periodVars)
    PROVE  PeriodInv'
<1>1. CASE UNCHANGED Period!periodVars
  BY <1>1 DEF Period!periodVars, Period!data, Period!history, PeriodInv, Period!TypeOK, EventOK
<1> QED
  BY <1>1, MarkPeriod, ReportPeriod DEF Period!Next

\* Each event is in one report, whoever asked for it, waits for one or was
\* dropped, and the periods reported join from the first event on.
THEOREM EveryReportAddsUp == AllSpec => []ReportsAddUp
<1>1. AllInit => PeriodInv
  BY InitPeriod DEF AllInit
<1>2. PeriodInv => ReportsAddUp
  BY DEF PeriodInv, EventOK, ReportsAddUp, Period!ReportsAddUp,
         Period!EveryEventCountedOnce, Period!PeriodsJoin
<1> QED
  BY <1>1, <1>2, StepOfParts, StepPeriod, PTL DEF AllSpec

\* A report that says something new has periods in order, and a period of zero
\* only if it is the first report of its event.
LEMMA ReportIsReal ==
    ASSUME PeriodInv, [Period!Next]_(Period!periodVars), NEW r \in Reporters, NEW e \in Events,
           stats[r][e] # stats'[r][e], stats'[r][e].numSamples > 0
    PROVE  /\ 0 <= stats'[r][e].min /\ stats'[r][e].min <= stats'[r][e].avg
           /\ stats'[r][e].avg <= stats'[r][e].max
           /\ stats'[r][e].min = 0 => reported[e] = 0
<1>1. PICK k \in Events, s \in Reporters : Period!GetStatisticsAndClear(s, k)
  BY DEF Period!Next, Period!Mark, Period!periodVars, Period!data, Period!history
<1>2. s = r /\ k = e /\ stats'[r][e] = Period!UpdateStats(e)
  BY <1>1 DEF Period!GetStatisticsAndClear, PeriodInv, Period!TypeOK
<1>3. Len(timestampsInNs[e]) # 0
  BY <1>2 DEF Period!UpdateStats, Period!NoStats
<1> QED
  BY <1>2, <1>3, StatsOfReport

\* A period of zero is what the first event gets for want of an earlier one.
THEOREM ZeroMeansFirst == AllSpec => ZeroOnlyAtStartup
<1> DEFINE Real == \A r \in Reporters, e \in Events :
                       LET new == stats'[r][e]
                       IN  stats[r][e] # new /\ new.numSamples > 0 =>
                               /\ 0 <= new.min /\ new.min <= new.avg /\ new.avg <= new.max
                               /\ new.min = 0 => reported[e] = 0
<1>1. AllInit => PeriodInv
  BY InitPeriod DEF AllInit
<1>2. PeriodInv /\ [Period!Next]_(Period!periodVars) => [Real]_(Period!periodVars)
  BY ReportIsReal
<1>3. ZeroOnlyAtStartup <=> [][Real]_(Period!periodVars)
  BY DEF ZeroOnlyAtStartup, Period!ZeroOnlyAtStartup
<1> HIDE DEF Real
<1> QED
  BY <1>1, <1>2, <1>3, StepOfParts, StepPeriod, PTL DEF AllSpec

------------------------------------------------------------------------------
(* The screens.                                                            *)

\* The button is down and the next round will find that it was not before.
Unseen == buttonPressed /\ ~lastButtonState

\* Every switch has had a press of its own, and so has the one to come.
PressesCover == /\ switches <= presses
                /\ Unseen => switches < presses

ScreenIInv == Lcd!TypeOK /\ PressesCover

\* The initial state satisfies the inductive invariant.
LEMMA InitScreens ==
    ASSUME Lcd!Init
    PROVE  ScreenIInv
<1>1. 0 \in Lcd!Screens /\ 0 \in 0 .. MaxPresses
  BY DevicesAssumption DEF Lcd!LcdAssumption, Lcd!Screens
<1>2. buttonPressed \in BOOLEAN /\ lastButtonState \in BOOLEAN
  BY DEF Lcd!Init
<1>3. /\ place \in [Lcd!Users -> {"idle", "next", "clear", "switch", "draw", "send"}]
      /\ seen \in [Lcd!Users -> Lcd!Screens]
  BY <1>1 DEF Lcd!Init
<1>4. /\ currentScreen \in Lcd!Screens /\ update \in Lcd!Screens
      /\ frameBuffer \subseteq Lcd!Screens /\ panel \subseteq Lcd!Screens
      /\ presses \in 0 .. MaxPresses /\ switches \in Nat
  BY <1>1 DEF Lcd!Init
<1>5. PressesCover
  BY DEF Lcd!Init, PressesCover, Unseen
<1> QED
  BY <1>2, <1>3, <1>4, <1>5 DEF ScreenIInv, Lcd!TypeOK

\* A step of a refresh, by either user, keeps the types and leaves the button be.
LEMMA RefreshScreens ==
    ASSUME ScreenIInv, NEW u \in Lcd!Users, Lcd!Refresh(u)
    PROVE  ScreenIInv'
<1>1. Lcd!TypeOK'
  <2>1. CASE Lcd!Clear(u)
    BY <2>1, Zenon DEF Lcd!Clear, Lcd!Go, ScreenIInv, Lcd!TypeOK, Lcd!button
  <2> QED
    BY <2>1 DEF Lcd!Refresh, Lcd!Clear, Lcd!Switch, Lcd!Draw, Lcd!Send, Lcd!Go, ScreenIInv, Lcd!TypeOK, Lcd!button
<1>2. UNCHANGED Lcd!button
  BY DEF Lcd!Refresh, Lcd!Clear, Lcd!Switch, Lcd!Draw, Lcd!Send
<1> QED
  BY <1>1, <1>2 DEF ScreenIInv, PressesCover, Unseen, Lcd!button

\* Every step preserves the inductive invariant.
LEMMA StepScreens ==
    ASSUME ScreenIInv, [Lcd!Next]_(Lcd!vars)
    PROVE  ScreenIInv'
<1> USE DevicesAssumption DEF Lcd!LcdAssumption, ScreenIInv, Lcd!TypeOK, Lcd!Screens, Lcd!Users
<1>1. CASE Lcd!Update
  <2>1. update' \in Lcd!Screens
    BY <1>1 DEF Lcd!Update
  <2> QED
    BY <1>1, <2>1 DEF Lcd!Update, Lcd!Go, Lcd!button, PressesCover, Unseen
<1>2. ASSUME NEW level \in BOOLEAN, Lcd!Edge(level)
      PROVE  ScreenIInv'
  <2>1. CASE level
    BY <1>2, <2>1 DEF Lcd!Edge, PressesCover, Unseen
  <2>2. CASE ~level
    BY <1>2, <2>2 DEF Lcd!Edge, PressesCover, Unseen
  <2> QED
    BY <2>1, <2>2
<1>3. CASE Lcd!RoundIdle
  BY <1>3 DEF Lcd!RoundIdle, Lcd!Remember, PressesCover, Unseen
<1>4. CASE Lcd!NextScreen
  BY <1>4 DEF Lcd!NextScreen, Lcd!Remember, Lcd!Go, PressesCover, Unseen
<1>5. CASE Lcd!SetScreen
  <2>1. Lcd!Successor(seen["joystick"]) \in Lcd!Screens
    BY DEF Lcd!Successor
  <2> QED
    BY <1>5, <2>1 DEF Lcd!SetScreen, Lcd!Go, Lcd!button, PressesCover, Unseen
<1>6. ASSUME NEW u \in Lcd!Users, Lcd!Refresh(u)
      PROVE  ScreenIInv'
  BY <1>6, RefreshScreens
<1>7. CASE UNCHANGED Lcd!vars
  BY <1>7 DEF Lcd!vars, Lcd!button, PressesCover, Unseen
<1> QED
  BY <1>1, <1>2, <1>3, <1>4, <1>5, <1>6, <1>7 DEF Lcd!Next, Lcd!MainStep, Lcd!JoystickStep

\* The button shows one screen per press at most, however its edges fall
\* between the rounds of joystick_thread_function and the refreshes in it.
THEOREM LcdOneScreenPerPress == AllSpec => []OneScreenPerPress
<1>1. AllInit => ScreenIInv
  BY InitScreens DEF AllInit
<1>2. ScreenIInv => OneScreenPerPress
  BY DEF ScreenIInv, PressesCover, OneScreenPerPress, Lcd!OneScreenPerPress
<1> QED
  BY <1>1, <1>2, StepOfParts, StepScreens, PTL DEF AllSpec

------------------------------------------------------------------------------
(* The types of all parts.                                                 *)

\* What the other invariants leave out of the types.
RestTyped ==
    /\ Encoder!TypeOK /\ Accel!TypeOK
    /\ report \in [direction : {-1, 0, 1}, run : -3 .. 3, late : BOOLEAN]

\* The parts start well typed.
LEMMA InitRest == Encoder!Init /\ Accel!Init /\ Flash!Init => RestTyped
<1> SUFFICES ASSUME Encoder!Init, Accel!Init, Flash!Init
             PROVE  RestTyped
  OBVIOUS
<1>1. Encoder!TypeOK
  <2>1. /\ knob \in 0 .. 3 /\ queue \in [Encoder!Lines -> Seq(Encoder!Edges)]
        /\ queue["clk"] = << >> /\ queue["dt"] = << >>
    BY DEF Encoder!Init, Encoder!Lines
  <2>2. \A l \in Encoder!Lines : Len(queue[l]) <= MaxQueued
    BY <2>1, DevicesAssumption DEF Encoder!EncoderAssumption, Encoder!Lines
  <2>3. toRead \subseteq Encoder!Lines /\ clk_last_state \in {-1, 0, 1}
        /\ dt_last_state \in {-1, 0, 1}
    BY DEF Encoder!Init
  <2>4. /\ first_reading \in BOOLEAN /\ recent \in BOOLEAN /\ behind \in BOOLEAN
        /\ lost \subseteq Encoder!Lines
    BY Zenon DEF Encoder!Init
  <2>5. step \in [by : {-1, 0, 1}, turn : Encoder!Turns, behind : BOOLEAN]
    BY DEF Encoder!Init, Encoder!Turns
  <2> QED
    BY <2>1, <2>2, <2>3, <2>4, <2>5 DEF Encoder!TypeOK
<1>2. Accel!TypeOK
  <2>1. sensor \in Readings /\ lowByte \in -1 .. Low - 1
    BY HalfType DEF Accel!Init
  <2>2. {lowFailed, justDrummed} \subseteq BOOLEAN
    BY Zenon DEF Accel!Init
  <2>3. {current, prev} \subseteq Accel!Int16
    BY HalfType DEF Accel!Init, Accel!Int16, Half
  <2>4. {truth, before} \subseteq {{}} \cup {{r} : r \in Readings}
    BY DEF Accel!Init
  <2>5. outcome.played => outcome.ready
    BY DEF Accel!Init
  <2> QED
    BY <2>1, <2>2, <2>3, <2>4, <2>5 DEF Accel!TypeOK
<1>3. report \in [direction : {-1, 0, 1}, run : -3 .. 3, late : BOOLEAN]
  BY DEF Flash!Init, Flash!NoReport
<1> QED
  BY <1>1, <1>2, <1>3 DEF RestTyped

\* The kernel holds at most MaxQueued edges of a line, and the thread takes them
\* off.
LEMMA StepEncoderType ==
    ASSUME Encoder!TypeOK, EncoderInv, [Encoder!Next]_(Encoder!encoderVars)
    PROVE  Encoder!TypeOK'
<1>1. ASSUME NEW l \in Encoder!Lines
      PROVE  /\ queue[l] \in Seq(Encoder!Edges) /\ Len(queue[l]) \in Nat
             /\ Len(queue[l]) <= MaxQueued /\ MaxQueued \in Nat
  BY DevicesAssumption DEF Encoder!TypeOK, Encoder!EncoderAssumption
<1>2. EncoderInv'
  BY StepEncoderInv
<1>3. ASSUME NEW t \in Encoder!Turns, Encoder!Turn(t)
      PROVE  Encoder!TypeOK'
  <2>1. ASSUME NEW l \in Encoder!Lines
        PROVE  Len(queue'[l]) <= MaxQueued
    <3> DEFINE e == [level |-> Encoder!Level(l, knob'), turn |-> t]
    <3>1. e \in Encoder!Edges
      BY EncoderMoves DEF Encoder!Edges
    <3>2. \/ queue'[l] = queue[l]
          \/ Len(queue[l]) # MaxQueued /\ queue'[l] = Append(queue[l], e)
      BY <1>3, TurnOfLine
    <3> HIDE DEF e
    <3>3. Len(Append(queue[l], e)) = Len(queue[l]) + 1
      BY <1>1, <3>1
    <3> QED
      BY <1>1, <3>2, <3>3
  <2>2. behind' \in BOOLEAN /\ lost' \subseteq Encoder!Lines
    BY <1>3 DEF Encoder!Turn, Encoder!Lost, Encoder!TypeOK
  <2> QED
    BY <1>2, <1>3, <2>1, <2>2 DEF Encoder!Turn, Encoder!TypeOK, EncoderInv
<1>4. ASSUME NEW l \in Encoder!Lines, Encoder!ReadEdge(l)
      PROVE  Encoder!TypeOK'
  <2>1. queue[l] # << >> /\ queue[l] \in Seq(Encoder!Edges)
        /\ queue' = [queue EXCEPT ![l] = Tail(@)]
    BY <1>4 DEF Encoder!ReadEdge, EncoderInv
  <2>2. Len(Tail(queue[l])) <= Len(queue[l]) /\ Len(Tail(queue[l])) \in Nat
        /\ Head(queue[l]) \in Encoder!Edges
    BY <2>1
  <2>3. ASSUME NEW k \in Encoder!Lines
        PROVE  Len(queue'[k]) <= MaxQueued
    <3>1. queue'[k] = IF k = l THEN Tail(queue[l]) ELSE queue[k]
      BY <2>1 DEF EncoderInv
    <3> QED
      BY <1>1, <2>2, <3>1
  <2>4. Head(queue[l]).level \in {0, 1} /\ Head(queue[l]).turn \in Encoder!Turns
    BY <2>2 DEF Encoder!Edges
  <2>5. Encoder!Direction(l, Head(queue[l])) \in {-1, 0, 1}
    BY DEF Encoder!Direction
  <2>6. step' \in [by : {-1, 0, 1}, turn : Encoder!Turns, behind : BOOLEAN]
    BY <1>4, <2>4, <2>5 DEF Encoder!ReadEdge, Encoder!TypeOK
  <2>7. clk_last_state' \in {-1, 0, 1} /\ dt_last_state' \in {-1, 0, 1}
    BY <1>4, <2>4 DEF Encoder!ReadEdge, Encoder!NoteLevel, Encoder!TypeOK
  <2>8. toRead' \subseteq Encoder!Lines /\ first_reading' \in BOOLEAN /\ behind' \in BOOLEAN
        /\ lost' \subseteq Encoder!Lines
    BY <1>4 DEF Encoder!ReadEdge, Encoder!Take, Encoder!TypeOK
  <2>9. recent' \in BOOLEAN
    BY <1>4 DEF Encoder!ReadEdge
  <2> QED
    BY <1>2, <2>3, <2>6, <2>7, <2>8, <2>9 DEF Encoder!TypeOK, EncoderInv
<1>5. CASE \/ Encoder!DebounceOver \/ Encoder!WaitBulk \/ UNCHANGED Encoder!encoderVars
           \/ \E l \in Encoder!Lines : Encoder!ReadFails(l)
  BY <1>5 DEF Encoder!DebounceOver, Encoder!WaitBulk, Encoder!encoderVars, Encoder!TypeOK,
              Encoder!ReadFails, Encoder!Take
<1> QED
  BY <1>3, <1>4, <1>5 DEF Encoder!Next

\* The samples are int16_t and no drum is played within the debounce.
LEMMA StepAccelType ==
    ASSUME Accel!TypeOK, AccelInv, [Accel!Next]_(Accel!accelVars)
    PROVE  Accel!TypeOK'
<1>1. AccelInv'
  BY StepAccel
<1>2. sensor' \in Readings /\ lowByte' \in -1 .. Low - 1
  BY <1>1 DEF AccelInv
<1>3. {current', prev'} \subseteq Accel!Int16
  BY <1>1 DEF AccelInv, Near, Accel!Int16, Half
<1>4. {lowFailed', justDrummed'} \subseteq BOOLEAN
  BY DEF Accel!TypeOK, Accel!Next, Accel!Move, Accel!ReadLow, Accel!ReadHigh, Accel!Process,
         Accel!DebounceOver, Accel!accelVars
<1>5. {truth', before'} \subseteq {{}} \cup {{r} : r \in Readings}
  BY DEF Accel!TypeOK, Accel!Next, Accel!Move, Accel!ReadLow, Accel!ReadHigh, Accel!Process,
         Accel!Keep, Accel!DebounceOver, Accel!accelVars
<1>6. outcome'.played => outcome'.ready
  BY DEF Accel!TypeOK, Accel!Next, Accel!Move, Accel!ReadLow, Accel!ReadHigh, Accel!Process,
         Accel!DebounceOver, Accel!accelVars
<1> QED
  BY <1>2, <1>3, <1>4, <1>5, <1>6 DEF Accel!TypeOK

\* A report has one direction and counts the edges of its turn.
LEMMA StepReportType ==
    ASSUME report \in [direction : {-1, 0, 1}, run : -3 .. 3, late : BOOLEAN],
           MachineInv, [Flash!Next]_(Flash!flashVars)
    PROVE  report' \in [direction : {-1, 0, 1}, run : -3 .. 3, late : BOOLEAN]
<1>1. ASSUME NEW l \in Flash!Lines, Flash!ReadEvent(l)
      PROVE  report' \in [direction : {-1, 0, 1}, run : -3 .. 3, late : BOOLEAN]
  <2>1. Flash!Reported(pCurrentState, l, Head(events[l])) \in {-1, 0, 1}
    BY DEF Flash!Reported
  <2>2. Flash!NoReport \in [direction : {-1, 0, 1}, run : -3 .. 3, late : BOOLEAN]
    BY DEF Flash!NoReport
  <2>3. run \in -3 .. 3 /\ late \in BOOLEAN
    BY DEF MachineInv
  <2> QED
    BY <1>1, <2>1, <2>2, <2>3 DEF Flash!ReadEvent
<1>2. CASE \/ \E t \in Flash!Turns : Flash!TurnKnob(t)
           \/ \E l \in Flash!Lines : Flash!ReadEventFails(l)
           \/ Flash!WaitForEdges \/ Flash!ProcessRotary \/ UNCHANGED Flash!flashVars
  BY <1>2 DEF Flash!TurnKnob, Flash!ReadEventFails, Flash!WaitForEdges,
              Flash!ProcessRotary, Flash!flashVars
<1> QED
  BY <1>1, <1>2 DEF Flash!Next

\* Every part keeps to its types: the tempo and the frequency between their
\* limits, the queues no longer than the kernel's, the samples int16_t, the
\* stamps no more than fit and the reports numbers.
THEOREM DevicesTypeOK == AllSpec => []TypesOK
<1> DEFINE All == IInv /\ LedInv /\ MachineInv /\ EncoderInv /\ AccelInv /\ PeriodInv
                  /\ ScreenIInv /\ RestTyped
<1>1. AllInit => All
  BY InitInvariant, InitLed, InitMachine, InitEncoderInv, InitAccel, InitPeriod, InitScreens, InitRest
  DEF AllInit
<1>2. ASSUME All, [AllNext /\ UNCHANGED mover]_allVars
      PROVE  All'
  <2>1. IInv' /\ LedInv' /\ MachineInv'
    BY <1>2, StepOfParts, StepInvariant, StepLed, StepMachine
  <2>2. EncoderInv' /\ AccelInv' /\ PeriodInv' /\ ScreenIInv'
    BY <1>2, StepOfParts, StepEncoderInv, StepAccel, StepPeriod, StepScreens
  <2>3. RestTyped'
    BY <1>2, StepOfParts, StepEncoderType, StepAccelType, StepReportType DEF RestTyped
  <2> QED
    BY <2>1, <2>2, <2>3
<1>3. All => TypesOK
  <2> SUFFICES ASSUME All
               PROVE  TypesOK
    OBVIOUS
  <2>1. TypeOK /\ Period!TypeOK /\ Encoder!TypeOK /\ Accel!TypeOK
        /\ Lcd!TypeOK
    BY DEF IInv, PeriodInv, RestTyped, ScreenIInv
  <2>2. bulk \subseteq Flash!Lines
    BY DEF MachineInv, Flash!Waiting
  <2>3. Flash!TypeOK
    BY <2>2 DEF MachineInv, LedInv, RestTyped, Flash!TypeOK
  <2> QED
    BY <2>1, <2>3 DEF TypesOK
<1> HIDE DEF All
<1> QED
  BY <1>1, <1>2, <1>3, PTL DEF AllSpec
==============================================================================
