---------------------------- MODULE ModeSyncProofs ----------------------------
(***************************************************************************)
(* Proofs about ModeSync, for any number of presses and commands.  After   *)
(* the last request the main loop needs one iteration to get rid of copies *)
(* it had read before, one to make the two modes equal and one to remember *)
(* the result; a request that finds it there is carried by every variable  *)
(* that does not hold the mode from before it.                             *)
(***************************************************************************)
EXTENDS ModeSync, TLAPS

\* main holds a copy of the encoder's mode, and one of the player's.
HoldsEnc == main \in {"player", "reconcile"}
HoldsPly == main = "reconcile"

\* Iterations are counted from the end of a press on; before the loop none is.
CountStarts ==
    /\ age > 0 => button = "idle"
    /\ main = "start" => /\ age \in {0, Settle} /\ ~spaced
                         /\ age = Settle => currentBeatMode = ROCK /\ lastEncoderMode = ROCK

\* One iteration after the last request the copies in hand are fresh, ...
CopiesAreFresh ==
    age > 0 => /\ HoldsEnc => enc = currentBeatMode
               /\ HoldsPly => ply = currentMode

\* ... two after it the modes are equal, three after it they are remembered.
Converges ==
    main # "start" => /\ age >= 2 => currentBeatMode = currentMode
                      /\ age = Settle => lastEncoderMode = currentBeatMode

\* A press that found the loop settled has read the mode but not stored it.
NothingMoved ==
    /\ currentMode = currentBeatMode /\ lastEncoderMode = currentBeatMode
    /\ seen = currentBeatMode /\ latest = Cycle(seen)
    /\ HoldsEnc => enc = currentBeatMode
    /\ HoldsPly => ply = currentBeatMode

\* Every variable has the mode of the request or the one from before it, and a
\* copy of the new one was taken from a variable that has it still.
RequestSpreads ==
    /\ currentBeatMode \in {latest, lastEncoderMode}
    /\ currentMode \in {latest, lastEncoderMode}
    /\ button = "set" => currentBeatMode = latest
    /\ button = "idle" => currentMode = latest
    /\ HoldsEnc => /\ enc \in {latest, lastEncoderMode}
                   /\ enc = latest => currentBeatMode = latest
    /\ HoldsPly => /\ ply \in {latest, lastEncoderMode}
                   /\ ply = latest => currentMode = latest

SpacedRequest ==
    spaced => IF button = "write" THEN NothingMoved ELSE RequestSpreads

IInv == ModeTypeOK /\ CountStarts /\ CopiesAreFresh /\ Converges /\ SpacedRequest

\* The button's table stays within the three modes.
LEMMA CycleType == \A m \in Modes : Cycle(m) \in Modes
  BY DEF Modes, NONE, ROCK, CUSTOM, Cycle

\* The initial states of ModeSync satisfy the inductive invariant.
LEMMA InitInvariant == ModeInit => IInv
<1> SUFFICES ASSUME ModeInit
             PROVE  IInv
  OBVIOUS
<1>1. pressed \in BOOLEAN /\ recent \in BOOLEAN /\ spaced \in BOOLEAN /\ ~spaced
  BY Zenon DEF ModeInit
<1>2. ModeTypeOK
  BY <1>1, ModeAssumption DEF ModeInit, ModeTypeOK, Modes, NONE, ROCK, CUSTOM, Settle
<1> QED
  BY <1>1, <1>2
  DEF ModeInit, IInv, CountStarts, CopiesAreFresh, Converges, SpacedRequest, HoldsEnc,
      HoldsPly, Settle

\* Types are kept by every step.
LEMMA TypeInvariant ==
    ASSUME ModeTypeOK, [ModeNext]_modeVars
    PROVE  ModeTypeOK'
<1> USE DEF ModeTypeOK
<1>1. CASE MainStep
  <2> ROCK \in Modes
    BY DEF Modes, ROCK
  <2>1. CASE SetDefault
    BY <2>1 DEF SetDefault, buttonVars, history
  <2>2. CASE ReadEncoder
    BY <2>2 DEF ReadEncoder, buttonVars, history
  <2>3. CASE ReadPlayer
    BY <2>3 DEF ReadPlayer, buttonVars, history
  <2>4. CASE Reconcile
    <3>1. age' \in 0 .. Settle
      BY <2>4 DEF Reconcile, Settle
    <3>2. currentMode' \in Modes /\ currentBeatMode' \in Modes
      BY <2>4 DEF Reconcile, ReconcileModes, Follow
    <3> QED
      BY <2>4, <3>1, <3>2 DEF Reconcile, Remember, buttonVars
  <2> QED
    BY <1>1, <2>1, <2>2, <2>3, <2>4 DEF MainStep
<1>2. CASE ButtonStep \/ UdpReply
  <2> SUFFICES ASSUME NEW m \in Modes, m = Cycle(seen)
               PROVE  ModeTypeOK'
    BY CycleType
  <2>1. CASE WriteMode
    BY <2>1 DEF WriteMode, mainVars, history
  <2>2. CASE SetPlayer
    BY <2>2 DEF SetPlayer, mainVars, history
  <2>3. CASE UdpReply
    BY <2>3 DEF UdpReply, mainVars, buttonVars, history
  <2> QED
    BY <1>2, <2>1, <2>2, <2>3 DEF ButtonStep
<1>3. CASE FallingEdge \/ BouncedEdge \/ DebounceOver
  BY <1>3 DEF FallingEdge, BouncedEdge, DebounceOver, mainVars, history
<1>4. CASE Release
  <2> SUFFICES ASSUME NEW m \in Modes, m = Cycle(currentBeatMode)
               PROVE  ModeTypeOK'
    BY CycleType
  <2>1. pressed' \in BOOLEAN /\ recent' \in BOOLEAN /\ spaced' \in BOOLEAN
    BY <1>4, Zenon DEF Release, Request
  <2> QED
    BY <1>4, <2>1, ModeAssumption
    DEF Release, MayRequest, Request, mainVars, Settle
<1>5. ASSUME NEW m \in Modes, UdpMode(m)
      PROVE  ModeTypeOK'
  BY <1>5, ModeAssumption DEF UdpMode, MayRequest, Request, mainVars, buttonVars, Settle
<1>6. CASE UNCHANGED modeVars
  BY <1>6 DEF modeVars
<1> QED
  BY <1>1, <1>2, <1>3, <1>4, <1>5, <1>6 DEF ModeNext, Input

\* The steps of the main loop preserve the rest of the invariant.
LEMMA MainInvariant ==
    ASSUME IInv, MainStep
    PROVE  CountStarts' /\ CopiesAreFresh' /\ Converges' /\ SpacedRequest'
<1> USE DEF IInv, ModeTypeOK, CountStarts, CopiesAreFresh, Converges, SpacedRequest,
            NothingMoved, RequestSpreads, HoldsEnc, HoldsPly, Settle, Cycle
<1>1. CASE SetDefault
  BY <1>1 DEF SetDefault, buttonVars, history
<1>2. CASE ReadEncoder
  BY <1>2 DEF ReadEncoder, buttonVars, history
<1>3. CASE ReadPlayer
  BY <1>3 DEF ReadPlayer, buttonVars, history
<1>4. CASE Reconcile
  <2> USE <1>4 DEF Reconcile, ReconcileModes, Follow, Remember, buttonVars
  <2>1. CountStarts' /\ CopiesAreFresh'
    OBVIOUS
  <2>2. Converges'
    OBVIOUS
  <2>3. SpacedRequest'
    OBVIOUS
  <2> QED
    BY <2>1, <2>2, <2>3
<1> QED
  BY <1>1, <1>2, <1>3, <1>4 DEF MainStep

\* So do the steps of button and command, and their requests.
LEMMA RequestInvariant ==
    ASSUME IInv, ButtonStep \/ UdpReply \/ Input
    PROVE  CountStarts' /\ CopiesAreFresh' /\ Converges' /\ SpacedRequest'
<1> USE DEF IInv, ModeTypeOK, CountStarts, CopiesAreFresh, Converges, SpacedRequest,
            NothingMoved, RequestSpreads, HoldsEnc, HoldsPly, Settle, Cycle
<1>1. CASE WriteMode
  BY <1>1 DEF WriteMode, mainVars, history
<1>2. CASE SetPlayer
  BY <1>2 DEF SetPlayer, mainVars, history
<1>3. CASE UdpReply
  BY <1>3 DEF UdpReply, mainVars, buttonVars, history
<1>4. CASE FallingEdge \/ BouncedEdge \/ DebounceOver
  BY <1>4 DEF FallingEdge, BouncedEdge, DebounceOver, mainVars, history
<1>5. CASE Release
  BY <1>5 DEF Release, Request, mainVars
<1>6. ASSUME NEW m \in Modes, UdpMode(m)
      PROVE  CountStarts' /\ CopiesAreFresh' /\ Converges' /\ SpacedRequest'
  <2>1. spaced' => age = Settle /\ main # "start"
    BY <1>6, Zenon DEF UdpMode, Request
  <2>2. CountStarts' /\ CopiesAreFresh' /\ Converges'
    BY <1>6, <2>1 DEF UdpMode, Request, mainVars, buttonVars
  <2>3. SpacedRequest'
    BY <1>6, <2>1 DEF UdpMode, Request, mainVars, buttonVars
  <2> QED
    BY <2>2, <2>3
<1> QED
  BY <1>1, <1>2, <1>3, <1>4, <1>5, <1>6 DEF ButtonStep, Input

\* All steps, and stuttering.
LEMMA StepInvariant ==
    ASSUME IInv, [ModeNext]_modeVars
    PROVE  IInv'
<1>1. ModeTypeOK'
  BY TypeInvariant DEF IInv
<1>2. CASE UNCHANGED modeVars
  BY <1>1, <1>2
  DEF modeVars, IInv, CountStarts, CopiesAreFresh, Converges, SpacedRequest,
      NothingMoved, RequestSpreads, HoldsEnc, HoldsPly
<1> QED
  BY <1>1, <1>2, MainInvariant, RequestInvariant DEF IInv, ModeNext

\* Every reachable state of ModeSync is well typed.
THEOREM ModeSyncTypeOK == ModeSpec => []ModeTypeOK
<1>1. IInv => ModeTypeOK
  BY DEF IInv
<1> QED
  BY InitInvariant, StepInvariant, <1>1, PTL DEF ModeSpec

\* A press or command that finds the main loop settled is never lost: three
\* iterations later both modes are what it asked for, whichever copies main
\* held when it came.
THEOREM SettledRequestWins == ModeSpec => []LatestRequestWins
<1>1. IInv => LatestRequestWins
  BY DEF IInv, ModeTypeOK, Converges, SpacedRequest, RequestSpreads, LatestRequestWins, Settle
<1> QED
  BY InitInvariant, StepInvariant, <1>1, PTL DEF ModeSpec
==============================================================================
