--------------------------- MODULE TargetGameProofs ---------------------------
(***************************************************************************)
(* Proofs about TargetGame, for all thresholds, targets and directions,    *)
(* any number of LEDs from eight on, of presses, of bounces of the contact *)
(* and of edges the kernel holds: no move of the contact fires twice while *)
(* the thread keeps up, no target gives way without a hit, nothing is used *)
(* before it is open or after it is closed, and the LEDs always send the   *)
(* player where the target is.                                             *)
(***************************************************************************)
EXTENDS TargetGame, FiniteSetTheorems, TLAPS

------------------------------------------------------------------------------
(* What is open while main is where.                                       *)

Resource(t) == CASE t = "accel" -> "i2c"
                 [] t = "firing" -> "firing line"
                 [] t = "shutdown" -> "shutdown line"

\* The places of main from the start of thread t to the end of its join.
Alive(t) ==
    {"game", "test", "ask", "play", "dark", "unmap", "memory",
     "stop shutdown", "join shutdown"}
    \cup (IF t = "shutdown" THEN {}
          ELSE {"shutdown", "stop firing", "join firing"})
    \cup (IF t = "accel" THEN {"firing", "stop accel", "join accel"} ELSE {})

\* A thread runs only between its start and its join, on an open resource.
ThreadsAreCovered ==
    \A t \in Threads : IF main \in Alive(t) THEN Resource(t) \in open
                       ELSE thread[t] # "run"

\* What main itself opens and closes.
MainIsCovered ==
    /\ main # "gpio" => "gpio" \in open
    /\ main \notin {"gpio", "signal", "lcd", "stop gpio"} => "lcd" \in open
    /\ main \in {"game", "test", "ask", "play", "dark", "unmap"} => "memory" \in open

OpenInv == main # "ended" => ThreadsAreCovered /\ MainIsCovered

------------------------------------------------------------------------------
(* What is scored.                                                         *)

\* Chances wait in the queue in their order, none older than the last taken.
ChancesInOrder ==
    /\ \A i \in 1 .. Len(queue) : fired <= queue[i].chance /\ queue[i].chance <= chances
    /\ \A i, j \in 1 .. Len(queue) : i <= j => queue[i].chance <= queue[j].chance
    /\ fired <= chances
    /\ ~recent /\ fired = chances => contact # "risen"

\* Every shot took a chance or slipped through, and an edge of the last chance
\* that could fire now is one that has slipped.
ShotsCovered ==
    /\ Shots <= fired + slips
    /\ ~recent /\ Pending => Shots + 1 <= fired + slips

\* The chances the press that is going on still brings.
ToCome == IF ~held THEN 0 ELSE IF contact = "moving" THEN 2 ELSE 1

ChancesFromPresses ==
    /\ contact = "moving" => held
    /\ chances + ToCome <= 2 * presses

ButtonInv == ChancesInOrder /\ ShotsCovered /\ ChancesFromPresses

\* A hit that is being shown has its target to come.
HitsCover ==
    /\ generated <= hitCount + 1
    /\ currentAnimation = "hit" => generated <= hitCount
    /\ main \in Startup => currentAnimation = "none"

ScoreInv == ButtonInv /\ HitsCover

------------------------------------------------------------------------------
(* Types.                                                                  *)

\* The colours of the LEDs are always ones there are.
LEMMA ColorsType ==
    /\ \A at : ProcessPointing(at) \in [Leds -> Colors]
    /\ \A anim \in {"hit", "miss"} : All(<<anim, "any">>) \in [Leds -> Colors]
    /\ Dark \in [Leds -> Colors]
<1>1. /\ \A d : Hue(d) \in Hues
      /\ \A h \in Hues : <<h, "bright">> \in Colors /\ <<h, "dim">> \in Colors
      /\ Off \in Colors /\ <<"hit", "any">> \in Colors /\ <<"miss", "any">> \in Colors
  BY DEF Hue, Hues, Colors, Off
<1>2. ASSUME NEW at
      PROVE  ProcessPointing(at) \in [Leds -> Colors]
  <2> DEFINE hue == Hue(DeltaX(at))
             shape == Shape(Band(DeltaY(at)))
  <2>1. hue \in Hues
    BY <1>1
  <2> HIDE DEF hue, shape
  <2>2. /\ All(<<hue, "bright">>) \in [Leds -> Colors]
        /\ [i \in Leds |-> IF i \in shape.bright THEN <<hue, "bright">>
                           ELSE IF i \in shape.dim THEN <<hue, "dim">> ELSE Off]
               \in [Leds -> Colors]
    BY <1>1, <2>1 DEF All
  <2> QED
    BY <2>2 DEF ProcessPointing, hue, shape
<1> QED
  BY <1>1, <1>2 DEF All, Dark

\* The initial states are well typed.
LEMMA InitType == Init => TypeOK
<1> SUFFICES ASSUME Init
             PROVE  TypeOK
  OBVIOUS
<1>1. /\ should_exit \in BOOLEAN /\ shutdown_requested \in BOOLEAN
      /\ {held, down, pressed, recent, button_was_pressed} \subseteq BOOLEAN
  BY Zenon DEF Init
<1>2. leds \in [Leds -> Colors]
  BY ColorsType DEF Init
<1>3. target \in Targets /\ aim \in Pointings \cup {<<0, 0>>}
  BY DEF Init
<1>4. presses \in Nat
  BY DEF Init
<1>5. queue \in Seq(Edges)
  BY DEF Init
<1> QED
  BY <1>1, <1>2, <1>3, <1>4, <1>5 DEF Init, TypeOK, ButtonTypeOK, Startup

\* What the type invariant says of counters and flags.
LEMMA Counters ==
    ASSUME TypeOK
    PROVE  /\ hitCount \in Nat /\ missCount \in Nat /\ presses \in Nat
           /\ generated \in Nat /\ bounces \in Nat /\ chances \in Nat
           /\ fired \in Nat /\ slips \in Nat
  BY DEF TypeOK, ButtonTypeOK

\* The button keeps its types as long as nothing touches it.
LEMMA KeepsButton ==
    ASSUME ButtonTypeOK, UNCHANGED button
    PROVE  ButtonTypeOK'
  BY DEF ButtonTypeOK, button, line, counts

\* A shot is a hit or a miss and counts as one.
LEMMA FireType ==
    ASSUME TypeOK, NEW at
    PROVE  /\ Fire(at).anim \in {"hit", "miss"}
           /\ Fire(at).hits \in Nat /\ Fire(at).misses \in Nat
           /\ Fire(at).hits + Fire(at).misses = hitCount + missCount + 1
           /\ Fire(at).hits = hitCount + (IF Fire(at).anim = "hit" THEN 1 ELSE 0)
<1>1. CASE OnTarget(at, target)
  BY <1>1, Counters DEF Fire
<1>2. CASE ~OnTarget(at, target)
  BY <1>2, Counters DEF Fire
<1> QED
  BY <1>1, <1>2

\* main's steps outside the loop keep the types.
LEMMA MainType ==
    ASSUME TypeOK, MainStep, ~\E at \in Pointings, over \in BOOLEAN : Play(at, over)
    PROVE  TypeOK'
<1> USE DEF TypeOK, Startup, Loop, Cleanup, GoTo, Fails,
            place, process, input, game
<1>1. CASE GpioInitialize \/ TakeSignal \/ LcdInit \/ MemoryInit
  BY <1>1, KeepsButton DEF Resources, GpioInitialize, TakeSignal, LcdInit, MemoryInit
<1>2. ASSUME NEW t \in Threads, NEW r \in Resources, NEW next \in Startup,
             NEW undo \in Cleanup, InitThread(t, r, next, undo)
      PROVE  TypeOK'
  <2>1. /\ open' \subseteq Resources /\ running' \subseteq Threads
        /\ thread' \in [Threads -> {"none", "run", "ended"}]
    BY <1>2 DEF InitThread, Starts
  <2>2. /\ main' \in Startup \cup Loop \cup Cleanup \cup {"ended"}
        /\ exit' \in {"no", "clean", "failed", "handler"}
    BY <1>2 DEF InitThread, Starts
  <2> QED
    BY <1>2, <2>1, <2>2, KeepsButton DEF InitThread
<1>3. CASE TargetGameInit
  <2>1. generated' \in Nat /\ target' \in Targets
    BY <1>3 DEF TargetGameInit
  <2> QED
    BY <1>3, <2>1, KeepsButton DEF TargetGameInit
<1>4. CASE TestExit
  BY <1>4, KeepsButton DEF TestExit
<1>5. CASE AskShutdown
  <2>1. should_exit' \in BOOLEAN /\ shutdown_requested' \in BOOLEAN
    BY <1>5, Zenon DEF AskShutdown
  <2> QED
    BY <1>5, <2>1, KeepsButton DEF AskShutdown
<1>6. CASE TurnOff
  BY <1>6, ColorsType, KeepsButton DEF TurnOff
<1>7. CASE MemoryCleanup \/ LcdCleanup \/ GpioCleanup
  BY <1>7, KeepsButton DEF MemoryCleanup, LcdCleanup, GpioCleanup
<1>8. ASSUME NEW t \in Threads, NEW here, NEW next \in Cleanup, StopThread(t, here, next)
      PROVE  TypeOK'
  BY <1>8, KeepsButton DEF StopThread
<1>9. ASSUME NEW t \in Threads, NEW r, NEW here, NEW next \in Cleanup,
             JoinThread(t, r, here, next)
      PROVE  TypeOK'
  BY <1>9, KeepsButton DEF JoinThread
<1> QED
  BY <1>1, <1>2, <1>3, <1>4, <1>5, <1>6, <1>7, <1>8, <1>9
  DEF MainStep, Threads, Resources

\* An iteration of the loop keeps them.
LEMMA PlayType ==
    ASSUME TypeOK, NEW at \in Pointings, NEW over \in BOOLEAN, Play(at, over)
    PROVE  TypeOK'
<1>2. ASSUME NEW anim \in {"none", "hit", "miss"}, Render(anim, at, over)
      PROVE  /\ target' \in Targets /\ generated' \in Nat
             /\ currentAnimation' \in {"none", "hit", "miss"}
             /\ leds' \in [Leds -> Colors]
  <2>1. CASE anim # "none" /\ ~over
    <3>1. target \in Targets
      BY DEF TypeOK
    <3> QED
      BY <1>2, <2>1, <3>1, ColorsType, Counters DEF Render
  <2>2. CASE ~(anim # "none" /\ ~over)
    <3>1. target' \in Targets /\ generated' \in Nat
      <4>1. target \in Targets
        BY DEF TypeOK
      <4> QED
        BY <1>2, <2>2, <4>1, Counters DEF Render
    <3>2. currentAnimation' = "none" /\ leds' = ProcessPointing(at)
      BY <1>2, <2>2 DEF Render
    <3> QED
      BY <3>1, <3>2, ColorsType
  <2> QED
    BY <2>1, <2>2
<1>3. /\ hitCount' \in Nat /\ missCount' \in Nat
      /\ \E anim \in {"none", "hit", "miss"} : Render(anim, at, over)
  <2> currentAnimation \in {"none", "hit", "miss"}
    BY DEF TypeOK
  <2> QED
    BY FireType, Counters DEF Play
<1>4. /\ target' \in Targets /\ generated' \in Nat
      /\ currentAnimation' \in {"none", "hit", "miss"} /\ leds' \in [Leds -> Colors]
  BY <1>2, <1>3
<1>5. ButtonTypeOK'
  BY DEF Play, line, counts, TypeOK, ButtonTypeOK
<1> QED
  BY <1>3, <1>4, <1>5 DEF Play, GoTo, process, TypeOK, Startup, Loop, Cleanup

\* A negation is TRUE or FALSE.
LEMMA Negation == ASSUME NEW b PROVE (~b) \in BOOLEAN
  BY Zenon

\* The contact and its edges keep the types.
LEMMA MovesType ==
    ASSUME TypeOK, NEW closed \in BOOLEAN, Moves(closed)
    PROVE  /\ down' \in BOOLEAN /\ contact' \in {"settled", "moving", "risen"}
           /\ chances' \in Nat
           /\ queue' \in Seq(Edges)
<1>1. chances' \in Nat
  <2>1. chances' = chances \/ chances' = chances + 1
    BY Zenon DEF Moves
  <2> QED
    BY <2>1, Counters
<1>2. PICK e \in Edges : queue' = Append(queue, e) \/ queue' = queue
  <2> DEFINE e == [edge |-> IF closed THEN "falling" ELSE "rising", chance |-> chances']
  <2>1. e \in Edges
    BY <1>1 DEF Edges
  <2>2. queue' = Append(queue, e) \/ queue' = queue
    BY Zenon DEF Moves
  <2> QED
    BY <2>1, <2>2
<1>3. queue \in Seq(Edges)
  BY DEF TypeOK, ButtonTypeOK
<1>4. queue' \in Seq(Edges)
  BY <1>1, <1>2, <1>3
<1> QED
  BY <1>1, <1>4 DEF Moves, TypeOK, ButtonTypeOK

\* The button keeps the types.
LEMMA ButtonType ==
    ASSUME TypeOK, Finger \/ Bounce \/ Settle \/ ReadEdge \/ FiringDebounceOver
    PROVE  TypeOK'
<1> USE DEF TypeOK, ButtonTypeOK, place, process, line, counts, game
<1>1. CASE Finger
  <2>1. held' \in BOOLEAN /\ presses' \in Nat /\ UNCHANGED bounces
    <3>1. presses' = presses \/ presses' = presses + 1
      BY <1>1, Zenon DEF Finger
    <3>2. held' \in BOOLEAN /\ UNCHANGED bounces
      BY <1>1, Zenon DEF Finger
    <3> QED
      BY <3>1, <3>2, Counters
  <2>2. PICK closed \in BOOLEAN : Moves(closed)
    <3>1. Moves(~held)
      BY <1>1, Zenon DEF Finger
    <3>2. (~held) \in BOOLEAN
      BY Negation, Zenon
    <3> QED
      BY <3>1, <3>2, Zenon
  <2>3. /\ down' \in BOOLEAN /\ contact' \in {"settled", "moving", "risen"}
        /\ chances' \in Nat /\ queue' \in Seq(Edges)
    <3> HIDE DEF TypeOK, ButtonTypeOK
    <3> QED
      BY <2>2, MovesType, Zenon
  <2>4. UNCHANGED <<place, process, pressed, recent, button_was_pressed, fired,
                    slips, shutdown_requested, game>>
    BY <2>2 DEF Moves
  <2> QED
    BY <2>1, <2>3, <2>4
<1>2. CASE Bounce
  <2>1. bounces' \in Nat /\ UNCHANGED <<held, presses>>
    <3>1. bounces' = bounces \/ bounces' = bounces + 1
      BY <1>2, Zenon DEF Bounce
    <3> QED
      BY <1>2, <3>1, Counters DEF Bounce
  <2>2. PICK closed \in BOOLEAN : Moves(closed)
    <3>1. Moves(~down)
      BY <1>2, Zenon DEF Bounce
    <3>2. (~down) \in BOOLEAN
      BY Negation, Zenon
    <3> QED
      BY <3>1, <3>2, Zenon
  <2>3. /\ down' \in BOOLEAN /\ contact' \in {"settled", "moving", "risen"}
        /\ chances' \in Nat /\ queue' \in Seq(Edges)
    <3> HIDE DEF TypeOK, ButtonTypeOK
    <3> QED
      BY <2>2, MovesType, Zenon
  <2>4. UNCHANGED <<place, process, pressed, recent, button_was_pressed, fired,
                    slips, shutdown_requested, game>>
    BY <2>2 DEF Moves
  <2> QED
    BY <2>1, <2>3, <2>4
<1>3. CASE Settle
  BY <1>3 DEF Settle
<1>4. CASE ReadEdge
  <2>1. /\ pressed' \in BOOLEAN /\ recent' \in BOOLEAN /\ button_was_pressed' \in BOOLEAN
    BY <1>4, Zenon DEF ReadEdge
  <2>2. /\ queue' \in Seq(Edges)
        /\ fired' \in Nat
    <3>1. /\ queue \in Seq(Edges)
          /\ queue # << >> /\ queue' = Tail(queue)
          /\ fired' = fired \/ fired' = Head(queue).chance
      BY <1>4 DEF ReadEdge
    <3>2. fired \in Nat
      BY Counters
    <3> HIDE DEF TypeOK, ButtonTypeOK
    <3>3. Head(queue) \in Edges /\ Tail(queue) \in Seq(Edges)
      BY <3>1
    <3> QED
      BY <3>1, <3>2, <3>3 DEF Edges
  <2>3. /\ thread' \in [Threads -> {"none", "run", "ended"}]
        /\ UNCHANGED <<main, exit, should_exit, handler, open, running, held, down,
                       contact, presses, bounces, chances, slips,
                       shutdown_requested, target, hitCount, missCount,
                       currentAnimation, aim, leds, generated>>
    BY <1>4 DEF ReadEdge, TestRunning
  <2>4. {held', down', pressed', recent', button_was_pressed'} \subseteq BOOLEAN
    BY <2>1, <2>3, Zenon
  <2> QED
    BY <2>1, <2>2, <2>3, <2>4
<1>5. CASE FiringDebounceOver
  <2>1. slips' \in Nat
    BY <1>5, Counters DEF FiringDebounceOver
  <2> QED
    BY <1>5, <2>1 DEF FiringDebounceOver
<1> QED
  BY <1>1, <1>2, <1>3, <1>4, <1>5

\* The other threads and signals keep them.
LEMMA OtherType ==
    ASSUME TypeOK,
           \/ \E t \in Threads : NoEvent(t)
           \/ ReadShutdown \/ HandleSignal \/ LcdSignalHandler
    PROVE  TypeOK'
<1> USE DEF TypeOK, Startup, Loop, Cleanup,
            place, process, input, game
<1>1. ASSUME NEW t \in Threads, NoEvent(t)
      PROVE  TypeOK'
  <2>1. thread' \in [Threads -> {"none", "run", "ended"}]
    BY <1>1 DEF NoEvent, TestRunning
  <2> QED
    BY <1>1, <2>1, KeepsButton DEF NoEvent
<1>2. CASE ReadShutdown
  <2>1. thread' \in [Threads -> {"none", "run", "ended"}]
    BY <1>2 DEF ReadShutdown, TestRunning
  <2> QED
    BY <1>2, <2>1, KeepsButton DEF ReadShutdown
<1>3. CASE HandleSignal \/ LcdSignalHandler
  BY <1>3, KeepsButton DEF HandleSignal, LcdSignalHandler, GoTo
<1> QED
  BY <1>1, <1>2, <1>3

\* All steps keep them.
LEMMA StepType ==
    ASSUME TypeOK, [Next]_vars
    PROVE  TypeOK'
<1>1. CASE UNCHANGED vars
  BY <1>1, KeepsButton DEF vars, place, process, input, game, TypeOK
<1> QED
  BY <1>1, MainType, PlayType, ButtonType, OtherType DEF Next, ThreadStep, Ended

\* Every reachable state of the game is well typed; with it goes that the LEDs
\* always have one of the colours there are, whatever the thresholds.
THEOREM GameTypeOK == Spec => []TypeOK
  BY InitType, StepType, PTL DEF Spec

------------------------------------------------------------------------------
(* Nothing is used closed.                                                 *)

\* The initial states satisfy what is said of open resources.
LEMMA InitOpen == Init => OpenInv
  BY DEF Init, OpenInv, ThreadsAreCovered, MainIsCovered, Threads, Alive

\* main's steps keep it: each starts or ends what its place says.
LEMMA MainOpen ==
    ASSUME TypeOK, OpenInv, MainStep
    PROVE  OpenInv'
<1> USE DEF OpenInv, ThreadsAreCovered, MainIsCovered, Threads, Resource, Alive,
            GoTo, Fails, place, process
<1>0. thread \in [Threads -> {"none", "run", "ended"}]
  BY DEF TypeOK
<1>1. CASE GpioInitialize
  BY <1>1 DEF GpioInitialize
<1>2. CASE TakeSignal
  BY <1>2 DEF TakeSignal
<1>3. CASE LcdInit
  BY <1>3 DEF LcdInit
<1>4. CASE InitThread("accel", "i2c", "firing", "stop lcd")
  BY <1>0, <1>4 DEF InitThread, Starts
<1>5. CASE InitThread("firing", "firing line", "shutdown", "stop accel")
  BY <1>0, <1>5 DEF InitThread, Starts
<1>6. CASE InitThread("shutdown", "shutdown line", "memory", "stop firing")
  BY <1>6 DEF InitThread, Starts
<1>7. CASE MemoryInit
  BY <1>7 DEF MemoryInit
<1>8. CASE TargetGameInit \/ TestExit \/ AskShutdown \/ TurnOff
  BY <1>8 DEF TargetGameInit, TestExit, AskShutdown, TurnOff
<1>9. ASSUME NEW at \in Pointings, NEW over \in BOOLEAN, Play(at, over)
      PROVE  OpenInv'
  BY <1>9 DEF Play
<1>10. CASE MemoryCleanup \/ LcdCleanup \/ GpioCleanup
  BY <1>10 DEF MemoryCleanup, LcdCleanup, GpioCleanup
<1>11. CASE \/ StopThread("shutdown", "stop shutdown", "join shutdown")
            \/ StopThread("firing", "stop firing", "join firing")
            \/ StopThread("accel", "stop accel", "join accel")
  BY <1>11 DEF StopThread
<1>12. CASE \/ JoinThread("shutdown", "shutdown line", "join shutdown", "stop firing")
            \/ JoinThread("firing", "firing line", "join firing", "stop accel")
            \/ JoinThread("accel", "i2c", "join accel", "stop lcd")
  BY <1>12 DEF JoinThread, Joined
<1> QED
  BY <1>1, <1>2, <1>3, <1>4, <1>5, <1>6, <1>7, <1>8, <1>9, <1>10, <1>11, <1>12
  DEF MainStep

\* The others keep it: a thread goes on only if it was running.
LEMMA StepOpen ==
    ASSUME TypeOK, OpenInv, [Next]_vars
    PROVE  OpenInv'
<1> USE DEF OpenInv, ThreadsAreCovered, MainIsCovered, place, process
<1>1. ASSUME NEW t \in Threads, NoEvent(t)
      PROVE  OpenInv'
  BY <1>1 DEF NoEvent, WaitEnds, TestRunning, TypeOK
<1>2. CASE ReadEdge
  BY <1>2 DEF ReadEdge, TestRunning, TypeOK, Threads
<1>3. CASE ReadShutdown
  BY <1>3 DEF ReadShutdown, WaitEnds, TestRunning, TypeOK, Threads
<1>4. CASE \/ Finger \/ Bounce \/ Settle \/ FiringDebounceOver
           \/ HandleSignal \/ LcdSignalHandler \/ Ended
  BY <1>4 DEF Finger, Bounce, Moves, Settle, FiringDebounceOver, HandleSignal, LcdSignalHandler, Ended, GoTo, vars
<1>5. CASE UNCHANGED vars
  BY <1>5 DEF vars
<1> QED
  BY <1>1, <1>2, <1>3, <1>4, <1>5, MainOpen DEF Next, ThreadStep

\* Neither main nor a thread uses anything before it is open or after it is
\* closed, whichever component failed to start and whoever asked for the end.
THEOREM GameUsesNothingClosed == Spec => []NothingUsedClosed
<1>1. OpenInv => NothingUsedClosed
  BY DEF OpenInv, ThreadsAreCovered, MainIsCovered, NothingUsedClosed, Threads,
         Resource, Alive, Uses
<1> QED
  BY InitType, StepType, InitOpen, StepOpen, <1>1, PTL DEF Spec

------------------------------------------------------------------------------
(* What is scored is earned.                                               *)

\* What has been fired is a number.
LEMMA ShotsType == (TypeOK => Shots \in Nat) /\ (TypeOK' => Shots' \in Nat)
<1>1. ASSUME NEW h \in Nat, NEW m \in Nat, NEW b
      PROVE  h + m + (IF b THEN 1 ELSE 0) \in Nat
  OBVIOUS
<1> QED
  BY <1>1 DEF Shots, TypeOK, ButtonTypeOK

\* Nothing is fired or waits to be at first.
LEMMA InitScore == Init => ScoreInv
<1> SUFFICES ASSUME Init
             PROVE  ScoreInv
  OBVIOUS
<1>1. /\ queue = << >> /\ Len(queue) = 0 /\ fired = 0 /\ chances = 0 /\ slips = 0
      /\ contact = "settled" /\ Shots = 0 /\ generated = 0 /\ hitCount = 0
      /\ currentAnimation = "none" /\ ToCome <= 2 * presses /\ ToCome \in Nat
  BY DEF Init, Shots, ToCome
<1>2. 1 .. Len(queue) = {}
  BY <1>1
<1>3. ChancesInOrder /\ ~Pending
  BY <1>1, <1>2 DEF ChancesInOrder, Pending
<1> QED
  BY <1>1, <1>3 DEF ScoreInv, ButtonInv, ShotsCovered, ChancesFromPresses, HitsCover

\* What bounds a count bounds a lower one.
LEMMA NoMore ==
    ASSUME NEW a \in Nat, NEW b \in Nat, NEW c \in Nat, b <= a
    PROVE  (a <= c => b <= c) /\ (a + 1 <= c => b + 1 <= c)
  OBVIOUS

\* The button's counts agree as long as it stands still and no shot is added.
LEMMA StillCovered ==
    ASSUME TypeOK, TypeOK', ButtonInv, UNCHANGED <<line, recent, counts>>, Shots' <= Shots
    PROVE  ButtonInv'
<1>1. /\ UNCHANGED <<held, contact, queue, presses, chances, fired, slips>>
  BY DEF line, counts
<1>r. recent' <=> recent
  OBVIOUS
<1>2. ChancesInOrder' /\ ChancesFromPresses' /\ (Pending' <=> Pending)
  BY <1>1, <1>r DEF ButtonInv, ChancesInOrder, ChancesFromPresses, ToCome, Pending
<1>3. Shots \in Nat /\ Shots' \in Nat /\ fired \in Nat /\ slips \in Nat
  BY Counters, ShotsType
<1> HIDE DEF Shots
<1>4. /\ Shots <= fired + slips => Shots' <= fired' + slips'
      /\ Shots + 1 <= fired + slips => Shots' + 1 <= fired' + slips'
  <2>1. fired' + slips' = fired + slips /\ fired + slips \in Nat
    BY <1>1, <1>3
  <2> QED
    BY <1>3, <2>1, NoMore, Zenon
<1> QED
  BY <1>r, <1>2, <1>4, Zenon DEF ButtonInv, ShotsCovered

\* A move of the contact brings a chance of its own, or an edge of one that is
\* not over, behind those in the queue.
LEMMA MovesCovered ==
    ASSUME TypeOK, TypeOK', ButtonInv, NEW closed \in BOOLEAN, Moves(closed)
    PROVE  ChancesInOrder' /\ ShotsCovered'
<1> DEFINE n == Len(queue)
           e == [edge |-> IF closed THEN "falling" ELSE "rising", chance |-> chances']
<1>1. /\ chances' \in Nat /\ chances \in Nat /\ fired \in Nat /\ slips \in Nat
      /\ chances <= chances' /\ UNCHANGED <<fired, slips, recent>>
      /\ contact' = "risen" /\ contact # "risen" => chances < chances'
  <2>1. /\ chances' = chances \/ chances' = chances + 1
        /\ contact' = "risen" /\ contact # "risen" => chances' = chances + 1
    <3>1. CASE closed
      BY <3>1 DEF Moves
    <3>2. CASE ~closed
      BY <3>2 DEF Moves
    <3> QED
      BY <3>1, <3>2
  <2>2. UNCHANGED <<fired, slips, recent>> /\ chances \in Nat
    BY Counters DEF Moves
  <2> QED
    BY <2>1, <2>2, Counters
<1>2. Shots' = Shots /\ Shots \in Nat
  BY ShotsType DEF Moves, game, Shots
<1>3. /\ fired <= chances
      /\ \A i \in 1 .. n : fired <= queue[i].chance /\ queue[i].chance <= chances
      /\ \A i, j \in 1 .. n : i <= j => queue[i].chance <= queue[j].chance
      /\ ~recent /\ fired = chances => contact # "risen"
  BY DEF ButtonInv, ChancesInOrder
<1>4. ~recent' /\ fired' = chances' => contact' # "risen"
  BY <1>1, <1>3
<1>5. n \in Nat /\ queue \in Seq(Edges)
  BY DEF TypeOK, ButtonTypeOK
<1>q. \A i \in 1 .. n : queue[i].chance \in Nat
  <2> TAKE i \in 1 .. n
  <2>1. queue[i] \in Edges
    BY <1>5
  <2> QED
    BY <2>1 DEF Edges
<1>6. CASE queue' = queue
  <2>1. ChancesInOrder'
    BY <1>1, <1>3, <1>4, <1>5, <1>6, <1>q DEF ChancesInOrder
  <2>2. Pending' <=> Pending
    BY <1>1, <1>6 DEF Pending
  <2> QED
    BY <1>1, <1>2, <2>1, <2>2 DEF ButtonInv, ShotsCovered
<1>7. CASE queue' = Append(queue, e)
  <2>1. /\ Len(queue') = n + 1 /\ queue'[n + 1] = e
        /\ \A i \in 1 .. n : queue'[i] = queue[i]
    BY <1>5, <1>7
  <2>2. /\ e.chance = chances' /\ (e.edge = "rising" => contact' = "risen")
    BY DEF Moves
  <2> HIDE DEF e, n
  <2>3. \A i \in 1 .. n + 1 : fired' <= queue'[i].chance /\ queue'[i].chance <= chances'
    <3>1. \A i \in 1 .. n : fired' <= queue'[i].chance /\ queue'[i].chance <= chances'
      BY <1>1, <1>3, <1>5, <1>q, <2>1
    <3>2. fired' <= queue'[n + 1].chance /\ queue'[n + 1].chance <= chances'
      BY <1>1, <1>3, <2>1, <2>2
    <3> QED
      BY <1>5, <3>1, <3>2
  <2>4. \A i, j \in 1 .. n + 1 : i <= j => queue'[i].chance <= queue'[j].chance
    <3> TAKE i, j \in 1 .. n + 1
    <3>1. CASE j = n + 1
      BY <1>1, <2>1, <2>2, <2>3, <3>1
    <3>2. CASE j \in 1 .. n
      BY <1>3, <1>5, <2>1, <3>2
    <3> QED
      BY <1>5, <3>1, <3>2
  <2>5. fired' <= chances'
    BY <1>1, <1>3
  <2>6. ChancesInOrder'
    BY <1>4, <2>1, <2>3, <2>4, <2>5 DEF ChancesInOrder
  <2>7. ~recent' /\ Pending' => Pending
    <3> SUFFICES ASSUME ~recent', Pending'
                 PROVE  Pending
      OBVIOUS
    <3>1. PICK i \in 1 .. n + 1 : queue'[i].edge = "rising" /\ queue'[i].chance = fired'
      BY <2>1 DEF Pending
    <3>2. i # n + 1
      BY <1>1, <1>4, <2>1, <2>2, <3>1
    <3> QED
      BY <1>1, <1>5, <2>1, <3>1, <3>2 DEF Pending, n
  <2> QED
    BY <1>1, <1>2, <2>6, <2>7 DEF ButtonInv, ShotsCovered
<1> QED
  BY <1>6, <1>7 DEF Moves

\* Finger and contact keep the counts covered: a press brings two chances.
LEMMA ContactCovered ==
    ASSUME TypeOK, TypeOK', ButtonInv, Finger \/ Bounce \/ Settle
    PROVE  ButtonInv'
<1>1. /\ chances \in Nat /\ chances' \in Nat /\ presses \in Nat /\ presses' \in Nat
      /\ fired \in Nat /\ slips \in Nat
  BY Counters DEF TypeOK, ButtonTypeOK
<1>2. CASE Finger
  <2>1. PICK closed \in BOOLEAN : Moves(closed) /\ (closed <=> ~held)
    <3>1. Moves(~held)
      BY <1>2, Zenon DEF Finger
    <3>2. (~held) \in BOOLEAN
      BY Negation, Zenon
    <3> QED
      BY <3>1, <3>2, Zenon
  <2>2. /\ contact = "settled" /\ (held' <=> ~held)
        /\ presses' = IF held THEN presses ELSE presses + 1
    BY <1>2, Zenon DEF Finger
  <2>3. ASSUME held
        PROVE  ChancesFromPresses'
    <3>1. ~closed /\ ~held' /\ presses' = presses
      BY <2>1, <2>2, <2>3
    <3>2. chances' = chances + 1 /\ contact' = "risen"
      BY <2>1, <2>2, <3>1 DEF Moves
    <3>3. ToCome = 1 /\ ToCome' = 0 /\ chances + ToCome <= 2 * presses
      BY <2>2, <2>3, <3>1 DEF ToCome, ButtonInv, ChancesFromPresses
    <3> QED
      BY <1>1, <3>1, <3>2, <3>3 DEF ChancesFromPresses
  <2>4. ASSUME ~held
        PROVE  ChancesFromPresses'
    <3>1. closed /\ held' /\ presses' = presses + 1
      BY <2>1, <2>2, <2>4
    <3>2. chances' = chances /\ contact' = "moving"
      BY <2>1, <2>2, <3>1 DEF Moves
    <3>3. ToCome = 0 /\ ToCome' = 2 /\ chances + ToCome <= 2 * presses
      BY <2>4, <3>1, <3>2 DEF ToCome, ButtonInv, ChancesFromPresses
    <3> QED
      BY <1>1, <3>1, <3>2, <3>3 DEF ChancesFromPresses
  <2> QED
    BY <2>1, <2>3, <2>4, MovesCovered DEF ButtonInv
<1>3. CASE Bounce
  <2>1. PICK closed \in BOOLEAN : Moves(closed)
    <3>1. Moves(~down)
      BY <1>3, Zenon DEF Bounce
    <3>2. (~down) \in BOOLEAN
      BY Negation, Zenon
    <3> QED
      BY <3>1, <3>2, Zenon
  <2>2. contact # "settled" /\ (held' <=> held) /\ presses' = presses
    BY <1>3, Zenon DEF Bounce
  <2>3. contact \in {"moving", "risen"}
    BY <2>2 DEF TypeOK, ButtonTypeOK
  <2>4. ChancesFromPresses'
    <3>1. (contact = "moving" => held) /\ chances + ToCome <= 2 * presses
      BY DEF ButtonInv, ChancesFromPresses
    <3>2. CASE contact = "moving" /\ ~closed
      <4>1. chances' = chances + 1 /\ contact' = "risen"
        BY <2>1, <3>2 DEF Moves
      <4>2. ToCome = 2 /\ ToCome' = 1
        BY <2>2, <3>1, <3>2, <4>1 DEF ToCome
      <4> QED
        BY <1>1, <2>2, <3>1, <4>1, <4>2 DEF ChancesFromPresses
    <3>3. CASE contact = "risen" \/ closed
      <4>1. chances' = chances /\ contact' = contact
        BY <2>1, <2>2, <3>3 DEF Moves
      <4>2. ToCome' = ToCome
        BY <2>2, <4>1 DEF ToCome
      <4> QED
        BY <2>2, <3>1, <4>1, <4>2 DEF ChancesFromPresses
    <3> QED
      BY <2>3, <3>2, <3>3
  <2> QED
    BY <2>1, <2>4, MovesCovered DEF ButtonInv
<1>4. CASE Settle
  <2>1. /\ UNCHANGED <<held, queue, recent, presses, chances, fired, slips>>
        /\ contact' = "settled" /\ Shots' = Shots
    BY <1>4 DEF Settle, counts, game, Shots
  <2>2. ChancesInOrder' /\ (Pending' <=> Pending)
    BY <2>1 DEF ButtonInv, ChancesInOrder, Pending
  <2>3. ChancesFromPresses'
    BY <1>1, <2>1 DEF ButtonInv, ChancesFromPresses, ToCome
  <2> QED
    BY <2>1, <2>2, <2>3 DEF ButtonInv, ShotsCovered
<1> QED
  BY <1>2, <1>3, <1>4

\* A shot is fired for a chance newer than the last, or for an edge that slipped.
LEMMA ReadCovered ==
    ASSUME TypeOK, TypeOK', ButtonInv, ReadEdge
    PROVE  ButtonInv'
<1> DEFINE n == Len(queue)
           e == Head(queue)
<1>1. n \in Nat /\ n >= 1 /\ queue \in Seq(Edges)
  BY DEF TypeOK, ButtonTypeOK, ReadEdge
<1>2. /\ Len(queue') = n - 1 /\ e = queue[1] /\ e.chance \in Nat
      /\ \A i \in 1 .. n - 1 : queue'[i] = queue[i + 1]
  <2>1. Head(queue) \in Edges /\ Head(queue) = queue[1]
    BY <1>1
  <2>2. /\ Len(queue') = n - 1
        /\ \A i \in 1 .. n - 1 : queue'[i] = queue[i + 1]
    BY <1>1 DEF ReadEdge
  <2> QED
    BY <2>1, <2>2 DEF Edges
<1>3. /\ UNCHANGED <<held, contact, presses, chances, slips, hitCount, missCount>>
      /\ fired' = IF Accepted(e) THEN e.chance ELSE fired
      /\ (Accepted(e) => ~recent /\ e.edge = "rising")
      /\ (recent' <=> recent \/ Accepted(e))
      /\ (button_was_pressed' => button_was_pressed \/ Accepted(e))
  BY DEF ReadEdge, Accepted, Released, game
<1>4. /\ fired <= chances
      /\ \A i \in 1 .. n : fired <= queue[i].chance /\ queue[i].chance <= chances
      /\ \A i, j \in 1 .. n : i <= j => queue[i].chance <= queue[j].chance
      /\ ~recent /\ fired = chances => contact # "risen"
  BY DEF ButtonInv, ChancesInOrder
<1>5. /\ fired \in Nat /\ slips \in Nat /\ chances \in Nat /\ Shots \in Nat /\ Shots' \in Nat
  BY Counters, ShotsType
<1>6. \A i \in 1 .. n - 1 : i + 1 \in 1 .. n /\ 1 <= i + 1
  BY <1>1
<1> HIDE DEF n, e
<1>7. ChancesFromPresses'
  BY <1>3 DEF ButtonInv, ChancesFromPresses, ToCome
<1>8. ChancesInOrder'
  <2>1. fired <= e.chance /\ e.chance <= chances
    BY <1>1, <1>2, <1>4
  <2>2. \A i \in 1 .. n - 1 : fired' <= queue'[i].chance /\ queue'[i].chance <= chances'
    <3> TAKE i \in 1 .. n - 1
    <3>1. queue'[i] = queue[i + 1] /\ i + 1 \in 1 .. n /\ 1 \in 1 .. n /\ 1 <= i + 1
      BY <1>1, <1>2, <1>6
    <3> QED
      BY <1>2, <1>3, <1>4, <3>1
  <2>3. \A i, j \in 1 .. n - 1 : i <= j => queue'[i].chance <= queue'[j].chance
    <3> TAKE i, j \in 1 .. n - 1
    <3>1. queue'[i] = queue[i + 1] /\ queue'[j] = queue[j + 1] /\ (i <= j => i + 1 <= j + 1)
      BY <1>2
    <3> QED
      BY <1>4, <1>6, <3>1
  <2>4. fired' <= chances' /\ (~recent' /\ fired' = chances' => contact' # "risen")
    BY <1>3, <1>4, <2>1
  <2> QED
    BY <1>2, <2>2, <2>3, <2>4 DEF ChancesInOrder
<1>9. ShotsCovered'
  <2>1. CASE ~Accepted(e)
    <3>1. Shots' <= Shots
      BY <1>3, <2>1, Counters DEF Shots
    <3>2. Pending' => Pending
      <4> SUFFICES ASSUME Pending'
                   PROVE  Pending
        OBVIOUS
      <4>1. PICK i \in 1 .. n - 1 : queue'[i].edge = "rising" /\ queue'[i].chance = fired
        BY <1>2, <1>3, <2>1 DEF Pending
      <4>2. i + 1 \in 1 .. n /\ queue'[i] = queue[i + 1]
        BY <1>2, <1>6
      <4> QED
        BY <4>1, <4>2 DEF Pending, n
    <3> QED
      <4>1. fired' = fired /\ slips' = slips /\ (recent' <=> recent)
        BY <1>3, <2>1
      <4>2. /\ Shots <= fired + slips => Shots' <= fired' + slips'
            /\ Shots + 1 <= fired + slips => Shots' + 1 <= fired' + slips'
        <5>1. fired' + slips' = fired + slips /\ fired + slips \in Nat
          BY <1>5, <4>1
        <5> QED
          BY <1>5, <3>1, <5>1, NoMore, Zenon
      <4> QED
        BY <3>2, <4>1, <4>2, Zenon DEF ButtonInv, ShotsCovered
  <2>2. CASE Accepted(e)
    <3>1. Shots' <= Shots + 1
      BY <1>3, Counters DEF Shots
    <3>2. fired' = e.chance /\ recent' /\ ~recent /\ fired <= e.chance
      BY <1>1, <1>2, <1>3, <1>4, <2>2
    <3>3. CASE e.chance = fired
      <4>1. Pending
        BY <1>1, <1>2, <1>3, <2>2, <3>3 DEF Pending, n
      <4> QED
        BY <1>3, <1>5, <3>1, <3>2, <3>3, <4>1 DEF ButtonInv, ShotsCovered
    <3>4. CASE e.chance # fired
      BY <1>2, <1>3, <1>5, <3>1, <3>2, <3>4 DEF ButtonInv, ShotsCovered
    <3> QED
      BY <3>3, <3>4
  <2> QED
    BY <2>1, <2>2
<1> QED
  BY <1>7, <1>8, <1>9 DEF ButtonInv

\* When the debounce time is over an edge of the last chance has slipped.
LEMMA DebounceCovered ==
    ASSUME TypeOK, TypeOK', ButtonInv, FiringDebounceOver
    PROVE  ButtonInv'
<1>1. /\ UNCHANGED <<held, contact, queue, presses, chances, fired>>
      /\ slips' = IF Pending THEN slips + 1 ELSE slips
      /\ ~(contact = "risen" /\ fired = chances)
  BY DEF FiringDebounceOver, line
<1>2. Shots' = Shots /\ Shots \in Nat /\ fired \in Nat /\ slips \in Nat
  BY Counters, ShotsType DEF FiringDebounceOver, game, Shots
<1>3. ChancesInOrder' /\ ChancesFromPresses' /\ (Pending' <=> Pending)
  BY <1>1 DEF ButtonInv, ChancesInOrder, ChancesFromPresses, ToCome, Pending
<1> QED
  BY <1>1, <1>2, <1>3 DEF ButtonInv, ShotsCovered

\* A shot uses up what the button had set, and a hit makes one new target.
LEMMA PlayScore ==
    ASSUME TypeOK, TypeOK', ScoreInv, NEW at \in Pointings, NEW over \in BOOLEAN, Play(at, over)
    PROVE  ScoreInv'
<1>1. /\ hitCount \in Nat /\ missCount \in Nat /\ generated \in Nat
      /\ hitCount' \in Nat /\ generated' \in Nat
  BY Counters DEF TypeOK
<1>2. PICK anim \in {"none", "hit", "miss"} :
        /\ Render(anim, at, over)
        /\ hitCount' + missCount' = Shots
        /\ generated <= hitCount' + 1
        /\ anim = "hit" => generated <= hitCount'
  <2>1. CASE button_was_pressed
    <3>1. /\ Render(Fire(at).anim, at, over)
          /\ hitCount' = Fire(at).hits /\ missCount' = Fire(at).misses
      BY <2>1 DEF Play
    <3>2. hitCount' + missCount' = Shots
      BY <1>1, <2>1, <3>1, FireType DEF Shots
    <3>3. generated <= hitCount + 1
      BY <1>1 DEF ScoreInv, HitsCover
    <3>4. /\ Fire(at).anim \in {"hit", "miss"}
          /\ hitCount' = hitCount + (IF Fire(at).anim = "hit" THEN 1 ELSE 0)
      BY <3>1, FireType
    <3>5. /\ generated <= hitCount' + 1
          /\ Fire(at).anim = "hit" => generated <= hitCount'
      BY <1>1, <3>3, <3>4
    <3> QED
      BY <3>1, <3>2, <3>4, <3>5
  <2>2. CASE ~button_was_pressed
    <3>1. /\ Render(currentAnimation, at, over)
          /\ hitCount' = hitCount /\ missCount' = missCount
      BY <2>2 DEF Play
    <3>2. hitCount' + missCount' = Shots
      BY <1>1, <2>2, <3>1 DEF Shots
    <3>3. currentAnimation \in {"none", "hit", "miss"}
      BY DEF TypeOK
    <3> QED
      BY <3>1, <3>2, <3>3 DEF ScoreInv, HitsCover
  <2> QED
    BY <2>1, <2>2
<1>3. /\ generated' <= hitCount' + 1
      /\ currentAnimation' = "hit" => generated' <= hitCount'
  <2>1. CASE anim # "none" /\ ~over
    BY <1>2, <2>1 DEF Render
  <2>2. CASE ~(anim # "none" /\ ~over)
    <3>1. /\ currentAnimation' = "none"
          /\ anim = "hit" => generated' = generated + 1
          /\ anim # "hit" => generated' = generated
      BY <1>2, <2>2 DEF Render, Replaces
    <3>2. generated' <= hitCount' + 1
      <4>1. ASSUME NEW g \in Nat, NEW h \in Nat, g <= h
            PROVE  g + 1 <= h + 1
        BY <4>1
      <4>2. CASE anim = "hit"
        BY <1>1, <1>2, <3>1, <4>1, <4>2, Zenon
      <4>3. CASE anim # "hit"
        BY <1>2, <3>1, <4>3, Zenon
      <4> QED
        BY <4>2, <4>3
    <3> QED
      BY <3>1, <3>2
  <2> QED
    BY <2>1, <2>2
<1>4. HitsCover'
  BY <1>3 DEF Play, GoTo, HitsCover, Startup
<1>5. Shots' <= Shots
  <2>1. ~button_was_pressed'
    BY DEF Play
  <2>2. Shots \in Nat
    BY ShotsType
  <2>3. hitCount' + missCount' \in Nat
    BY <1>2, <2>2
  <2> QED
    BY <1>2, <2>1, <2>2, <2>3 DEF Shots
<1>6. ButtonInv'
  <2>1. UNCHANGED <<line, recent, counts>>
    BY DEF Play
  <2> QED
    BY <1>5, <2>1, StillCovered DEF ScoreInv
<1> QED
  BY <1>4, <1>6 DEF ScoreInv

\* Elsewhere main scores nothing; the first target comes before the loop.
LEMMA MainScore ==
    ASSUME TypeOK, TypeOK', ScoreInv, MainStep,
           ~\E at \in Pointings, over \in BOOLEAN : Play(at, over)
    PROVE  ScoreInv'
<1> USE DEF place, process, line, counts, button, input, game
<1>1. /\ UNCHANGED <<line, recent, counts, button_was_pressed,
                     hitCount, missCount, currentAnimation>>
      /\ main' \in Startup => main \in Startup
      /\ generated' = generated \/ (main = "game" /\ generated' = 1)
  BY DEF MainStep, GpioInitialize, TakeSignal, LcdInit, InitThread, Starts, Fails, GoTo,
         MemoryInit, TargetGameInit, TestExit, AskShutdown, TurnOff, MemoryCleanup,
         StopThread, JoinThread, LcdCleanup, GpioCleanup, Startup
<1>2. ButtonInv'
  <2>1. Shots' = Shots /\ Shots \in Nat
    BY <1>1, ShotsType DEF Shots
  <2> QED
    BY <1>1, <2>1, StillCovered DEF ScoreInv
<1>3. HitsCover'
  <2>1. hitCount \in Nat /\ generated \in Nat
    BY Counters
  <2>2. main = "game" => currentAnimation = "none"
    BY DEF ScoreInv, HitsCover, Startup
  <2> QED
    BY <1>1, <2>1, <2>2 DEF ScoreInv, HitsCover
<1> QED
  BY <1>2, <1>3 DEF ScoreInv

\* Threads, button and signals: only the button touches its counts.
LEMMA InputScore ==
    ASSUME TypeOK, TypeOK', ScoreInv,
           \/ \E t \in Threads : NoEvent(t)
           \/ ReadEdge \/ Finger \/ Bounce \/ Settle \/ ReadShutdown \/ FiringDebounceOver
           \/ HandleSignal \/ LcdSignalHandler
    PROVE  ScoreInv'
<1>1. HitsCover'
  <2>1. UNCHANGED <<hitCount, generated, currentAnimation>> /\ (main' \in Startup => main \in Startup)
    BY DEF NoEvent, ReadEdge, Finger, Bounce, Moves, Settle, ReadShutdown,
           FiringDebounceOver, HandleSignal, LcdSignalHandler, GoTo, Startup, place, game
  <2> QED
    BY <2>1 DEF ScoreInv, HitsCover
<1>2. CASE \/ \E t \in Threads : NoEvent(t)
           \/ ReadShutdown \/ HandleSignal \/ LcdSignalHandler
  <2>1. UNCHANGED <<line, recent, counts, button_was_pressed, hitCount, missCount>>
    BY <1>2 DEF NoEvent, ReadShutdown, HandleSignal, LcdSignalHandler, input, button, game
  <2>2. Shots' = Shots /\ Shots \in Nat
    BY <2>1, ShotsType DEF Shots
  <2> QED
    BY <1>1, <2>1, <2>2, StillCovered DEF ScoreInv
<1> QED
  BY <1>1, <1>2, ContactCovered, ReadCovered, DebounceCovered DEF ScoreInv

\* Every step keeps both counts covered.
LEMMA StepScore ==
    ASSUME TypeOK, TypeOK', ScoreInv, [Next]_vars
    PROVE  ScoreInv'
<1>1. CASE UNCHANGED vars
  <2>1. UNCHANGED <<main, line, recent, counts, button_was_pressed, hitCount, missCount,
                    currentAnimation, generated>>
    BY <1>1 DEF vars, place, button, input, game
  <2>2. Shots' = Shots /\ Shots \in Nat
    BY <2>1, ShotsType DEF Shots
  <2> QED
    BY <2>1, <2>2, StillCovered DEF ScoreInv, HitsCover
<1> QED
  BY <1>1, MainScore, PlayScore, InputScore DEF Next, ThreadStep, Ended

\* However many edges bounce, queue up or get lost, a move of the button's
\* contact fires once at most and a press twice at most, but for the edges of a
\* chance taken that the thread reads when the debounce time is over; and no
\* target gives way without a hit.
THEOREM GameScoreIsEarned == Spec => []ScoreIsEarned
<1>1. TypeOK /\ ScoreInv => ScoreIsEarned
  <2> SUFFICES ASSUME TypeOK, ScoreInv
               PROVE  ScoreIsEarned
    OBVIOUS
  <2>1. /\ Shots <= fired + slips /\ fired <= chances
        /\ chances + ToCome <= 2 * presses /\ ToCome \in {0, 1, 2}
    BY DEF ScoreInv, ButtonInv, ShotsCovered, ChancesInOrder, ChancesFromPresses, ToCome
  <2>2. Shots <= chances + slips /\ Shots <= 2 * presses + slips
    <3> HIDE DEF Shots, ToCome
    <3> QED
      BY <2>1, ShotsType, Counters
  <2>3. generated <= hitCount + 1
    BY Counters DEF ScoreInv, HitsCover
  <2> QED
    BY <2>2, <2>3 DEF ScoreIsEarned
<1> QED
  BY InitType, StepType, InitScore, StepScore, <1>1, PTL DEF Spec

------------------------------------------------------------------------------
(* The LEDs point the way.                                                 *)

\* Beyond the first threshold an offset has a band of its sign; within it none.
LEMMA BandSign ==
    ASSUME NEW d \in Int
    PROVE  /\ Abs(d) <= T1 => Band(d) = 0
           /\ d > T1 => Band(d) \in 1 .. 5
           /\ d < -T1 => Band(d) \in {-5, -4, -3, -2, -1}
<1> DEFINE Thresholds == {T1, T2, T3, T4, T5}
           Beyond == {t \in Thresholds : Abs(d) > t}
<1>1. T1 \in Nat /\ Abs(d) \in Int /\ \A t \in Thresholds : t \in Nat /\ t >= T1
  BY GameAssumption DEF Abs
<1>2. IsFiniteSet(Thresholds) /\ Cardinality(Thresholds) <= 5
  <2>1. IsFiniteSet({T1}) /\ Cardinality({T1}) = 1
    BY FS_Singleton
  <2>2. IsFiniteSet({T1} \cup {T2}) /\ Cardinality({T1} \cup {T2}) \in 0 .. 2
    BY <2>1, FS_AddElement
  <2>3. /\ IsFiniteSet({T1} \cup {T2} \cup {T3})
        /\ Cardinality({T1} \cup {T2} \cup {T3}) \in 0 .. 3
    BY <2>2, FS_AddElement
  <2>4. /\ IsFiniteSet({T1} \cup {T2} \cup {T3} \cup {T4})
        /\ Cardinality({T1} \cup {T2} \cup {T3} \cup {T4}) \in 0 .. 4
    BY <2>3, FS_AddElement
  <2>5. /\ IsFiniteSet({T1} \cup {T2} \cup {T3} \cup {T4} \cup {T5})
        /\ Cardinality({T1} \cup {T2} \cup {T3} \cup {T4} \cup {T5}) \in 0 .. 5
    BY <2>4, FS_AddElement
  <2>6. Thresholds = {T1} \cup {T2} \cup {T3} \cup {T4} \cup {T5}
    OBVIOUS
  <2> QED
    BY <2>5, <2>6
<1>3. Band(d) = IF d < 0 THEN -Cardinality(Beyond) ELSE Cardinality(Beyond)
  BY DEF Band
<1> HIDE DEF Thresholds
<1>4. Beyond \in SUBSET Thresholds
  OBVIOUS
<1>5. /\ IsFiniteSet(Beyond) /\ Cardinality(Beyond) \in Nat /\ Cardinality(Beyond) <= 5
  <2>1. IsFiniteSet(Beyond) /\ Cardinality(Beyond) <= Cardinality(Thresholds)
    BY <1>2, <1>4, FS_Subset
  <2>2. Cardinality(Beyond) \in Nat /\ Cardinality(Thresholds) \in Nat
    BY <1>2, <2>1, FS_CardinalityType
  <2> HIDE DEF Beyond
  <2> QED
    BY <1>2, <2>1, <2>2
<1>6. Abs(d) <= T1 => Beyond = {}
  BY <1>1
<1>7. Abs(d) > T1 => Beyond # {}
  BY DEF Thresholds
<1> HIDE DEF Beyond
<1>8. Cardinality(Beyond) = 0 <=> Beyond = {}
  BY <1>5, FS_EmptySet
<1>9. (d > T1 => Abs(d) > T1 /\ d >= 0) /\ (d < -T1 => Abs(d) > T1 /\ d < 0)
  BY <1>1 DEF Abs
<1> QED
  BY <1>3, <1>5, <1>6, <1>7, <1>8, <1>9

\* A bright LED of a shape lies in the half its band is for, and others do not
\* shine.
LEMMA ShapeSide ==
    ASSUME NEW d \in Int, ~(Abs(d) < T1)
    PROVE  /\ \A i \in Shape(Band(d)).bright :
                  i \in Leds /\ (IF 2 * i >= NEO_NUM_LEDS THEN d < -T1 ELSE d > T1)
           /\ \E i \in Leds : i \notin Shape(Band(d)).bright
<1> DEFINE b == Band(d)
<1>1. /\ T1 \in Nat /\ T1 > 0 /\ NEO_NUM_LEDS \in Nat /\ NEO_NUM_LEDS >= 8
      /\ Abs(d) = T1 \/ d > T1 \/ d < -T1
      /\ ~(d > T1 /\ d < -T1)
  BY GameAssumption DEF Abs
<1>2. CASE Abs(d) = T1
  <2>1. b = 0
    BY <1>1, <1>2, BandSign
  <2> QED
    BY <1>1, <1>2, <2>1 DEF Shape, Leds
<1>3. CASE d > T1
  <2>1. b \in 1 .. 5 /\ Abs(d) # T1 /\ ~(d < -T1)
    BY <1>1, <1>3, BandSign DEF Abs
  <2> HIDE DEF b
  <2>2. Shape(b).bright \in {{2}, {3}, {0}, {}}
    BY <2>1 DEF Shape, Around
  <2>3. \A i \in Shape(b).bright : i \in {0, 2, 3}
    BY <2>2
  <2>4. 1 \in Leds /\ \A i \in {0, 2, 3} : i \in Leds /\ ~(2 * i >= NEO_NUM_LEDS)
    BY <1>1 DEF Leds
  <2> QED
    BY <1>3, <2>1, <2>3, <2>4 DEF b
<1>4. CASE d < -T1
  <2> DEFINE last == NEO_NUM_LEDS - 1
  <2>1. b \in {-5, -4, -3, -2, -1} /\ Abs(d) # T1
    BY <1>1, <1>4, BandSign DEF Abs
  <2> HIDE DEF b
  <2>2. Shape(b).bright \in {{}, {last}, {last - 1}, {last - 2}, {last - 3}}
    BY <2>1 DEF Shape, Around
  <2>3. \A i \in Shape(b).bright : i \in {last, last - 1, last - 2, last - 3}
    BY <2>2
  <2>4. /\ 0 \in Leds /\ 0 \notin {last, last - 1, last - 2, last - 3}
        /\ \A i \in {last, last - 1, last - 2, last - 3} :
               i \in Leds /\ 2 * i >= NEO_NUM_LEDS
    BY <1>1 DEF Leds
  <2> QED
    BY <1>4, <2>1, <2>3, <2>4 DEF b
<1> QED
  BY <1>1, <1>2, <1>3, <1>4

\* What the LEDs say of the target, once they say anything.
Leads ==
    Lit # {} =>
        LET dx == aim[1] - target[1]
            dy == aim[2] - target[2]
        IN  /\ \A i \in Lit : leds[i][1] = Hue(dx)
            /\ Bright = Leds <=> Abs(dy) < T1
            /\ Bright # Leds => \A i \in Bright :
                    IF 2 * i >= NEO_NUM_LEDS THEN dy < -T1 ELSE dy > T1

\* In the startup they say nothing yet.
WayInv ==
    /\ main \in Loop /\ currentAnimation = "none" => Leads
    /\ main \in Startup => leds = Dark

\* Dark LEDs say nothing.
LEMMA DarkLeads == (leds = Dark => Leads) /\ (leds' = Dark => Leads')
  BY DEF Leads, Lit, Dark, All

\* The aim is drawn for the target there is.
LEMMA PointingLeads ==
    ASSUME NEW at \in Int \X Int, target' \in Int \X Int,
           aim' = at, leds' = ProcessPointing(at)
    PROVE  Leads'
<1> DEFINE dx == DeltaX(at)
           dy == DeltaY(at)
           hue == Hue(dx)
           shape == Shape(Band(dy))
<1>1. /\ dx = aim'[1] - target'[1] /\ dy = aim'[2] - target'[2]
      /\ dx \in Int /\ dy \in Int
  BY DEF DeltaX, DeltaY
<1>2. leds' = IF Abs(dy) < T1 THEN All(<<hue, "bright">>)
              ELSE [i \in Leds |-> IF i \in shape.bright THEN <<hue, "bright">>
                                   ELSE IF i \in shape.dim THEN <<hue, "dim">> ELSE Off]
  BY DEF ProcessPointing
<1> HIDE DEF dx, dy, hue, shape
<1>3. CASE Abs(dy) < T1
  <2>1. \A i \in Leds : leds'[i] = <<hue, "bright">>
    BY <1>2, <1>3 DEF All
  <2>2. Bright' = Leds /\ Lit' \subseteq Leds
    BY <2>1 DEF Bright, Lit
  <2>3. \A i \in Lit' : leds'[i][1] = Hue(dx)
    BY <2>1, <2>2 DEF hue
  <2> QED
    BY <1>1, <1>3, <2>2, <2>3 DEF Leads
<1>4. CASE ~(Abs(dy) < T1)
  <2>1. \A i \in Leds : leds'[i] = IF i \in shape.bright THEN <<hue, "bright">>
                                   ELSE IF i \in shape.dim THEN <<hue, "dim">> ELSE Off
    BY <1>2, <1>4
  <2>2. \A i \in Lit' : leds'[i][1] = Hue(dx)
    BY <2>1 DEF Lit, hue
  <2>3. \A i \in Leds : i \in Bright' <=> i \in shape.bright
    BY <2>1 DEF Bright, Off
  <2>4. /\ \A i \in shape.bright :
              i \in Leds /\ (IF 2 * i >= NEO_NUM_LEDS THEN dy < -T1 ELSE dy > T1)
        /\ \E i \in Leds : i \notin shape.bright
    BY <1>1, <1>4, ShapeSide DEF shape
  <2>5. Bright' # Leds /\ \A i \in Bright' : i \in shape.bright
    BY <2>3, <2>4 DEF Bright
  <2> QED
    BY <1>1, <1>4, <2>2, <2>4, <2>5 DEF Leads
<1> QED
  BY <1>3, <1>4

\* An iteration draws the aim or an animation.
LEMMA PlayWay ==
    ASSUME TypeOK, TypeOK', NEW at \in Pointings, NEW over \in BOOLEAN, Play(at, over)
    PROVE  WayInv'
<1>1. PICK anim : Render(anim, at, over)
  BY DEF Play
<1>2. aim' = at /\ main' = "test" /\ at \in Int \X Int /\ target' \in Int \X Int
  BY GameAssumption DEF Play, GoTo, TypeOK
<1>3. CASE anim # "none" /\ ~over
  <2>1. currentAnimation' # "none"
    BY <1>1, <1>3 DEF Render
  <2> QED
    BY <1>2, <2>1 DEF WayInv, Startup
<1>4. CASE ~(anim # "none" /\ ~over)
  <2>1. leds' = ProcessPointing(at)
    BY <1>1, <1>4 DEF Render
  <2> QED
    BY <1>2, <2>1, PointingLeads DEF WayInv, Startup
<1> QED
  BY <1>3, <1>4

\* Every step keeps what the LEDs say true.
LEMMA StepWay ==
    ASSUME TypeOK, TypeOK', WayInv, [Next]_vars
    PROVE  WayInv'
<1> USE DEF place, process, line, counts, button, input, game, vars
<1>1. CASE \E at \in Pointings, over \in BOOLEAN : Play(at, over)
  BY <1>1, PlayWay
<1>2. CASE TargetGameInit
  <2>1. leds' = Dark /\ main' = "test"
    BY <1>2 DEF TargetGameInit, GoTo, WayInv, Startup
  <2> QED
    BY <2>1, DarkLeads DEF WayInv, Startup
<1>3. CASE TurnOff
  BY <1>3 DEF TurnOff, GoTo, WayInv, Startup, Loop
<1>4. CASE ~TurnOff /\ ~TargetGameInit /\ ~\E at \in Pointings, over \in BOOLEAN : Play(at, over)
  <2>1. UNCHANGED <<leds, aim, target, currentAnimation>>
    BY <1>4 DEF Next, MainStep, GpioInitialize, TakeSignal, LcdInit, InitThread, MemoryInit,
        TestExit, AskShutdown, MemoryCleanup, StopThread, JoinThread, LcdCleanup, GpioCleanup,
        ThreadStep, NoEvent, ReadEdge, Finger, Bounce, Moves, Settle, ReadShutdown,
        FiringDebounceOver, HandleSignal,
        LcdSignalHandler, Ended
  <2>2. (main' \in Loop => main \in Loop) /\ (main' \in Startup => main \in Startup)
    BY <1>4 DEF Next, MainStep, GpioInitialize, TakeSignal, LcdInit, InitThread, MemoryInit,
        TestExit, AskShutdown, MemoryCleanup, StopThread, JoinThread, LcdCleanup, GpioCleanup,
        ThreadStep, NoEvent, ReadEdge, Finger, Bounce, Moves, Settle, ReadShutdown,
        FiringDebounceOver, HandleSignal,
        LcdSignalHandler, Ended, GoTo, Fails, Starts, Startup, Loop
  <2>3. Leads' <=> Leads
    BY <2>1 DEF Leads, Lit, Bright
  <2> QED
    BY <2>1, <2>2, <2>3 DEF WayInv
<1> QED
  BY <1>1, <1>2, <1>3, <1>4

\* Whatever thresholds, targets and directions there are: the colour of every
\* lit LED tells whether the target is left (red), right (green) or in line
\* (blue); the whole strip is bright exactly at the height of the target, and a
\* bright LED is otherwise in the last half below it, in the first half above;
\* and this of the current target, never of the last one.
THEOREM GameLedsPointTheWay == Spec => []LedsPointTheWay
<1>1. Init => WayInv
  BY DEF Init, WayInv, Startup, Loop
<1>2. WayInv => LedsPointTheWay
  BY DEF WayInv, Leads, LedsPointTheWay, Hue
<1> QED
  BY InitType, StepType, StepWay, <1>1, <1>2, PTL DEF Spec
==============================================================================
