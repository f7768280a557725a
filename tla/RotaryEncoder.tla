---------------------------- MODULE RotaryEncoder ----------------------------
(***************************************************************************)
(* The rotation thread of beatbox/hal/src/rotaryEncoder.c (53-164).  The   *)
(* knob moves two lines, CLK and DT, through a quadrature cycle; the       *)
(* kernel queues the edges of each line by itself, and drops one that      *)
(* finds its queue full; the thread waits for both lines together, then    *)
(* takes one edge of every line that has any, CLK before DT because that   *)
(* is how it filled its bulk, and a read may fail.  A level that is not    *)
(* known yet is -1, as in the code.                                        *)
(***************************************************************************)
EXTENDS Integers, Sequences

CONSTANTS
    MaxQueued       \* edges of a line the kernel holds; 16 in Linux

EncoderAssumption == MaxQueued \in Nat \ {0}

Lines == {"clk", "dt"}
Turns == {"cw", "ccw"}
Edges == [level : {0, 1}, turn : Turns]     \* turn: history, what caused it

VARIABLES
    knob,           \* place in the cycle; 0 is the detent
    queue,          \* queue[l]: edges of line l the kernel holds
    toRead,         \* lines the last wait reported and not read yet
    clk_last_state, dt_last_state, first_reading,
    recent,         \* less than 150 ms since lastEncoderChangeTime
    step,           \* what the last edge read did to currentBPM:
                    \* [by |-> -1, 0 or 1, turn |-> the turn behind the edge,
                    \*  behind |-> the thread was behind when it read it]
    behind,         \* history: when the knob moved last, an edge waited
                    \* already, or the level of a line was lost,
    lost            \* and the lines whose last edge the kernel dropped

encoderVars == <<knob, queue, toRead, clk_last_state, dt_last_state, first_reading,
          recent, step, behind, lost>>

TypeOK ==
    /\ knob \in 0 .. 3
    /\ queue \in [Lines -> Seq(Edges)]
    /\ \A l \in Lines : Len(queue[l]) <= MaxQueued
    /\ toRead \subseteq Lines
    /\ clk_last_state \in {-1, 0, 1} /\ dt_last_state \in {-1, 0, 1}
    /\ first_reading \in BOOLEAN /\ recent \in BOOLEAN
    /\ step \in [by : {-1, 0, 1}, turn : Turns, behind : BOOLEAN]
    /\ behind \in BOOLEAN /\ lost \subseteq Lines

\* RotaryEncoder_init sets lastEncoderChangeTime.
Init ==
    /\ knob \in 0 .. 3
    /\ queue = [l \in Lines |-> << >>]
    /\ toRead = {}
    /\ clk_last_state = -1 /\ dt_last_state = -1 /\ first_reading = TRUE
    /\ recent = TRUE
    /\ step = [by |-> 0, turn |-> "cw", behind |-> FALSE]
    /\ behind = FALSE /\ lost = {}

\* Clockwise: CLK falls, DT falls, CLK rises, DT rises.
Level(l, k) == IF l = "clk" THEN (IF k \in {0, 3} THEN 1 ELSE 0)
                            ELSE (IF k \in {0, 1} THEN 1 ELSE 0)

\* The lines whose level nobody can know from the edges that are kept.
Lost(moved, full) == (lost \ moved) \cup full

\* The user turns the knob by one edge; the line that changes gets it, unless
\* its queue is full.
Turn(t) ==
    /\ knob' = (knob + (IF t = "cw" THEN 1 ELSE 3)) % 4
    /\ LET moved == {l \in Lines : Level(l, knob') # Level(l, knob)}
           full == {l \in moved : Len(queue[l]) = MaxQueued}
       IN  /\ queue' = [l \in Lines |->
                            IF l \in moved \ full
                            THEN Append(queue[l],
                                        [level |-> Level(l, knob'), turn |-> t])
                            ELSE queue[l]]
           /\ lost' = Lost(moved, full)
    /\ behind' = (lost' # {} \/ \E l \in Lines : queue[l] # << >>)
    /\ UNCHANGED <<toRead, clk_last_state, dt_last_state, first_reading, recent,
                   step>>

\* 150 ms have passed since lastEncoderChangeTime.
DebounceOver ==
    /\ recent
    /\ recent' = FALSE
    /\ UNCHANGED <<knob, queue, toRead, clk_last_state, dt_last_state,
                   first_reading, step, behind, lost>>

\* gpiod_line_event_wait_bulk returns the lines that have an edge.
WaitBulk ==
    /\ toRead = {}
    /\ toRead' = {l \in Lines : queue[l] # << >>}
    /\ toRead' # {}
    /\ UNCHANGED <<knob, queue, clk_last_state, dt_last_state, first_reading,
                   recent, step, behind, lost>>

NoteLevel(l, e) ==
    /\ clk_last_state' = IF l = "clk" THEN e.level ELSE clk_last_state
    /\ dt_last_state' = IF l = "dt" THEN e.level ELSE dt_last_state

BugDirection(l, e) ==                   \* mutant: the other line is ignored
    IF e.level = 1 THEN 0 ELSE IF l = "clk" THEN 1 ELSE -1

\* CLK fell while DT was high: up.  DT fell while CLK was high: down.
Direction(l, e) ==
    CASE l = "clk" /\ e.level = 0 /\ dt_last_state = 1  -> 1
      [] l = "dt"  /\ e.level = 0 /\ clk_last_state = 1 -> -1
      [] OTHER                                          -> 0

Take(l) == toRead' = toRead \ {l}

\* One turn of the loop over the events.
ReadEdge(l) ==
    /\ l \in toRead /\ (l = "dt" => "clk" \notin toRead)
    /\ queue[l] # << >>
    /\ Take(l)
    /\ LET e == Head(queue[l])
           by == IF first_reading \/ recent THEN 0 ELSE Direction(l, e)
       IN  /\ NoteLevel(l, e)
           /\ recent' = (recent \/ by # 0)
           /\ step' = [by |-> by, turn |-> e.turn, behind |-> behind]
    /\ first_reading' = FALSE
    /\ queue' = [queue EXCEPT ![l] = Tail(@)]
    /\ UNCHANGED <<knob, behind, lost>>

\* gpiod_line_event_read fails: the loop goes on to the next line, and the edge
\* is left to the next wait.
ReadFails(l) ==
    /\ l \in toRead /\ (l = "dt" => "clk" \notin toRead)
    /\ Take(l)
    /\ UNCHANGED <<knob, queue, clk_last_state, dt_last_state, first_reading,
                   recent, step, behind, lost>>

Next ==
    \/ \E t \in Turns : Turn(t)
    \/ DebounceOver
    \/ WaitBulk
    \/ \E l \in Lines : ReadEdge(l) \/ ReadFails(l)

Spec == Init /\ [][Next]_encoderVars

------------------------------------------------------------------------------
\* "For clockwise: CLK falls before DT / For counter-clockwise: DT falls
\* before CLK" (rotaryEncoder.c:128-129): the tempo goes up when the knob is
\* turned clockwise and down when it is turned the other way, as long as no
\* second edge arrives before the first is read and no line's level is lost.  A
\* thread that was behind does mistake the direction, since it reads CLK before
\* DT whatever came first; the edge after it has caught up is right again.
DirectionIsTurn ==
    ~step.behind => /\ step.by = 1 => step.turn = "cw"
                    /\ step.by = -1 => step.turn = "ccw"

\* However late the thread is, whatever the debounce swallows and however many
\* reads fail, the level it remembers of a line is the line's once it has read
\* all edges, except on a line whose last edge the kernel dropped: that one is
\* wrong until its next edge is read.
CatchesUp ==
    (\A l \in Lines : queue[l] = << >>) =>
        /\ clk_last_state \in {-1, Level("clk", knob)} \/ "clk" \in lost
        /\ dt_last_state \in {-1, Level("dt", knob)} \/ "dt" \in lost

\* Both: the tempo follows the knob, and being late, or losing an edge, does no
\* lasting harm (rotaryEncoder.c:90-160).
EncoderFollowsKnob == DirectionIsTurn /\ CatchesUp
==============================================================================
