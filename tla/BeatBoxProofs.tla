---------------------------- MODULE BeatBoxProofs ----------------------------
(***************************************************************************)
(* Proofs about the life of the beatbox process.  What main does is read   *)
(* off two tables, so the proof first lists them, then states as lemmas    *)
(* what their order is good for: the startup opens what a worker needs and *)
(* sets its flag before it starts the worker, the cleanup joins every user *)
(* of a component before it closes it.  The inductive invariant LifeInv    *)
(* says what that order comes to at every step: a live thread has what it  *)
(* needs, a worker stays while its flag is up, nobody lives once joined.   *)
(***************************************************************************)
EXTENDS BeatBox, TLAPS

------------------------------------------------------------------------------
(* The tables.                                                             *)

\* What a table may hold.
Entries ==
    {Set(f) : f \in Flags} \cup {Clear(f) : f \in Flags}
        \cup {Spawn(t) : t \in Threads} \cup {Join(t) : t \in Threads}
        \cup {Open(r) : r \in Resources} \cup {Close(r) : r \in Resources} \cup {Register}

\* The flags by name.
LEMMA FlagsAre ==
    Flags = {"rotary", "udp", "joy", "stick", "stickBtn", "display", "player", "accel", "beat"}
  BY DEF Flags, Flag, Threads

\* The threads by name.
LEMMA ThreadsAre ==
    Threads = {"encoder", "btn", "udp", "joy", "stick", "stickBtn", "display", "player",
               "accel", "beat"}
  BY DEF Flag, Threads

\* Every entry the tables are written with is an entry.
LEMMA Known ==
    /\ \A f \in {"rotary", "udp", "joy", "stick", "stickBtn", "display", "player", "accel",
                 "beat"} : Set(f) \in Entries /\ Clear(f) \in Entries
    /\ \A t \in {"encoder", "btn", "udp", "joy", "stick", "stickBtn", "display", "player",
                 "accel", "beat"} : Spawn(t) \in Entries /\ Join(t) \in Entries
    /\ \A r \in {"gpio", "period", "mixer", "sounds", "lcd", "joystick", "btnLine",
                 "encoderLines"} : Open(r) \in Entries /\ Close(r) \in Entries
    /\ Register \in Entries
<1> USE FlagsAre, ThreadsAre DEF Entries, Resources
<1>1. \A f \in Flags : Set(f) \in Entries /\ Clear(f) \in Entries
  BY Zenon
<1>2. \A t \in Threads : Spawn(t) \in Entries /\ Join(t) \in Entries
  BY Zenon
<1>3. \A r \in Resources : Open(r) \in Entries /\ Close(r) \in Entries
  BY Zenon
<1> QED
  BY Zenon, <1>1, <1>2, <1>3

\* The first m entries of table u are those of s; t has the n after them.
Begins(s, u, m) ==
    s \in Seq(Entries) /\ Len(s) = m /\ \A i \in 1 .. m : s[i] = u[i]
Follows(t, u, m, n) ==
    t \in Seq(Entries) /\ Len(t) = n /\ \A i \in 1 .. n : t[i] = u[m + i]

\* A table's beginning and what follows it are a longer beginning ...
LEMMA Together ==
    ASSUME NEW s, NEW t, NEW u, NEW m \in Nat, NEW n \in Nat,
           Begins(s, u, m), Follows(t, u, m, n)
    PROVE  Begins(s \o t, u, m + n)
<1>1. s \in Seq(Entries) /\ t \in Seq(Entries) /\ Len(s) = m /\ Len(t) = n
  BY DEF Begins, Follows
<1>2. Len(s \o t) = m + n /\ s \o t \in Seq(Entries)
  BY <1>1
<1>3. ASSUME NEW i \in 1 .. m + n
      PROVE  (s \o t)[i] = u[i]
  <2>1. CASE i <= m
    BY <1>1, <2>1 DEF Begins
  <2>2. CASE ~(i <= m)
    <3>1. i - m \in 1 .. n /\ m + (i - m) = i
      BY <2>2
    <3>2. (s \o t)[i] = t[i - m]
      BY <1>1, <2>2
    <3>3. t[i - m] = u[m + (i - m)]
      BY <3>1 DEF Follows
    <3> QED
      BY <3>1, <3>2, <3>3
  <2> QED
    BY <2>1, <2>2
<1> QED
  BY <1>2, <1>3 DEF Begins

\* ... and the beginning that is as long as the table is the table.
LEMMA Whole ==
    ASSUME NEW s, NEW u \in Seq(Entries), Begins(s, u, Len(u))
    PROVE  s = u
  BY DEF Begins

\* The joystick's part of the startup, entry by entry.
LEMMA InputHandlerStarts ==
    InputHandler_init =
     << Open("joystick"), Set("stick"), Spawn("stick"), Set("stickBtn"),
        Spawn("stickBtn"), Set("joy"), Spawn("joy") >>
<1> DEFINE u ==
     << Open("joystick"), Set("stick"), Spawn("stick"), Set("stickBtn"),
        Spawn("stickBtn"), Set("joy"), Spawn("joy") >>
<1>1. u \in Seq(Entries) /\ Len(u) = 7
  BY Known
<1>2. /\ u[1] = Open("joystick") /\ u[2] = Set("stick")
      /\ u[3] = Spawn("stick") /\ u[4] = Set("stickBtn")
      /\ u[5] = Spawn("stickBtn") /\ u[6] = Set("joy") /\ u[7] = Spawn("joy")
  OBVIOUS
<1> HIDE DEF u
<1>3. Begins(Joystick_init, u, 1)
  BY <1>2, Known DEF Begins, Joystick_init
<1>4. Follows(Joystick_startSampling, u, 1, 4)
  BY <1>2, Known DEF Follows, Joystick_startSampling
<1>5. Follows(<< Set("joy"), Spawn("joy") >>, u, 5, 2)
  BY <1>2, Known DEF Follows
<1> DEFINE s1 == Joystick_init
<1> DEFINE s2 == s1 \o Joystick_startSampling
<1> DEFINE s3 == s2 \o << Set("joy"), Spawn("joy") >>
<1> HIDE DEF s2, s3
<1>6. Begins(s2, u, 5)
  BY <1>3, <1>4, Together DEF s2
<1>7. Begins(s3, u, 7)
  BY <1>6, <1>5, Together DEF s3
<1> QED
  BY <1>1, <1>7, Whole DEF InputHandler_init, u, s2, s3

\* The startup, entry by entry ...
StartupTable ==
    << Open("gpio"), Open("period"), Open("mixer"), Set("player"),
       Spawn("player"), Open("sounds"), Open("lcd"), Open("joystick"),
       Set("stick"), Spawn("stick"), Set("stickBtn"), Spawn("stickBtn"),
       Set("joy"), Spawn("joy"), Set("display"), Spawn("display"), Register,
       Spawn("udp"), Set("udp"), Open("btnLine"), Open("encoderLines"),
       Set("rotary"), Spawn("btn"), Spawn("encoder"), Set("accel"),
       Spawn("accel"), Set("beat"), Spawn("beat") >>

\* ... is what the init functions do, one after the other.
LEMMA StartupIs == Startup = StartupTable /\ Len(StartupTable) = 28
<1> DEFINE u == StartupTable
<1>1. u \in Seq(Entries) /\ Len(u) = 28
  BY Known DEF StartupTable
<1>2. /\ u[1] = Open("gpio") /\ u[2] = Open("period")
      /\ u[3] = Open("mixer") /\ u[4] = Set("player")
      /\ u[5] = Spawn("player") /\ u[6] = Open("sounds")
      /\ u[7] = Open("lcd") /\ u[8] = Open("joystick")
      /\ u[9] = Set("stick") /\ u[10] = Spawn("stick")
      /\ u[11] = Set("stickBtn") /\ u[12] = Spawn("stickBtn")
      /\ u[13] = Set("joy") /\ u[14] = Spawn("joy")
      /\ u[15] = Set("display") /\ u[16] = Spawn("display")
      /\ u[17] = Register /\ u[18] = Spawn("udp") /\ u[19] = Set("udp")
      /\ u[20] = Open("btnLine") /\ u[21] = Open("encoderLines")
      /\ u[22] = Set("rotary") /\ u[23] = Spawn("btn")
      /\ u[24] = Spawn("encoder") /\ u[25] = Set("accel")
      /\ u[26] = Spawn("accel") /\ u[27] = Set("beat")
      /\ u[28] = Spawn("beat")
  BY DEF StartupTable
<1> HIDE DEF u
<1>3. Begins(Gpio_initialize, u, 1)
  BY <1>2, Known DEF Begins, Gpio_initialize
<1>4. Follows(Period_init, u, 1, 1)
  BY <1>2, Known DEF Follows, Period_init
<1>5. Follows(AudioMixer_init, u, 2, 3)
  BY <1>2, Known DEF Follows, AudioMixer_init
<1>6. Follows(DrumSounds_init, u, 5, 1)
  BY <1>2, Known DEF Follows, DrumSounds_init
<1>7. Follows(LcdDisplay_init, u, 6, 1)
  BY <1>2, Known DEF Follows, LcdDisplay_init
<1>8. Follows(InputHandler_init, u, 7, 7)
  BY <1>2, Known, InputHandlerStarts DEF Follows
<1>9. Follows(TerminalDisplay_init, u, 14, 2)
  BY <1>2, Known DEF Follows, TerminalDisplay_init
<1>10. Follows(<< Register >>, u, 16, 1)
  BY <1>2, Known DEF Follows
<1>11. Follows(UdpServer_init, u, 17, 2)
  BY <1>2, Known DEF Follows, UdpServer_init
<1>12. Follows(BtnStateMachine_init, u, 19, 1)
  BY <1>2, Known DEF Follows, BtnStateMachine_init
<1>13. Follows(RotaryEncoder_init, u, 20, 4)
  BY <1>2, Known DEF Follows, RotaryEncoder_init
<1>14. Follows(Accelerometer_init, u, 24, 2)
  BY <1>2, Known DEF Follows, Accelerometer_init
<1>15. Follows(BeatPlayer_start, u, 26, 2)
  BY <1>2, Known DEF Follows, BeatPlayer_start
<1> DEFINE s1 == Gpio_initialize
<1> DEFINE s2 == s1 \o Period_init
<1> DEFINE s3 == s2 \o AudioMixer_init
<1> DEFINE s4 == s3 \o DrumSounds_init
<1> DEFINE s5 == s4 \o LcdDisplay_init
<1> DEFINE s6 == s5 \o InputHandler_init
<1> DEFINE s7 == s6 \o TerminalDisplay_init
<1> DEFINE s8 == s7 \o << Register >>
<1> DEFINE s9 == s8 \o UdpServer_init
<1> DEFINE s10 == s9 \o BtnStateMachine_init
<1> DEFINE s11 == s10 \o RotaryEncoder_init
<1> DEFINE s12 == s11 \o Accelerometer_init
<1> DEFINE s13 == s12 \o BeatPlayer_start
<1> HIDE DEF s2, s3, s4, s5, s6, s7, s8, s9, s10, s11, s12, s13
<1>16. Begins(s2, u, 2)
  BY <1>3, <1>4, Together DEF s2
<1>17. Begins(s3, u, 5)
  BY <1>16, <1>5, Together DEF s3
<1>18. Begins(s4, u, 6)
  BY <1>17, <1>6, Together DEF s4
<1>19. Begins(s5, u, 7)
  BY <1>18, <1>7, Together DEF s5
<1>20. Begins(s6, u, 14)
  BY <1>19, <1>8, Together DEF s6
<1>21. Begins(s7, u, 16)
  BY <1>20, <1>9, Together DEF s7
<1>22. Begins(s8, u, 17)
  BY <1>21, <1>10, Together DEF s8
<1>23. Begins(s9, u, 19)
  BY <1>22, <1>11, Together DEF s9
<1>24. Begins(s10, u, 20)
  BY <1>23, <1>12, Together DEF s10
<1>25. Begins(s11, u, 24)
  BY <1>24, <1>13, Together DEF s11
<1>26. Begins(s12, u, 26)
  BY <1>25, <1>14, Together DEF s12
<1>27. Begins(s13, u, 28)
  BY <1>26, <1>15, Together DEF s13
<1> QED
  BY <1>1, <1>27, Whole DEF Startup, u, s2, s3, s4, s5, s6, s7, s8, s9, s10, s11, s12, s13

\* The joystick's part of the cleanup, entry by entry.
LEMMA InputHandlerStops ==
    InputHandler_cleanup =
     << Clear("joy"), Join("joy"), Clear("stick"), Join("stick"),
        Clear("stickBtn"), Join("stickBtn"), Close("joystick") >>
<1> DEFINE u ==
     << Clear("joy"), Join("joy"), Clear("stick"), Join("stick"),
        Clear("stickBtn"), Join("stickBtn"), Close("joystick") >>
<1>1. u \in Seq(Entries) /\ Len(u) = 7
  BY Known
<1>2. /\ u[1] = Clear("joy") /\ u[2] = Join("joy") /\ u[3] = Clear("stick")
      /\ u[4] = Join("stick") /\ u[5] = Clear("stickBtn")
      /\ u[6] = Join("stickBtn") /\ u[7] = Close("joystick")
  OBVIOUS
<1> HIDE DEF u
<1>3. Begins(<< Clear("joy"), Join("joy") >>, u, 2)
  BY <1>2, Known DEF Begins
<1>4. Follows(Joystick_stopSampling, u, 2, 4)
  BY <1>2, Known DEF Follows, Joystick_stopSampling
<1>5. Follows(Joystick_cleanup, u, 6, 1)
  BY <1>2, Known DEF Follows, Joystick_cleanup
<1> DEFINE s1 == << Clear("joy"), Join("joy") >>
<1> DEFINE s2 == s1 \o Joystick_stopSampling
<1> DEFINE s3 == s2 \o Joystick_cleanup
<1> HIDE DEF s2, s3
<1>6. Begins(s2, u, 6)
  BY <1>3, <1>4, Together DEF s2
<1>7. Begins(s3, u, 7)
  BY <1>6, <1>5, Together DEF s3
<1> QED
  BY <1>1, <1>7, Whole DEF InputHandler_cleanup, u, s2, s3

\* The cleanup, entry by entry ...
CleanupTable ==
    << Clear("beat"), Clear("rotary"), Join("encoder"), Join("btn"),
       Close("encoderLines"), Close("btnLine"), Clear("udp"), Join("udp"),
       Clear("joy"), Join("joy"), Clear("stick"), Join("stick"),
       Clear("stickBtn"), Join("stickBtn"), Close("joystick"), Close("lcd"),
       Clear("display"), Join("display"), Join("beat"), Close("sounds"),
       Clear("player"), Join("player"), Close("mixer"), Clear("accel"),
       Join("accel"), Close("gpio") >>

\* ... is what the cleanup functions do, one after the other.
LEMMA CleanupIs == Cleanup = CleanupTable /\ Len(CleanupTable) = 26
<1> DEFINE u == CleanupTable
<1>1. u \in Seq(Entries) /\ Len(u) = 26
  BY Known DEF CleanupTable
<1>2. /\ u[1] = Clear("beat") /\ u[2] = Clear("rotary")
      /\ u[3] = Join("encoder") /\ u[4] = Join("btn")
      /\ u[5] = Close("encoderLines") /\ u[6] = Close("btnLine")
      /\ u[7] = Clear("udp") /\ u[8] = Join("udp") /\ u[9] = Clear("joy")
      /\ u[10] = Join("joy") /\ u[11] = Clear("stick")
      /\ u[12] = Join("stick") /\ u[13] = Clear("stickBtn")
      /\ u[14] = Join("stickBtn") /\ u[15] = Close("joystick")
      /\ u[16] = Close("lcd") /\ u[17] = Clear("display")
      /\ u[18] = Join("display") /\ u[19] = Join("beat")
      /\ u[20] = Close("sounds") /\ u[21] = Clear("player")
      /\ u[22] = Join("player") /\ u[23] = Close("mixer")
      /\ u[24] = Clear("accel") /\ u[25] = Join("accel")
      /\ u[26] = Close("gpio")
  BY DEF CleanupTable
<1> HIDE DEF u
<1>3. Begins(BeatPlayer_stop, u, 1)
  BY <1>2, Known DEF Begins, BeatPlayer_stop
<1>4. Follows(RotaryEncoder_cleanup, u, 1, 4)
  BY <1>2, Known DEF Follows, RotaryEncoder_cleanup
<1>5. Follows(BtnStateMachine_cleanup, u, 5, 1)
  BY <1>2, Known DEF Follows, BtnStateMachine_cleanup
<1>6. Follows(UdpServer_cleanup, u, 6, 2)
  BY <1>2, Known DEF Follows, UdpServer_cleanup
<1>7. Follows(InputHandler_cleanup, u, 8, 7)
  BY <1>2, Known, InputHandlerStops DEF Follows
<1>8. Follows(LcdDisplay_cleanup, u, 15, 1)
  BY <1>2, Known DEF Follows, LcdDisplay_cleanup
<1>9. Follows(TerminalDisplay_cleanup, u, 16, 2)
  BY <1>2, Known DEF Follows, TerminalDisplay_cleanup
<1>10. Follows(BeatPlayer_cleanup, u, 18, 1)
  BY <1>2, Known DEF Follows, BeatPlayer_cleanup
<1>11. Follows(DrumSounds_cleanup, u, 19, 1)
  BY <1>2, Known DEF Follows, DrumSounds_cleanup
<1>12. Follows(AudioMixer_cleanup, u, 20, 3)
  BY <1>2, Known DEF Follows, AudioMixer_cleanup
<1>13. Follows(Accelerometer_cleanup, u, 23, 2)
  BY <1>2, Known DEF Follows, Accelerometer_cleanup
<1>14. Follows(Gpio_cleanup, u, 25, 1)
  BY <1>2, Known DEF Follows, Gpio_cleanup
<1> DEFINE s1 == BeatPlayer_stop
<1> DEFINE s2 == s1 \o RotaryEncoder_cleanup
<1> DEFINE s3 == s2 \o BtnStateMachine_cleanup
<1> DEFINE s4 == s3 \o UdpServer_cleanup
<1> DEFINE s5 == s4 \o InputHandler_cleanup
<1> DEFINE s6 == s5 \o LcdDisplay_cleanup
<1> DEFINE s7 == s6 \o TerminalDisplay_cleanup
<1> DEFINE s8 == s7 \o BeatPlayer_cleanup
<1> DEFINE s9 == s8 \o DrumSounds_cleanup
<1> DEFINE s10 == s9 \o AudioMixer_cleanup
<1> DEFINE s11 == s10 \o Accelerometer_cleanup
<1> DEFINE s12 == s11 \o Gpio_cleanup
<1> HIDE DEF s2, s3, s4, s5, s6, s7, s8, s9, s10, s11, s12
<1>15. Begins(s2, u, 5)
  BY <1>3, <1>4, Together DEF s2
<1>16. Begins(s3, u, 6)
  BY <1>15, <1>5, Together DEF s3
<1>17. Begins(s4, u, 8)
  BY <1>16, <1>6, Together DEF s4
<1>18. Begins(s5, u, 15)
  BY <1>17, <1>7, Together DEF s5
<1>19. Begins(s6, u, 16)
  BY <1>18, <1>8, Together DEF s6
<1>20. Begins(s7, u, 18)
  BY <1>19, <1>9, Together DEF s7
<1>21. Begins(s8, u, 19)
  BY <1>20, <1>10, Together DEF s8
<1>22. Begins(s9, u, 20)
  BY <1>21, <1>11, Together DEF s9
<1>23. Begins(s10, u, 23)
  BY <1>22, <1>12, Together DEF s10
<1>24. Begins(s11, u, 25)
  BY <1>23, <1>13, Together DEF s11
<1>25. Begins(s12, u, 26)
  BY <1>24, <1>14, Together DEF s12
<1> QED
  BY <1>1, <1>25, Whole DEF Cleanup, u, s2, s3, s4, s5, s6, s7, s8, s9, s10, s11, s12

------------------------------------------------------------------------------
(* What the proof needs to know of the tables.                             *)

\* Entry e comes before position i.
Before(table, i, e) == \E j \in 1 .. i - 1 : table[j] = e

\* What has to be open as long as a thread lives.  The rotation thread may have
\* been started without its lines.
Needs(t) ==
    CASE t = "btn"      -> {"gpio", "btnLine"}
      [] t = "stickBtn" -> {"gpio", "joystick"}
      [] t = "stick"    -> {"joystick"}
      [] t = "player"   -> {"mixer"}
      [] t = "beat"     -> {"mixer", "sounds"}
      [] t = "udp"      -> {"mixer", "sounds"}
      [] OTHER          -> {}

\* The startup sets a worker's flag and opens what it needs before it starts
\* the worker, the listener's flag excepted.
LEMMA StartupOrder ==
    \A i \in 1 .. Len(Startup) :
       \/ \E f \in Flags : Startup[i] = Set(f)
       \/ \E t \in Threads :
            /\ Startup[i] = Spawn(t)
            /\ t # "udp" => Before(Startup, i, Set(Flag[t]))
            /\ \A r \in Needs(t) : Before(Startup, i, Open(r))
            /\ t \in {"player", "display"} => Before(Startup, i, Open("period"))
       \/ \E r \in Resources :
            /\ Startup[i] = Open(r)
            /\ r \in Lined => Before(Startup, i, Open("gpio"))
       \/ Startup[i] = Register
<1> SUFFICES ASSUME NEW i \in 1 .. 28
             PROVE  \/ \E f \in Flags : StartupTable[i] = Set(f)
                    \/ \E t \in Threads :
                         /\ StartupTable[i] = Spawn(t)
                         /\ t # "udp" => Before(StartupTable, i, Set(Flag[t]))
                         /\ \A r \in Needs(t) : Before(StartupTable, i, Open(r))
                         /\ t \in {"player", "display"} => Before(StartupTable, i, Open("period"))
                    \/ \E r \in Resources :
                         /\ StartupTable[i] = Open(r)
                         /\ r \in Lined => Before(StartupTable, i, Open("gpio"))
                    \/ StartupTable[i] = Register
  BY StartupIs
<1> QED
  BY FlagsAre, ThreadsAre DEF StartupTable, Before, Needs, Resources, Lined, Flag

\* The encoder's lines are opened before its thread is started.
LEMMA LinesFirst ==
    \A i \in 1 .. Len(Startup) :
        Startup[i] = Open("encoderLines") => ~Before(Startup, i, Spawn("encoder"))
<1>1. \A j \in 1 .. 28 : StartupTable[j] = Open("encoderLines") => j = 21
  BY DEF StartupTable, Open, Set, Spawn, Register
<1>2. \A j \in 1 .. 28 : StartupTable[j] = Spawn("encoder") => j = 24
  BY DEF StartupTable, Open, Set, Spawn, Register
<1> QED
  BY <1>1, <1>2, StartupIs DEF Before

\* In the end everything has been opened and every worker started.
LEMMA StartupEnds ==
    /\ Len(Startup) = 28
    /\ \A r \in Resources : Before(Startup, 28 + 1, Open(r))
    /\ \A t \in Threads : Before(Startup, 28 + 1, Spawn(t))
<1>1. /\ \A r \in Resources : Before(StartupTable, 28 + 1, Open(r))
      /\ \A t \in Threads : Before(StartupTable, 28 + 1, Spawn(t))
  BY ThreadsAre DEF StartupTable, Before, Resources
<1> QED
  BY <1>1, StartupIs

\* The cleanup closes what a worker needs after it has joined the worker, the
\* drum sounds after the beat thread, the LCD after the joystick's and the
\* encoder's lines after its own.
LEMMA CleanupOrder ==
    \A i \in 1 .. Len(Cleanup) :
       \/ \E f \in Flags : Cleanup[i] = Clear(f)
       \/ \E t \in Threads : Cleanup[i] = Join(t)
       \/ \E r \in Resources :
            /\ Cleanup[i] = Close(r)
            /\ \A t \in Threads : r \in Needs(t) => Before(Cleanup, i, Join(t))
            /\ r = "sounds" => Before(Cleanup, i, Join("beat"))
            /\ r = "lcd" => Before(Cleanup, i, Join("joy"))
            /\ r = "encoderLines" => Before(Cleanup, i, Join("encoder"))
<1> SUFFICES ASSUME NEW i \in 1 .. 26
             PROVE  \/ \E f \in Flags : CleanupTable[i] = Clear(f)
                    \/ \E t \in Threads : CleanupTable[i] = Join(t)
                    \/ \E r \in Resources :
                         /\ CleanupTable[i] = Close(r)
                         /\ \A t \in Threads : r \in Needs(t) => Before(CleanupTable, i, Join(t))
                         /\ r = "sounds" => Before(CleanupTable, i, Join("beat"))
                         /\ r = "lcd" => Before(CleanupTable, i, Join("joy"))
                         /\ r = "encoderLines" => Before(CleanupTable, i, Join("encoder"))
  BY CleanupIs
<1> QED
  BY FlagsAre, ThreadsAre DEF CleanupTable, Before, Needs, Resources

\* One position on, one more entry is before.
LEMMA OneMore ==
    ASSUME NEW table, NEW i \in Nat, i >= 1, NEW e
    PROVE  Before(table, i + 1, e) <=> Before(table, i, e) \/ table[i] = e
  BY DEF Before
------------------------------------------------------------------------------
(* The inductive invariant.                                                *)

Live(t) == thread[t] \notin {"none", "exited"}
Spawned(t) == Before(Startup, at, Spawn(t))

\* What the startup has set and opened so far is set and open: nothing but the
\* display thread, on its way out, takes any of it back before the cleanup.
StartupKeeps ==
    phase = "startup" =>
        /\ \A f \in Flags : Before(Startup, at, Set(f)) => run[f]
        /\ \A r \in Resources \ {"lcd", "period", "encoderLines"} :
               Before(Startup, at, Open(r)) => res[r] = "open"
        /\ isRunning /\ Before(Startup, at, Open("period")) => res["period"] = "open"
        /\ \A r \in Resources \ {"period"} : res[r] # "closed"

\* A worker's flag is set until the cleanup; the listener's may follow it.
FlagsUp ==
    phase \in {"startup", "loop"} =>
        \A t \in Threads \ {"udp"} : Live(t) => run[Flag[t]]

\* A worker that has been started stays while the program is running, and the
\* beat thread stays for good; but for a rotation thread without its lines.
WorkersStay ==
    \A t \in Workers \ {"udp", "accel"} : isRunning \/ t = "beat" =>
        /\ phase = "startup" /\ Spawned(t) => Live(t) \/ Blind(t)
        /\ phase = "loop" => Live(t) \/ Blind(t)
BeatStays == "beat" \in Workers /\ phase = "cleanup" => Live("beat")

\* The program is no longer running once the display knows of the end, or main
\* is in its cleanup.
EndIsKnown == shuttingDown \/ phase = "cleanup" \/ failed => ~isRunning

\* Whoever the cleanup has joined is gone.
JoinedAreGone ==
    phase = "cleanup" => \A t \in Threads : Before(Cleanup, at, Join(t)) => ~Live(t)

\* A live thread has what it needs.
UsersHaveTheirs ==
    /\ \A t \in Threads : Live(t) => \A r \in Needs(t) : res[r] = "open"
    /\ thread["joy"] = "use" => res["lcd"] = "open"
    /\ thread["encoder"] = "body" => res["encoderLines"] = "open"
    /\ Live("player") /\ "beat" \in Workers => res["sounds"] # "closed"

\* While the program is running the period timer is there for those who mark
\* events and for main.
PeriodReady ==
    isRunning /\ phase # "returned" =>
        /\ phase = "loop" => res["period"] = "open"
        /\ \A t \in {"player", "display"} : Live(t) => res["period"] = "open"

LifeInv ==
    /\ StartupKeeps /\ FlagsUp /\ WorkersStay /\ BeatStays /\ EndIsKnown
    /\ JoinedAreGone /\ UsersHaveTheirs /\ PeriodReady

------------------------------------------------------------------------------
(* What an entry does.                                                     *)

\* Entries of two kinds, or about two things, are two entries.
LEMMA Distinct ==
    /\ \A x, y : Set(x) # Spawn(y) /\ Set(x) # Open(y) /\ Spawn(x) # Open(y)
    /\ \A x : Set(x) # Register /\ Spawn(x) # Register /\ Open(x) # Register
    /\ \A x, y : Clear(x) # Join(y) /\ Close(x) # Join(y)
    /\ \A x, y : (Set(x) = Set(y) => x = y) /\ (Spawn(x) = Spawn(y) => x = y)
    /\ \A x, y : (Open(x) = Open(y) => x = y) /\ (Join(x) = Join(y) => x = y)
  BY DEF Set, Spawn, Open, Register, Clear, Join, Close

\* What the entries of the startup do ...
LEMMA DoStartup ==
    ASSUME NEW e, Do(e[1], e[2])
    PROVE  /\ \A f : e = Set(f) =>
                /\ run' = [run EXCEPT ![f] = TRUE]
                /\ UNCHANGED <<thread, res, shuttingDown, failed>>
           /\ \A t : e = Spawn(t) =>
                /\ \/ t \in Workers /\ thread' = [thread EXCEPT ![t] = "test"]
                   \/ t \in {"accel"} \cup (Threads \ Workers) /\ UNCHANGED thread
                /\ shuttingDown' = (shuttingDown /\ t # "display")
                /\ UNCHANGED <<run, res, failed>>
           /\ \A r : e = Open(r) =>
                /\ res' = [res EXCEPT ![r] = "open"] \/ (r \in {"lcd", "encoderLines"} /\ UNCHANGED res)
                /\ IF r \in Lined THEN Assert("gpio") ELSE UNCHANGED failed
                /\ UNCHANGED <<run, thread, shuttingDown>>
           /\ e = Register => shuttingDown' = ~isRunning /\ UNCHANGED <<run, thread, res, failed>>
<1>1. ASSUME NEW f, e = Set(f)
      PROVE  /\ run' = [run EXCEPT ![f] = TRUE]
             /\ UNCHANGED <<thread, res, shuttingDown, failed>>
  <2>1. e[1] = "set" /\ e[2] = f
    BY <1>1 DEF Set
  <2> QED
    BY <2>1 DEF Do
<1>2. ASSUME NEW t, e = Spawn(t)
      PROVE  /\ \/ t \in Workers /\ thread' = [thread EXCEPT ![t] = "test"]
                \/ t \in {"accel"} \cup (Threads \ Workers) /\ UNCHANGED thread
             /\ shuttingDown' = (shuttingDown /\ t # "display")
             /\ UNCHANGED <<run, res, failed>>
  <2>1. e[1] = "spawn" /\ e[2] = t
    BY <1>2 DEF Spawn
  <2> QED
    BY <2>1 DEF Do
<1>3. ASSUME NEW r, e = Open(r)
      PROVE  /\ res' = [res EXCEPT ![r] = "open"] \/ (r \in {"lcd", "encoderLines"} /\ UNCHANGED res)
             /\ IF r \in Lined THEN Assert("gpio") ELSE UNCHANGED failed
             /\ UNCHANGED <<run, thread, shuttingDown>>
  <2>1. e[1] = "open" /\ e[2] = r
    BY <1>3 DEF Open
  <2> QED
    BY <2>1 DEF Do
<1>4. ASSUME e = Register
      PROVE  shuttingDown' = ~isRunning /\ UNCHANGED <<run, thread, res, failed>>
  <2>1. e[1] = "register"
    BY <1>4 DEF Register
  <2> QED
    BY <2>1 DEF Do
<1> QED
  BY <1>1, <1>2, <1>3, <1>4

\* ... and of the cleanup.
LEMMA DoCleanup ==
    ASSUME NEW e, Do(e[1], e[2])
    PROVE  /\ \A f : e = Clear(f) =>
                /\ run' = [run EXCEPT ![f] = FALSE]
                /\ shuttingDown' = (shuttingDown \/ f = "display")
                /\ UNCHANGED <<thread, res, failed>>
           /\ \A t : e = Join(t) =>
                thread[t] \in {"none", "exited"} /\ UNCHANGED <<run, thread, res, shuttingDown, failed>>
           /\ \A r : e = Close(r) =>
                /\ res' = [res EXCEPT ![r] = "closed"]
                /\ IF r \in Lined \cup {"gpio"} THEN Assert("gpio") ELSE UNCHANGED failed
                /\ UNCHANGED <<run, thread, shuttingDown>>
<1>1. ASSUME NEW f, e = Clear(f)
      PROVE  /\ run' = [run EXCEPT ![f] = FALSE]
             /\ shuttingDown' = (shuttingDown \/ f = "display")
             /\ UNCHANGED <<thread, res, failed>>
  <2>1. e[1] = "clear" /\ e[2] = f
    BY <1>1 DEF Clear
  <2> QED
    BY <2>1 DEF Do
<1>2. ASSUME NEW t, e = Join(t)
      PROVE  thread[t] \in {"none", "exited"} /\ UNCHANGED <<run, thread, res, shuttingDown, failed>>
  <2>1. e[1] = "join" /\ e[2] = t
    BY <1>2 DEF Join
  <2> QED
    BY <2>1 DEF Do
<1>3. ASSUME NEW r, e = Close(r)
      PROVE  /\ res' = [res EXCEPT ![r] = "closed"]
             /\ IF r \in Lined \cup {"gpio"} THEN Assert("gpio") ELSE UNCHANGED failed
             /\ UNCHANGED <<run, thread, shuttingDown>>
  <2>1. e[1] = "close" /\ e[2] = r
    BY <1>3 DEF Close
  <2> QED
    BY <2>1 DEF Do
<1> QED
  BY <1>1, <1>2, <1>3

------------------------------------------------------------------------------
(* Types.                                                                  *)

\* The process starts in a state of the right types.
LEMMA InitType == Init => TypeOK
<1> SUFFICES ASSUME Init
             PROVE  TypeOK
  OBVIOUS
<1>1. phase = "startup" /\ at \in 1 .. Len(Startup) /\ place \in LoopPlaces
  BY StartupEnds DEF Init, LoopPlaces
<1>2. /\ run \in [Flags -> BOOLEAN]
      /\ thread \in [Threads -> {"none", "test", "body", "use", "exited"}]
      /\ res \in [Resources -> {"none", "open", "closed"}]
  BY Zenon DEF Init
<1> QED
  BY <1>1, <1>2 DEF Init, TypeOK

\* An entry keeps the types.
LEMMA MainType ==
    ASSUME TypeOK, StartupStep \/ CleanupStep
    PROVE  TypeOK'
<1>1. CASE StartupStep
  <2>1. /\ at \in 1 .. Len(Startup) /\ Do(Startup[at][1], Startup[at][2])
        /\ Len(Startup) = 28 /\ Advance(Startup, "loop")
        /\ UNCHANGED <<place, isRunning, shouldStop, signal>> /\ phase = "startup"
    BY <1>1, StartupEnds DEF StartupStep, TypeOK
  <2>2. /\ run' \in [Flags -> BOOLEAN]
        /\ thread' \in [Threads -> {"none", "test", "body", "use", "exited"}]
        /\ res' \in [Resources -> {"none", "open", "closed"}]
        /\ failed' \in BOOLEAN /\ shuttingDown' \in BOOLEAN
    <3> DEFINE e == Startup[at]
    <3>1. CASE \E f \in Flags : e = Set(f)
      BY <2>1, <3>1, DoStartup DEF TypeOK
    <3>2. CASE \E t \in Threads : e = Spawn(t)
      BY <2>1, <3>2, DoStartup DEF TypeOK
    <3>3. CASE \E r \in Resources : e = Open(r)
      BY <2>1, <3>3, DoStartup DEF TypeOK, Assert
    <3>4. CASE e = Register
      BY <2>1, <3>4, DoStartup DEF TypeOK
    <3> QED
      BY <2>1, <3>1, <3>2, <3>3, <3>4, StartupOrder
  <2>3. \/ phase' = "startup" /\ at' \in 1 .. Len(Startup)
        \/ phase' = "loop" /\ at' = 0
    BY <2>1 DEF Advance
  <2> QED
    BY <2>1, <2>2, <2>3 DEF TypeOK
<1>2. CASE CleanupStep
  <2>1. /\ at \in 1 .. Len(Cleanup) /\ Do(Cleanup[at][1], Cleanup[at][2])
        /\ Len(Cleanup) = 26 /\ Advance(Cleanup, "returned")
        /\ UNCHANGED <<place, isRunning, shouldStop, signal>> /\ phase = "cleanup"
    BY <1>2, CleanupIs DEF CleanupStep, TypeOK
  <2>2. /\ run' \in [Flags -> BOOLEAN]
        /\ thread' \in [Threads -> {"none", "test", "body", "use", "exited"}]
        /\ res' \in [Resources -> {"none", "open", "closed"}]
        /\ failed' \in BOOLEAN /\ shuttingDown' \in BOOLEAN
    <3> DEFINE e == Cleanup[at]
    <3>1. CASE \E f \in Flags : e = Clear(f)
      BY <2>1, <3>1, DoCleanup DEF TypeOK
    <3>2. CASE \E t \in Threads : e = Join(t)
      BY <2>1, <3>2, DoCleanup DEF TypeOK
    <3>3. CASE \E r \in Resources : e = Close(r)
      BY <2>1, <3>3, DoCleanup DEF TypeOK, Assert
    <3> QED
      BY <2>1, <3>1, <3>2, <3>3, CleanupOrder
  <2>3. \/ phase' = "cleanup" /\ at' \in 1 .. Len(Cleanup)
        \/ phase' = "returned" /\ at' = 0
    BY <2>1 DEF Advance
  <2> QED
    BY <2>1, <2>2, <2>3 DEF TypeOK
<1> QED
  BY <1>1, <1>2

\* A thread keeps the types.
LEMMA ThreadType ==
    ASSUME TypeOK, NEW t \in Threads, ThreadStep(t)
    PROVE  TypeOK'
<1>1. /\ thread' \in [Threads -> {"none", "test", "body", "use", "exited"}]
      /\ res' \in [Resources -> {"none", "open", "closed"}]
      /\ failed' \in BOOLEAN /\ shouldStop' \in BOOLEAN
      /\ UNCHANGED <<mainVars, isRunning, shuttingDown, signal, run>>
  <2>1. Move(t, "test") \/ Move(t, "body") \/ Move(t, "use") \/ Move(t, "exited") \/ UNCHANGED thread
    BY DEF ThreadStep, Test, Pressed, Turned, Received, Processed, JoyPass, JoyDrawn,
           PlayerPass, DisplayPass, BeatPass
  <2>2. thread' \in [Threads -> {"none", "test", "body", "use", "exited"}]
    BY <2>1 DEF Move, TypeOK
  <2>3. res' \in [Resources -> {"none", "open", "closed"}]
    BY DEF ThreadStep, Test, Pressed, Turned, Received, Processed, JoyPass, JoyDrawn,
           PlayerPass, DisplayPass, BeatPass, TypeOK
  <2>4. failed' \in BOOLEAN
    BY DEF ThreadStep, Test, Pressed, Turned, Received, Processed, JoyPass, JoyDrawn,
           PlayerPass, DisplayPass, BeatPass, TypeOK, Assert
  <2>5. shouldStop' \in BOOLEAN /\ UNCHANGED <<mainVars, isRunning, shuttingDown, signal, run>>
    BY DEF ThreadStep, Test, Pressed, Turned, Received, Processed, JoyPass, JoyDrawn,
           PlayerPass, DisplayPass, BeatPass, TypeOK, stopVars
  <2> QED
    BY <2>2, <2>3, <2>4, <2>5
<1> QED
  BY <1>1 DEF TypeOK, mainVars

\* Every step keeps the types.
LEMMA StepType == TypeOK /\ [Next]_vars => TypeOK'
<1> SUFFICES ASSUME TypeOK, [Next]_vars
             PROVE  TypeOK'
  OBVIOUS
<1>1. CASE StartupStep \/ CleanupStep
  BY <1>1, MainType
<1>2. CASE StartupFails \/ LoopTest \/ LoopStop \/ LoopAccel \/ LoopDisplay \/ LoopSleep
  <2>1. 1 \in 1 .. Len(Cleanup)
    BY CleanupIs
  <2>2. /\ \/ phase' = "loop" /\ at' = 0
           \/ phase' = "cleanup" /\ at' = 1
           \/ phase' = "returned" /\ at' = 0
        /\ place' \in LoopPlaces
    BY <1>2 DEF StartupFails, LoopTest, LoopStop, LoopAccel, LoopDisplay, LoopSleep, AtLoop,
                GoTo, LeaveLoop, TypeOK, LoopPlaces
  <2>3. /\ isRunning' \in BOOLEAN /\ shuttingDown' \in BOOLEAN /\ failed' \in BOOLEAN
        /\ UNCHANGED <<shouldStop, signal, run, thread, res>>
    BY <1>2 DEF StartupFails, LoopTest, LoopStop, LoopAccel, LoopDisplay, LoopSleep, Assert,
                TypeOK, stopVars
  <2> QED
    BY <2>1, <2>2, <2>3 DEF TypeOK
<1>3. CASE SignalEnters \/ SignalRegisters
  BY <1>3 DEF SignalEnters, SignalRegisters, TypeOK, mainVars
<1>4. CASE \E t \in Threads : ThreadStep(t)
  BY <1>4, ThreadType
<1>5. CASE UNCHANGED vars
  BY <1>5 DEF vars, TypeOK
<1> QED
  BY <1>1, <1>2, <1>3, <1>4, <1>5 DEF Next, Main, Returned

------------------------------------------------------------------------------
(* The invariant.                                                          *)

\* It holds when the process starts: nothing has been done and nobody lives.
LEMMA InitLife == Init => LifeInv
<1> SUFFICES ASSUME Init
             PROVE  LifeInv
  OBVIOUS
<1>1. /\ \A t \in Threads : ~Live(t)
      /\ \A r \in Resources : res[r] = "none"
      /\ \A e : ~Before(Startup, at, e)
      /\ phase = "startup" /\ ~shuttingDown /\ ~failed /\ thread["joy"] # "use"
      /\ thread["encoder"] # "body"
  BY ThreadsAre DEF Init, Live, Before
<1>2. StartupKeeps
  BY <1>1 DEF StartupKeeps
<1>3. FlagsUp /\ WorkersStay /\ BeatStays
  BY <1>1 DEF FlagsUp, WorkersStay, BeatStays, Spawned
<1>4. EndIsKnown /\ JoinedAreGone
  BY <1>1 DEF EndIsKnown, JoinedAreGone
<1>5. UsersHaveTheirs /\ PeriodReady
  BY <1>1, ThreadsAre DEF UsersHaveTheirs, PeriodReady
<1> QED
  BY <1>2, <1>3, <1>4, <1>5 DEF LifeInv

\* An entry of the startup adds to what is set, open and alive.
LEMMA StartupLife ==
    ASSUME TypeOK, TypeOK', LifeInv, StartupStep
    PROVE  LifeInv'
<1> DEFINE e == Startup[at]
           Past(x) == Before(Startup, at + 1, x)
<1>1. /\ at \in 1 .. 28 /\ Len(Startup) = 28 /\ at \in Nat /\ at >= 1
      /\ phase = "startup" /\ Do(e[1], e[2]) /\ isRunning' = isRunning
  BY StartupEnds DEF StartupStep, TypeOK
<1>2. \A x : Past(x) <=> Before(Startup, at, x) \/ e = x
  BY <1>1, OneMore
<1>3. \/ phase' = "startup" /\ at' = at + 1
      \/ phase' = "loop" /\ at = 28
  BY <1>1 DEF StartupStep, Advance
<1>4. /\ \/ \E f \in Flags : e = Set(f)
         \/ \E t \in Threads : e = Spawn(t)
         \/ \E r \in Resources : e = Open(r)
         \/ e = Register
      /\ \A t : e = Spawn(t) =>
            /\ t # "udp" => Before(Startup, at, Set(Flag[t]))
            /\ \A r \in Needs(t) : Before(Startup, at, Open(r))
            /\ t \in {"player", "display"} => Before(Startup, at, Open("period"))
      /\ \A r \in Lined : e = Open(r) => Before(Startup, at, Open("gpio"))
  <2>1. CASE \E f \in Flags : e = Set(f)
    BY <2>1, Distinct, Zenon
  <2>2. CASE \E t \in Threads :
               /\ e = Spawn(t)
               /\ t # "udp" => Before(Startup, at, Set(Flag[t]))
               /\ \A r \in Needs(t) : Before(Startup, at, Open(r))
               /\ t \in {"player", "display"} => Before(Startup, at, Open("period"))
    <3> HIDE DEF e
    <3> QED
      BY <2>2, Distinct, Zenon
  <2>3. CASE \E r \in Resources :
               e = Open(r) /\ (r \in Lined => Before(Startup, at, Open("gpio")))
    <3> HIDE DEF e
    <3> QED
      BY <2>3, Distinct, Zenon
  <2>4. CASE e = Register
    BY <2>4, Distinct, Zenon
  <2> QED
    BY <1>1, <2>1, <2>2, <2>3, <2>4, StartupOrder, Zenon
<1>lines. e = Open("encoderLines") => ~Before(Startup, at, Spawn("encoder"))
  BY <1>1, LinesFirst
<1>5. /\ \A f \in Flags : e = Set(f) =>
            run' = [run EXCEPT ![f] = TRUE] /\ UNCHANGED <<thread, res, shuttingDown, failed>>
      /\ \A t \in Threads : e = Spawn(t) =>
            /\ \/ t \in Workers /\ thread' = [thread EXCEPT ![t] = "test"]
               \/ t \in {"accel"} \cup (Threads \ Workers) /\ UNCHANGED thread
            /\ shuttingDown' = (shuttingDown /\ t # "display")
            /\ UNCHANGED <<run, res, failed>>
      /\ \A r \in Resources : e = Open(r) =>
            /\ res' = [res EXCEPT ![r] = "open"] \/ (r \in {"lcd", "encoderLines"} /\ UNCHANGED res)
            /\ IF r \in Lined THEN Assert("gpio") ELSE UNCHANGED failed
            /\ UNCHANGED <<run, thread, shuttingDown>>
      /\ e = Register => shuttingDown' = ~isRunning /\ UNCHANGED <<run, thread, res, failed>>
  BY <1>1, DoStartup
<1> HIDE DEF e, Past
<1>6. /\ \A f \in Flags : Past(Set(f)) => run'[f]
      /\ \A f \in Flags : run[f] => run'[f]
  <2>1. run \in [Flags -> BOOLEAN]
    BY DEF TypeOK
  <2> QED
    BY <1>1, <1>2, <1>4, <1>5, <2>1, Distinct DEF LifeInv, StartupKeeps
<1>7. /\ \A r \in Resources \ {"lcd", "period", "encoderLines"} : Past(Open(r)) => res'[r] = "open"
      /\ isRunning /\ Past(Open("period")) => res'["period"] = "open"
      /\ \A r \in Resources \ {"period"} : res'[r] # "closed"
      /\ \A r \in Resources : res[r] = "open" => res'[r] = "open"
  <2>1. res \in [Resources -> {"none", "open", "closed"}] /\ "period" \in Resources
    BY DEF TypeOK, Resources
  <2> QED
    BY <1>1, <1>2, <1>4, <1>5, <2>1, Distinct DEF LifeInv, StartupKeeps
<1>8. \A t \in Threads : Live(t)' => Live(t) \/ e = Spawn(t)
  BY <1>4, <1>5 DEF Live, TypeOK
<1>9. \A t \in Threads : Live(t) => Live(t)'
  BY <1>4, <1>5 DEF Live, TypeOK
<1>10. \A t \in Workers \ {"accel"} : e = Spawn(t) => Live(t)'
  BY <1>4, <1>5, BeatBoxAssumption DEF Live, TypeOK
<1>11. FlagsUp'
  <2> SUFFICES ASSUME NEW t \in Threads \ {"udp"}, Live(t)'
               PROVE  run'[Flag[t]]
    BY DEF FlagsUp
  <2>1. Flag[t] \in Flags
    BY DEF Flags
  <2>2. CASE Live(t)
    BY <1>1, <1>6, <2>1, <2>2 DEF LifeInv, FlagsUp
  <2>3. CASE e = Spawn(t)
    BY <1>1, <1>2, <1>4, <1>6, <2>1, <2>3
  <2> QED
    BY <1>8, <2>2, <2>3
<1>12. ASSUME NEW t \in Workers \ {"udp", "accel"}, isRunning \/ t = "beat",
              Past(Spawn(t))
       PROVE  Live(t)' \/ Blind(t)'
  <2>1. CASE e = Spawn(t)
    BY <1>10, <2>1
  <2>2. CASE Live(t)
    BY <1>9, <2>2, BeatBoxAssumption
  <2>3. CASE Before(Startup, at, Spawn(t)) /\ Blind(t)
    <3>1. t = "encoder" /\ e # Open("encoderLines") /\ res["encoderLines"] # "open"
      BY <1>lines, <2>3 DEF Blind
    <3>2. res'["encoderLines"] = res["encoderLines"]
      <4>1. "encoderLines" \in Resources /\ res \in [Resources -> {"none", "open", "closed"}]
        BY DEF Resources, TypeOK
      <4> QED
        BY <1>4, <1>5, <3>1, <4>1
    <3> QED
      BY <3>1, <3>2 DEF Blind
  <2> QED
    BY <1>1, <1>2, <1>12, <2>1, <2>2, <2>3 DEF LifeInv, WorkersStay, Spawned
<1>13. WorkersStay'
  <2> SUFFICES ASSUME NEW t \in Workers \ {"udp", "accel"}, isRunning' \/ t = "beat"
               PROVE  /\ phase' = "startup" /\ Spawned(t)' => Live(t)' \/ Blind(t)'
                      /\ phase' = "loop" => Live(t)' \/ Blind(t)'
    BY DEF WorkersStay
  <2>1. phase' = "startup" /\ Spawned(t)' => Past(Spawn(t))
    BY <1>3 DEF Spawned, Past
  <2>2. phase' = "loop" => Past(Spawn(t))
    BY <1>3, StartupEnds, BeatBoxAssumption DEF Past
  <2> QED
    BY <1>1, <1>12, <2>1, <2>2
<1>14. UsersHaveTheirs'
  <2>1. ASSUME NEW t \in Threads, Live(t)', NEW r \in Needs(t)
        PROVE  res'[r] = "open"
    <3>1. r \in Resources \ {"lcd", "period", "encoderLines"}
      BY ThreadsAre DEF Needs, Resources
    <3>2. CASE Live(t)
      BY <1>7, <2>1, <3>1, <3>2 DEF LifeInv, UsersHaveTheirs
    <3>3. CASE e = Spawn(t)
      BY <1>2, <1>4, <1>7, <2>1, <3>1, <3>3
    <3> QED
      BY <1>8, <2>1, <3>2, <3>3
  <2>2. /\ thread'["joy"] = "use" => thread["joy"] = "use"
        /\ thread'["encoder"] = "body" => thread["encoder"] = "body"
    BY <1>4, <1>5, ThreadsAre DEF TypeOK
  <2>3. "lcd" \in Resources /\ "sounds" \in Resources /\ "encoderLines" \in Resources
    BY DEF Resources
  <2> QED
    BY <1>7, <2>1, <2>2, <2>3 DEF LifeInv, UsersHaveTheirs
<1>15. PeriodReady'
  <2>1. "period" \in Resources /\ {"player", "display"} \subseteq Threads
    BY ThreadsAre DEF Resources
  <2>2. ASSUME isRunning, NEW t \in {"player", "display"}, Live(t)'
        PROVE  res'["period"] = "open"
    <3>1. CASE Live(t)
      BY <1>1, <1>7, <2>1, <2>2, <3>1 DEF LifeInv, PeriodReady
    <3>2. CASE e = Spawn(t)
      BY <1>2, <1>4, <1>7, <2>2, <3>2
    <3> QED
      BY <1>8, <2>1, <2>2, <3>1, <3>2
  <2>3. isRunning /\ phase' = "loop" => res'["period"] = "open"
    BY <1>3, <1>7, <2>1, StartupEnds DEF Past
  <2> QED
    BY <1>1, <2>2, <2>3 DEF PeriodReady
<1>16. EndIsKnown'
  <2>1. "gpio" \in Resources \ {"lcd", "period", "encoderLines"}
    BY DEF Resources
  <2>2. failed' => failed
    BY <1>1, <1>4, <1>5, <2>1 DEF LifeInv, StartupKeeps, Assert, TypeOK
  <2>3. shuttingDown' => shuttingDown \/ ~isRunning
    BY <1>4, <1>5 DEF TypeOK
  <2> QED
    BY <1>1, <1>3, <2>2, <2>3 DEF LifeInv, EndIsKnown
<1>17. StartupKeeps'
  BY <1>1, <1>3, <1>6, <1>7 DEF StartupKeeps, Past
<1>18. BeatStays' /\ JoinedAreGone'
  BY <1>3 DEF BeatStays, JoinedAreGone
<1> QED
  BY <1>11, <1>13, <1>14, <1>15, <1>16, <1>17, <1>18 DEF LifeInv

\* An entry of the cleanup: whoever used what it closes has been joined, and
\* the beat thread, which never ends, keeps main from closing the drum sounds
\* while the player may still mix them.
LEMMA CleanupLife ==
    ASSUME TypeOK, TypeOK', LifeInv, CleanupStep
    PROVE  LifeInv'
<1> DEFINE e == Cleanup[at]
<1>1. /\ at \in 1 .. Len(Cleanup) /\ at \in Nat /\ at >= 1
      /\ phase = "cleanup" /\ Do(e[1], e[2]) /\ isRunning' = isRunning /\ ~isRunning
  BY CleanupIs DEF CleanupStep, TypeOK, LifeInv, EndIsKnown
<1>2. \/ phase' = "cleanup" /\ at' = at + 1
      \/ phase' = "returned"
  BY <1>1 DEF CleanupStep, Advance
<1>3. \A x : Before(Cleanup, at + 1, x) <=> Before(Cleanup, at, x) \/ e = x
  BY <1>1, OneMore
<1>4. \A t \in Threads : Before(Cleanup, at, Join(t)) => ~Live(t)
  BY <1>1 DEF LifeInv, JoinedAreGone
<1>5. thread' = thread
  <2>1. (\E f \in Flags : e = Clear(f)) \/ (\E t \in Threads : e = Join(t)) \/ (\E r \in Resources : e = Close(r))
    BY <1>1, CleanupOrder, Zenon
  <2> QED
    BY <1>1, <2>1, DoCleanup
<1>6. \A t \in Threads : e = Join(t) => ~Live(t)
  BY <1>1, DoCleanup DEF Live
<1>7. JoinedAreGone'
  BY <1>2, <1>3, <1>4, <1>5, <1>6 DEF JoinedAreGone, Live
<1>8. UsersHaveTheirs'
  <2>1. CASE res' = res
    BY <1>5, <2>1 DEF LifeInv, UsersHaveTheirs, Live
  <2>2. CASE \E r \in Resources :
               /\ e = Close(r)
               /\ \A t \in Threads : r \in Needs(t) => Before(Cleanup, at, Join(t))
               /\ r = "sounds" => Before(Cleanup, at, Join("beat"))
               /\ r = "lcd" => Before(Cleanup, at, Join("joy"))
               /\ r = "encoderLines" => Before(Cleanup, at, Join("encoder"))
    <3>1. PICK r \in Resources :
               /\ e = Close(r)
               /\ \A t \in Threads : r \in Needs(t) => Before(Cleanup, at, Join(t))
               /\ r = "sounds" => Before(Cleanup, at, Join("beat"))
               /\ r = "lcd" => Before(Cleanup, at, Join("joy"))
               /\ r = "encoderLines" => Before(Cleanup, at, Join("encoder"))
      BY <2>2
    <3>2. res' = [res EXCEPT ![r] = "closed"]
      BY <1>1, <3>1, DoCleanup
    <3>3. \A s \in Resources \ {r} : res'[s] = res[s]
      BY <3>2 DEF TypeOK
    <3>4. ASSUME NEW t \in Threads, Live(t)', NEW s \in Needs(t)
          PROVE  res'[s] = "open"
      <4>1. Live(t) /\ s \in Resources /\ res[s] = "open"
        BY <1>5, <3>4, ThreadsAre DEF Live, LifeInv, UsersHaveTheirs, Needs, Resources
      <4>2. s # r
        BY <1>4, <3>1, <4>1
      <4> QED
        BY <3>3, <4>1, <4>2
    <3>5. thread'["joy"] = "use" => res'["lcd"] = "open"
      <4>1. thread["joy"] = "use" => Live("joy") /\ res["lcd"] = "open"
        BY DEF Live, LifeInv, UsersHaveTheirs
      <4>2. "lcd" \in Resources /\ "joy" \in Threads
        BY ThreadsAre DEF Resources
      <4> QED
        BY <1>4, <1>5, <3>1, <3>3, <4>1, <4>2
    <3>6. Live("player")' /\ "beat" \in Workers => res'["sounds"] # "closed"
      <4>1. "beat" \in Workers => Live("beat")
        BY <1>1 DEF LifeInv, BeatStays
      <4>2. "sounds" \in Resources /\ "beat" \in Threads
        BY ThreadsAre DEF Resources
      <4>3. "beat" \in Workers => r # "sounds"
        BY <1>4, <3>1, <4>1, <4>2
      <4> QED
        BY <1>5, <3>3, <4>2, <4>3 DEF LifeInv, UsersHaveTheirs, Live
    <3>7. thread'["encoder"] = "body" => res'["encoderLines"] = "open"
      <4>1. thread["encoder"] = "body" => Live("encoder") /\ res["encoderLines"] = "open"
        BY DEF Live, LifeInv, UsersHaveTheirs
      <4>2. "encoderLines" \in Resources /\ "encoder" \in Threads
        BY ThreadsAre DEF Resources
      <4> QED
        BY <1>4, <1>5, <3>1, <3>3, <4>1, <4>2
    <3> QED
      BY <3>4, <3>5, <3>6, <3>7 DEF UsersHaveTheirs
  <2>3. CASE (\E f \in Flags : e = Clear(f)) \/ (\E t \in Threads : e = Join(t))
    BY <1>1, <2>1, <2>3, DoCleanup
  <2> QED
    BY <1>1, <2>2, <2>3, CleanupOrder, Zenon
<1>9. BeatStays' /\ EndIsKnown' /\ PeriodReady'
  BY <1>1, <1>5 DEF LifeInv, BeatStays, EndIsKnown, PeriodReady, Live
<1>10. StartupKeeps' /\ FlagsUp' /\ WorkersStay'
  BY <1>2 DEF StartupKeeps, FlagsUp, WorkersStay
<1> QED
  BY <1>7, <1>8, <1>9, <1>10 DEF LifeInv

\* The loop of main, and a startup that fails.
LEMMA LoopLife ==
    ASSUME TypeOK, TypeOK', LifeInv,
           StartupFails \/ LoopTest \/ LoopStop \/ LoopAccel \/ LoopDisplay \/ LoopSleep
    PROVE  LifeInv'
<1>1. UNCHANGED <<run, thread, res>> /\ (isRunning' => isRunning)
  BY DEF StartupFails, LoopTest, LoopStop, LoopAccel, LoopDisplay, LoopSleep, stopVars
<1>2. \A t : Live(t)' <=> Live(t)
  BY <1>1 DEF Live
<1>3. \/ phase = "loop" /\ phase' = "loop"
      \/ phase = "loop" /\ phase' = "cleanup" /\ at' = 1 /\ ~isRunning'
      \/ phase' = "returned"
  BY DEF StartupFails, LoopTest, LoopStop, LoopAccel, LoopDisplay, LoopSleep, AtLoop, GoTo,
         LeaveLoop, stopVars
<1>4. UsersHaveTheirs' /\ PeriodReady'
  BY <1>1, <1>2, <1>3 DEF LifeInv, UsersHaveTheirs, PeriodReady
<1>5. StartupKeeps' /\ FlagsUp' /\ WorkersStay' /\ BeatStays'
  BY <1>1, <1>2, <1>3 DEF LifeInv, StartupKeeps, FlagsUp, WorkersStay, BeatStays, Blind
<1>6. JoinedAreGone'
  BY <1>3 DEF JoinedAreGone, Before
<1>7. EndIsKnown'
  <2>1. failed' => failed \/ ~isRunning
    BY DEF StartupFails, LoopTest, LoopStop, LoopAccel, LoopDisplay, LoopSleep, AtLoop, Assert,
           LifeInv, PeriodReady
  <2>2. shuttingDown' => shuttingDown \/ ~isRunning'
    BY DEF StartupFails, LoopTest, LoopStop, LoopAccel, LoopDisplay, LoopSleep, stopVars
  <2> QED
    BY <1>1, <1>3, <2>1, <2>2 DEF LifeInv, EndIsKnown, TypeOK
<1> QED
  BY <1>4, <1>5, <1>6, <1>7 DEF LifeInv

\* The signal handler only ends the running.
LEMMA SignalLife ==
    ASSUME TypeOK, TypeOK', LifeInv, SignalEnters \/ SignalRegisters
    PROVE  LifeInv'
<1>1. /\ UNCHANGED <<phase, at, run, thread, res, failed>> /\ (isRunning' => isRunning)
      /\ shuttingDown' => shuttingDown \/ ~isRunning'
  BY DEF SignalEnters, SignalRegisters, mainVars, TypeOK
<1>2. \A t : Live(t)' <=> Live(t)
  BY <1>1 DEF Live
<1>3. UsersHaveTheirs' /\ PeriodReady' /\ EndIsKnown'
  BY <1>1, <1>2 DEF LifeInv, UsersHaveTheirs, PeriodReady, EndIsKnown
<1>4. StartupKeeps' /\ FlagsUp' /\ WorkersStay' /\ BeatStays' /\ JoinedAreGone'
  BY <1>1, <1>2 DEF LifeInv, StartupKeeps, FlagsUp, WorkersStay, Spawned, BeatStays,
                    JoinedAreGone, Blind
<1> QED
  BY <1>3, <1>4 DEF LifeInv

\* A thread ends only when it must, and then only the display's takes anything
\* with it, the period timer.
LEMMA ThreadLife ==
    ASSUME TypeOK, TypeOK', LifeInv, NEW t \in Threads, ThreadStep(t)
    PROVE  LifeInv'
<1>1. UNCHANGED <<phase, at, run, isRunning, shuttingDown>> /\ phase # "returned"
  BY DEF ThreadStep, Test, Pressed, Turned, Received, Processed, JoyPass, JoyDrawn, PlayerPass,
         DisplayPass, BeatPass, stopVars, mainVars, In, Alive
<1>2. /\ Live(t)
      /\ \A u \in Threads \ {t} : thread'[u] = thread[u]
      /\ ~Live(t)' => t # "beat" /\ MustExit(t)
      /\ thread'[t] = "use" /\ t = "joy" => res["lcd"] = "open"
      /\ thread'[t] = "body" /\ t = "encoder" => ~Blind(t)
  <2> USE DEF Live, In, Move, TypeOK
  <2>1. CASE Test(t)
    BY <2>1 DEF Test, MustExit, Samplers
  <2>2. CASE Pressed(t)
    BY <2>2 DEF Pressed, Buttons
  <2>3. CASE t = "encoder" /\ Turned
    BY <2>3 DEF Turned
  <2>4. CASE t = "udp" /\ (Received \/ Processed)
    <3>1. Flag["udp"] = "udp"
      BY DEF Flag
    <3> QED
      BY <2>4, <3>1 DEF Received, Processed, MustExit
  <2>5. CASE t = "joy" /\ (JoyPass \/ JoyDrawn)
    BY <2>5 DEF JoyPass, JoyDrawn
  <2>6. CASE t = "player" /\ PlayerPass
    BY <2>6 DEF PlayerPass
  <2>7. CASE t = "display" /\ DisplayPass
    BY <2>7 DEF DisplayPass
  <2>8. CASE t = "beat" /\ BeatPass
    BY <2>8 DEF BeatPass
  <2> QED
    BY <2>1, <2>2, <2>3, <2>4, <2>5, <2>6, <2>7, <2>8 DEF ThreadStep
<1>3. \A u \in Threads : Live(u)' => Live(u)
  BY <1>2 DEF Live
<1>4. \/ res' = res
      \/ t = "display" /\ MustExit(t) /\ res' = [res EXCEPT !["period"] = "closed"]
  BY DEF ThreadStep, Test, Pressed, Turned, Received, Processed, JoyPass, JoyDrawn, PlayerPass,
         DisplayPass, BeatPass
<1>5. \A r \in Resources \ {"period"} : res'[r] = res[r]
  BY <1>4 DEF TypeOK
<1>6. MustExit(t) /\ t # "udp" /\ phase \in {"startup", "loop"} =>
          (t = "display" /\ shuttingDown) \/ Blind(t)
  BY <1>2 DEF MustExit, LifeInv, FlagsUp
<1>7. isRunning => /\ phase \in {"startup", "loop"} /\ ~shuttingDown
                   /\ res' = res
                   /\ \A u \in Threads \ {"udp"} : Live(u) => Live(u)' \/ Blind(u)
  <2>1. isRunning => phase \in {"startup", "loop"} /\ ~shuttingDown
    BY <1>1 DEF LifeInv, EndIsKnown, TypeOK
  <2> QED
    BY <1>2, <1>3, <1>4, <1>6, <2>1 DEF Live, Blind
<1>8. Live("beat")' <=> Live("beat")
  BY <1>2, <1>3, ThreadsAre DEF Live
<1>9. StartupKeeps'
  BY <1>1, <1>5, <1>7 DEF LifeInv, StartupKeeps
<1>10. FlagsUp'
  BY <1>1, <1>3 DEF LifeInv, FlagsUp
<1>11. WorkersStay' /\ BeatStays'
  <2>1. \A u : Blind(u)' <=> Blind(u)
    BY <1>5 DEF Blind, Resources
  <2> QED
    BY <1>1, <1>7, <1>8, <2>1, BeatBoxAssumption
    DEF LifeInv, WorkersStay, Spawned, BeatStays, Blind
<1>12. JoinedAreGone'
  BY <1>1, <1>3 DEF LifeInv, JoinedAreGone
<1>13. UsersHaveTheirs'
  <2>1. \A u \in Threads : \A r \in Needs(u) : r \in Resources \ {"period"}
    BY ThreadsAre DEF Needs, Resources
  <2>2. "lcd" \in Resources \ {"period"} /\ "sounds" \in Resources \ {"period"}
        /\ "encoderLines" \in Resources \ {"period"}
    BY DEF Resources
  <2>3. "joy" \in Threads /\ "player" \in Threads /\ "encoder" \in Threads
    BY ThreadsAre
  <2>4. thread'["encoder"] = "body" => res["encoderLines"] = "open"
    BY <1>2, <2>3 DEF LifeInv, UsersHaveTheirs, Blind
  <2> QED
    BY <1>2, <1>3, <1>5, <2>1, <2>2, <2>3, <2>4 DEF LifeInv, UsersHaveTheirs
<1>14. PeriodReady'
  <2>1. {"player", "display"} \subseteq Threads
    BY ThreadsAre
  <2> QED
    BY <1>1, <1>3, <1>7, <2>1 DEF LifeInv, PeriodReady
<1>15. EndIsKnown'
  <2>1. failed' => failed \/ ~isRunning
    <3>1. CASE Test(t)
      <4>1. t \in Buttons => "gpio" \in Needs(t)
        BY DEF Buttons, Needs
      <4>2. t \in Buttons => res["gpio"] = "open"
        BY <1>2, <4>1 DEF LifeInv, UsersHaveTheirs
      <4> QED
        BY <3>1, <4>2 DEF Test, Assert
    <3>2. CASE ~Test(t)
      <4>1. t \in {"player", "display"} /\ isRunning => res["period"] = "open"
        BY <1>1, <1>2 DEF LifeInv, PeriodReady
      <4> QED
        BY <3>2, <4>1 DEF ThreadStep, Pressed, Turned, Received, Processed, JoyPass, JoyDrawn,
             PlayerPass, DisplayPass, BeatPass, Assert
    <3> QED
      BY <3>1, <3>2
  <2> QED
    BY <1>1, <2>1 DEF LifeInv, EndIsKnown, TypeOK
<1> QED
  BY <1>9, <1>10, <1>11, <1>12, <1>13, <1>14, <1>15 DEF LifeInv

\* Every step keeps it.
LEMMA StepLife == TypeOK /\ TypeOK' /\ LifeInv /\ [Next]_vars => LifeInv'
<1> SUFFICES ASSUME TypeOK, TypeOK', LifeInv, [Next]_vars
             PROVE  LifeInv'
  OBVIOUS
<1>1. CASE UNCHANGED vars
  BY <1>1 DEF vars, LifeInv, StartupKeeps, FlagsUp, WorkersStay, Spawned, BeatStays, EndIsKnown,
              JoinedAreGone, UsersHaveTheirs, PeriodReady, Live, Blind
<1> QED
  BY <1>1, StartupLife, CleanupLife, LoopLife, SignalLife, ThreadLife DEF Next, Main, Returned

------------------------------------------------------------------------------
(* The theorems.                                                           *)

\* Every variable keeps its type; main never runs past the end of a table.
THEOREM BeatBoxTypeOK == Spec => []TypeOK
  BY InitType, StepType, PTL DEF Spec

\* No thread touches a component before it is open or after it is closed.  Of
\* the threads this needs the beat thread: the cleanup frees the drum sounds
\* before it ends the player that may still mix them, and it is only the join
\* of the beat thread, which never ends, that keeps it from getting there.
THEOREM BeatBoxUsesNothingClosed ==
    ASSUME "beat" \in Workers
    PROVE  Spec => []NothingUsedClosed
<1>1. TypeOK /\ LifeInv => NothingUsedClosed
  <2> SUFFICES ASSUME TypeOK, LifeInv, NEW t \in Threads, NEW r \in Uses(t)
               PROVE  res[r] = "open"
    BY DEF NothingUsedClosed
  <2>1. Live(t)
    BY DEF Uses, Live
  <2>2. \/ r \in Needs(t)
        \/ t = "joy" /\ thread["joy"] = "use" /\ r = "lcd"
        \/ t = "encoder" /\ thread["encoder"] = "body" /\ r = "encoderLines"
        \/ t = "player" /\ r = "sounds" /\ res["sounds"] # "none"
    BY DEF Uses, Needs, Queued
  <2>3. res["sounds"] \in {"none", "open", "closed"}
    BY DEF TypeOK, Resources
  <2> QED
    BY <2>1, <2>2, <2>3 DEF LifeInv, UsersHaveTheirs
<1> QED
  BY InitType, StepType, InitLife, StepLife, <1>1, PTL DEF Spec

\* While the program is running no worker has quietly left its loop, but for a
\* listener that was overtaken by its own flag, an absent accelerometer, and a
\* rotation thread whose lines could not be opened.
THEOREM BeatBoxWorkersStay == Spec => []WorkersStayWhileRunning
<1>1. LifeInv => WorkersStayWhileRunning
  BY DEF LifeInv, WorkersStay, WorkersStayWhileRunning, Live
<1> QED
  BY InitType, StepType, InitLife, StepLife, <1>1, PTL DEF Spec

\* An assertion can fail only on the way out.
THEOREM BeatBoxAbortsOnlyAtShutdown == Spec => []AbortsOnlyAtShutdown
<1>1. LifeInv => AbortsOnlyAtShutdown
  BY DEF LifeInv, EndIsKnown, AbortsOnlyAtShutdown
<1> QED
  BY InitType, StepType, InitLife, StepLife, <1>1, PTL DEF Spec

\* The cleanup never gets past the join of the beat thread: a main that has
\* started everything does not return.
THEOREM BeatBoxStopsAtTheBeatThread ==
    ASSUME "beat" \in Workers
    PROVE  Spec => [](phase = "cleanup" => ~Before(Cleanup, at, Join("beat")))
<1>1. LifeInv => (phase = "cleanup" => ~Before(Cleanup, at, Join("beat")))
  BY ThreadsAre DEF LifeInv, BeatStays, JoinedAreGone
<1> QED
  BY InitType, StepType, InitLife, StepLife, <1>1, PTL DEF Spec
==============================================================================
