----------------------------- MODULE LightSampler -----------------------------
(***************************************************************************)
(* The light sampler of assignment 2: sampler.c reads the sensor every     *)
(* millisecond in a thread of its own, averages, and keeps the samples of  *)
(* the current and of the previous second; the thread of                   *)
(* terminal_display.c moves one to the other once a second and prints; the *)
(* thread of udp_server.c answers commands, the history of a second in as  *)
(* many datagrams as it takes; main starts and ends it all.  Voltages are  *)
(* whole numbers, any unit; the average, kept as a double, is any value    *)
(* between the last average and the sample.  The knob and the LED are in   *)
(* FlashControl; of their thread only the life is here.                    *)
(***************************************************************************)
EXTENDS Integers, Sequences, FiniteSets

CONSTANTS
    Voltages,               \* of the sensor
    DIP_THRESHOLD, HYSTERESIS,
    MAX_SAMPLES_PER_SECOND, \* 700
    MAX_RESPONSE_SIZE,      \* 1500: characters of a datagram
    Margin,                 \* 50: room left in a datagram that is sent
    NumberSize,             \* 5: characters of a number, without separator
    PerLine,                \* 10: numbers in a line
    MaxSamples              \* bound: samples taken

ASSUME SamplerAssumption ==
    /\ Voltages \subseteq Nat /\ Voltages # {}
    /\ HYSTERESIS \in Nat \ {0} /\ DIP_THRESHOLD \in Nat /\ HYSTERESIS < DIP_THRESHOLD
    /\ {MAX_SAMPLES_PER_SECOND, NumberSize, PerLine} \subseteq Nat \ {0}
    /\ MAX_RESPONSE_SIZE \in Nat /\ Margin \in Nat
    /\ NumberSize + 2 < Margin /\ Margin <= MAX_RESPONSE_SIZE
    /\ MaxSamples \in Nat

\* What the others do with a command differs in its answer only; "" is an
\* empty line.
Commands == {"help", "history", "stop"}
Threads == {"sampling", "server", "display", "encoder"}

VARIABLES
    main,                   \* place of main: the component it starts or ends
    stopping,               \* threads whose own should_stop is set
    thread,                 \* thread[t]: "none", "ended" or its place
    i2c_file_desc,          \* open?
    current_samples, history_samples,
    current_average, total_samples,
    last_command, command,  \* udp_server.c: the one kept, the one in hand
    copy, pos,              \* its copy of the history, and numbers sent of it
    received,               \* client: the numbers of the last answer
    log, cuts               \* history: all samples taken, and after how many
                            \* of them the current ones were moved

samples == <<current_samples, history_samples, current_average, total_samples,
             log, cuts>>
server == <<last_command, command, copy, pos, received>>
vars == <<main, stopping, thread, i2c_file_desc, samples, server>>

TypeOK ==
    /\ main \in {"start sampler", "start server", "start lcd", "start display",
                 "start encoder", "loop", "stop encoder", "join encoder",
                 "stop display", "join display", "stop server", "join server",
                 "stop sampler", "join sampler", "ended"}
    /\ stopping \subseteq Threads
    /\ thread \in [Threads -> {"none", "test", "busy", "wait", "send", "ended"}]
    /\ i2c_file_desc \in BOOLEAN
    /\ current_samples \in Seq(Voltages) /\ history_samples \in Seq(Voltages)
    /\ current_average \in Nat /\ total_samples \in Nat
    /\ last_command \in Commands \cup {""} /\ command \in Commands \cup {""}
    /\ copy \in Seq(Voltages) /\ pos \in Nat /\ received \in Seq(Voltages)
    /\ log \in Seq(Voltages) /\ cuts \subseteq Nat

\* The GPIO chips are open and the period timer is initialized.
Init ==
    /\ main = "start sampler" /\ stopping = {}
    /\ thread = [t \in Threads |-> "none"] /\ i2c_file_desc = FALSE
    /\ current_samples = << >> /\ history_samples = << >>
    /\ current_average = 0 /\ total_samples = 0
    /\ last_command = "" /\ command = "" /\ copy = << >> /\ pos = 0
    /\ received = << >> /\ log = << >> /\ cuts = {0}

GoTo(t, place) == thread' = [thread EXCEPT ![t] = place]
Running == main # "ended"

------------------------------------------------------------------------------
(* sampler.c.  Every function holds data_mutex from end to end.            *)

TestSampling ==
    /\ Running /\ thread["sampling"] = "test"
    /\ total_samples < MaxSamples \/ "sampling" \in stopping
    /\ GoTo("sampling", IF "sampling" \in stopping THEN "ended" ELSE "busy")
    /\ UNCHANGED <<main, stopping, i2c_file_desc, samples, server>>

Between(a, b) == IF a <= b THEN a .. b ELSE b .. a

BugHasRoom == total_samples < MAX_SAMPLES_PER_SECOND
                                        \* mutant: the wrong counter

HasRoom == Len(current_samples) < MAX_SAMPLES_PER_SECOND

TakeSample(v) ==
    /\ Running /\ thread["sampling"] = "busy"
    /\ total_samples' = total_samples + 1
    /\ current_average' \in IF total_samples = 0 THEN {v}
                            ELSE Between(current_average, v)
    /\ current_samples' = IF HasRoom THEN Append(current_samples, v)
                          ELSE current_samples
    /\ log' = Append(log, v)
    /\ GoTo("sampling", "test")
    /\ UNCHANGED <<main, stopping, i2c_file_desc, history_samples, cuts, server>>

\* A failed transfer ends the process, wherever the others are.
SampleFails ==
    /\ Running /\ thread["sampling"] = "busy"
    /\ main' = "ended"
    /\ UNCHANGED <<stopping, thread, i2c_file_desc, samples, server>>

MoveCurrentDataToHistory ==
    /\ history_samples' = current_samples
    /\ current_samples' = << >>
    /\ cuts' = cuts \cup {Len(log)}
    /\ UNCHANGED <<current_average, total_samples, log>>

BugRises(diff) == diff < DIP_THRESHOLD  \* mutant: no hysteresis

\* The light is back, as far as the next dip is concerned.
Rises(diff) == diff <= DIP_THRESHOLD - HYSTERESIS

\* analyze_dips, after the first i samples.
AnalyzeDips(avg, h) ==
    LET after[i \in 0 .. Len(h)] ==
            IF i = 0 THEN [dip_count |-> 0, waiting_for_reset |-> FALSE]
            ELSE LET s == after[i - 1]
                     diff == avg - h[i]
                 IN  IF ~s.waiting_for_reset /\ diff >= DIP_THRESHOLD
                     THEN [dip_count |-> s.dip_count + 1, waiting_for_reset |-> TRUE]
                     ELSE [s EXCEPT !.waiting_for_reset = @ /\ ~Rises(diff)]
    IN  after[Len(h)].dip_count

------------------------------------------------------------------------------
(* terminal_display.c.                                                     *)

\* Display and encoder also look at the server's flag.
ServerAsks == "server" \in stopping

\* The test of a loop that ends for its own flag and for the server's.
TestBoth(t, place) ==
    /\ Running /\ thread[t] = "test"
    /\ GoTo(t, IF t \in stopping \/ ServerAsks THEN "ended" ELSE place)
    /\ stopping' = IF ServerAsks THEN stopping \cup {t} ELSE stopping
    /\ UNCHANGED <<main, i2c_file_desc, samples, server>>

TestDisplay == TestBoth("display", "busy")

\* print_display_line reads only; then a second's sleep.
PrintAndMove ==
    /\ Running /\ thread["display"] = "busy"
    /\ MoveCurrentDataToHistory
    /\ GoTo("display", "test")
    /\ UNCHANGED <<main, stopping, i2c_file_desc, server>>

------------------------------------------------------------------------------
(* udp_server.c.                                                           *)

ServerStops == "server" \in stopping

TestServer ==
    /\ Running /\ thread["server"] = "test"
    /\ GoTo("server", IF ServerStops THEN "ended" ELSE "wait")
    /\ command' = "" /\ received' = << >>
    /\ UNCHANGED <<main, stopping, i2c_file_desc, samples, last_command, copy, pos>>

\* recvfrom; an empty line repeats the last command.
Receive(line) ==
    /\ Running /\ thread["server"] = "wait"
    /\ IF line = "" /\ last_command = "" THEN GoTo("server", "test")
       ELSE GoTo("server", "busy")
    /\ last_command' = IF line = "" THEN last_command ELSE line
    /\ command' = last_command'
    /\ UNCHANGED <<main, stopping, i2c_file_desc, samples, copy, pos, received>>

\* handle_command; Sampler_getHistory hands out a copy.
HandleCommand ==
    /\ Running /\ thread["server"] = "busy"
    /\ IF command = "history"
       THEN copy' = history_samples /\ GoTo("server", "send")
       ELSE UNCHANGED copy /\ GoTo("server", "test")
    /\ stopping' = IF command = "stop" THEN stopping \cup {"server"} ELSE stopping
    /\ UNCHANGED <<main, i2c_file_desc, samples, last_command, command, pos, received>>

\* Characters of numbers i to j with the separators behind them: none behind
\* the last of all, a newline behind a line, a comma and a space otherwise.
Characters(n, i, j) ==
    LET numbers == i .. j
        spaced == {k \in numbers : k < n /\ k % PerLine # 0}
        ended == {k \in numbers : k < n /\ k % PerLine = 0}
    IN  NumberSize * Cardinality(numbers) + 2 * Cardinality(spaced)
            + Cardinality(ended)

Full(n, i, j) == Characters(n, i, j) > MAX_RESPONSE_SIZE - Margin \/ j = n

BugSource ==                            \* mutant: a pointer, not a copy
    history_samples \o SubSeq(copy, Len(history_samples) + 1, Len(copy))

Source == copy

\* The loop of send_history as far as the next datagram it sends, or out of it.
SendPacket ==
    LET n == Len(copy)
        ends == {j \in pos + 1 .. n : Full(n, pos + 1, j)}
    IN  /\ Running /\ thread["server"] = "send"
        /\ IF ends = {}
           THEN GoTo("server", "test") /\ pos' = 0 /\ copy' = << >>
                /\ UNCHANGED received
           ELSE \E j \in ends :
                    /\ \A k \in ends : j <= k
                    /\ received' = received \o SubSeq(Source, pos + 1, j)
                    /\ pos' = j
                    /\ UNCHANGED <<thread, copy>>
        /\ UNCHANGED <<main, stopping, i2c_file_desc, samples, last_command, command>>

------------------------------------------------------------------------------
(* main.c.  Where main goes after a component it starts or stops.          *)

Start(t, next) ==
    /\ GoTo(t, "test")
    /\ stopping' = stopping \ {t}
    /\ main' = next

SamplerInit ==
    /\ main = "start sampler"
    /\ i2c_file_desc' = TRUE /\ Start("sampling", "start server")
    /\ UNCHANGED <<samples, server>>

\* UdpServer_init, then PwmLed_init, which nothing here waits for.
UdpServerInit ==
    /\ main = "start server" /\ Start("server", "start lcd")
    /\ UNCHANGED <<i2c_file_desc, samples, server>>

LcdDisplayInit ==
    /\ main = "start lcd" /\ main' = "start display"
    /\ UNCHANGED <<stopping, thread, i2c_file_desc, samples, server>>

TerminalDisplayInit ==
    /\ main = "start display" /\ Start("display", "start encoder")
    /\ UNCHANGED <<i2c_file_desc, samples, server>>

RotaryEncoderInit ==
    /\ main = "start encoder" /\ Start("encoder", "loop")
    /\ UNCHANGED <<i2c_file_desc, samples, server>>

\* All but the terminal display exit if a device or the port is missing.
StartupFails ==
    /\ main \in {"start sampler", "start server", "start lcd", "start encoder"}
    /\ main' = "ended"
    /\ UNCHANGED <<stopping, thread, i2c_file_desc, samples, server>>

BugTestMain ==                          \* mutant: while (1)
    /\ main = "loop"
    /\ UNCHANGED vars

\* The test of the main loop; its body shows the frequency and the dips.
TestMain ==
    /\ main = "loop"
    /\ main' = IF "server" \in stopping THEN "stop encoder" ELSE "loop"
    /\ UNCHANGED <<stopping, thread, i2c_file_desc, samples, server>>

Stop(t, here, next) ==
    /\ main = here
    /\ stopping' = stopping \cup {t}
    /\ main' = next
    /\ UNCHANGED <<thread, i2c_file_desc, samples, server>>

Join(t, here, next) ==
    /\ main = here /\ thread[t] = "ended"
    /\ i2c_file_desc' = (i2c_file_desc /\ t # "sampling")
    /\ main' = next
    /\ UNCHANGED <<stopping, thread, samples, server>>

\* The encoder's thread waits for edges, 100 ms at the most.
TestEncoder == TestBoth("encoder", "test")

MainStep ==
    \/ SamplerInit \/ UdpServerInit \/ LcdDisplayInit
    \/ TerminalDisplayInit \/ RotaryEncoderInit
    \/ TestMain
    \/ Stop("encoder", "stop encoder", "join encoder")
    \/ Join("encoder", "join encoder", "stop display")
    \/ Stop("display", "stop display", "join display")
    \/ Join("display", "join display", "stop server")
    \/ Stop("server", "stop server", "join server")
    \/ Join("server", "join server", "stop sampler")
    \/ Stop("sampling", "stop sampler", "join sampler")
    \/ Join("sampling", "join sampler", "ended")

Sampling == TestSampling \/ \E v \in Voltages : TakeSample(v)
Display == TestDisplay \/ PrintAndMove
Server == TestServer \/ HandleCommand \/ SendPacket

Ended == main = "ended" /\ UNCHANGED vars

Next ==
    \/ MainStep \/ StartupFails
    \/ Sampling \/ SampleFails
    \/ Display
    \/ Server \/ \E line \in Commands \cup {""} : Receive(line)
    \/ TestEncoder
    \/ Ended

Spec == Init /\ [][Next]_vars

\* All threads are scheduled; no client owes a command.
FairSpec ==
    /\ Spec
    /\ WF_vars(MainStep) /\ WF_vars(Sampling) /\ WF_vars(Display)
    /\ WF_vars(Server) /\ WF_vars(TestEncoder)

------------------------------------------------------------------------------
(* Properties.                                                             *)

AtMost(n, s) == SubSeq(s, 1, IF Len(s) < n THEN Len(s) ELSE n)

\* The samples after cut a up to cut b, as many as there is room for.
Second(a, b) == AtMost(MAX_SAMPLES_PER_SECOND, SubSeq(log, a + 1, b))

Before(b) == {a \in cuts : a < b}
LastBefore(b) == CHOOSE a \in Before(b) : \A c \in Before(b) : c <= a
LastCut == CHOOSE a \in cuts : \A c \in cuts : c <= a

\* The samples of one whole second: what was taken between two moves.
IsSecond(s) ==
    s = << >> \/ \E b \in cuts \ {0} : s = Second(LastBefore(b), b)

\* Every sample taken is in the second it belongs to or was in excess of the
\* 700: none is lost, doubled or late between two seconds, whenever the
\* display thread moves them (sampler.c:157-180, 228-240).
SecondsAreWhole ==
    /\ total_samples = Len(log)
    /\ current_samples = Second(LastCut, Len(log))
    /\ history_samples = << >> \/ history_samples = Second(LastBefore(LastCut), LastCut)

\* A dip is counted at each sample a threshold below the average, unless the
\* light has not come back since an earlier such sample (sampler.c:280-318).
DipsAreSeparate ==
    LET diff(i) == current_average - history_samples[i]
        Low == {i \in DOMAIN history_samples : diff(i) >= DIP_THRESHOLD}
        back(j, i) == \E k \in j + 1 .. i - 1 : diff(k) <= DIP_THRESHOLD - HYSTERESIS
    IN  AnalyzeDips(current_average, history_samples) =
            Cardinality({i \in Low : \A j \in Low : j < i => back(j, i)})

\* "Must rise by 0.07V (0.1 - 0.03) before can trigger again" (sampler.c:40):
\* a second dip is counted only if the voltage rose by that much.
RisesBetweenDips ==
    LET h == history_samples
    IN  AnalyzeDips(current_average, h) > 1 =>
            \E i, k \in DOMAIN h : i < k /\ h[k] - h[i] >= DIP_THRESHOLD - HYSTERESIS

\* A client that asks for the history gets the numbers of one second, all of
\* them, once and in order, in datagrams that fit the buffer with a terminating
\* 0, although the next second is moved in while they are sent
\* (sampler.c:250-261, udp_server.c:205-258).
HistoryArrivesWhole ==
    /\ thread["server"] = "test" /\ command = "history" => IsSecond(received)
    /\ thread["server"] = "send" =>
          \A i \in DOMAIN copy, j \in DOMAIN copy :
             (i <= j /\ \A k \in i .. j - 1 : ~Full(Len(copy), i, k))
                 => Characters(Len(copy), i, j) < MAX_RESPONSE_SIZE

\* After the command "stop" the process ends: each of the four threads leaves
\* its loop although one of them waits for datagrams and main asks for the
\* stop in the thread that is joined third (main.c:68-125, udp_server.c:67-84).
StopEndsProgram == "server" \in stopping ~> main = "ended"
==============================================================================
