------------------------------ MODULE TempoSync ------------------------------
(***************************************************************************)
(* The tempo of the beatbox lives twice: the encoder's currentBPM, which   *)
(* the knob and RotaryEncoder_setBPM change under its mutex, and the beat  *)
(* player's.  The main loop copies the first to the second in two steps    *)
(* (main.c:145-146), and the UDP command "tempo" sets the player's, then   *)
(* the encoder's (udpServer.c:192-205).  The listener is started before    *)
(* the encoder is (main.c:76, 80), and the encoder starts at its default.  *)
(***************************************************************************)
EXTENDS Integers

CONSTANTS
    MIN_BPM, MAX_BPM,       \* 40 and 300 in the code
    BPM_CHANGE_AMOUNT,      \* 5
    DEFAULT_BPM,            \* 120
    Tempos,                 \* tempos a UDP command may ask for
    MaxRequests             \* bound: turns of the knob and commands

ASSUME TempoAssumption ==
    /\ MIN_BPM \in Nat /\ MAX_BPM \in Nat
    /\ DEFAULT_BPM \in MIN_BPM .. MAX_BPM
    /\ BPM_CHANGE_AMOUNT \in Nat /\ MaxRequests \in Nat
    /\ Tempos \subseteq Int

InRange == MIN_BPM .. MAX_BPM

VARIABLES
    encoderBPM,     \* currentBPM of rotaryEncoder.c
    playerBPM,      \* currentBPM of beatPlayer.c
    main,           \* "encoder" and "player" before the loop, then
    bpm,            \* "read" and "set" with the copy it read
    udp,            \* "idle", "encoder" or "reply", and the tempo
    tempo,          \* it is setting
    requests,
    latest,         \* history: the tempo asked for last
    age             \* history: 0, 1 when an iteration of main has begun since
                    \* the last request was carried out, 2 when it has ended

vars == <<encoderBPM, playerBPM, main, bpm, udp, tempo, requests, latest, age>>

TypeOK ==
    /\ {encoderBPM, playerBPM, bpm, tempo, latest} \subseteq InRange
    /\ main \in {"encoder", "player", "read", "set"}
    /\ udp \in {"idle", "encoder", "reply"}
    /\ requests \in 0 .. MaxRequests
    /\ age \in 0 .. 2

\* UdpServer_init has just started the listener.
Init ==
    /\ encoderBPM = DEFAULT_BPM /\ playerBPM = DEFAULT_BPM
    /\ main = "encoder" /\ bpm = DEFAULT_BPM
    /\ udp = "idle" /\ tempo = DEFAULT_BPM
    /\ requests = 0 /\ latest = DEFAULT_BPM /\ age = 0

\* RotaryEncoder_init, then BeatPlayer_setTempo: an early command is undone.
InitEncoder ==
    /\ main = "encoder"
    /\ encoderBPM' = DEFAULT_BPM
    /\ main' = "player"
    /\ latest' = DEFAULT_BPM
    /\ UNCHANGED <<playerBPM, bpm, udp, tempo, requests, age>>

SetDefault ==
    /\ main = "player"
    /\ playerBPM' = DEFAULT_BPM
    /\ main' = "read"
    /\ UNCHANGED <<encoderBPM, bpm, udp, tempo, requests, latest, age>>

ReadEncoder ==
    /\ main = "read"
    /\ bpm' = encoderBPM
    /\ main' = "set"
    /\ age' = IF udp # "encoder" /\ age = 0 THEN 1 ELSE age
    /\ UNCHANGED <<encoderBPM, playerBPM, udp, tempo, requests, latest>>

SetPlayer ==
    /\ main = "set"
    /\ playerBPM' = bpm
    /\ main' = "read"
    /\ age' = IF age = 1 THEN 2 ELSE age
    /\ UNCHANGED <<encoderBPM, bpm, udp, tempo, requests, latest>>

BugTurned(n) == n                       \* mutant: no limits

Turned(n) ==
    IF n < MIN_BPM THEN MIN_BPM ELSE IF n > MAX_BPM THEN MAX_BPM ELSE n

\* The rotation thread accepts a turn, under the encoder's mutex.
Turn(by) ==
    /\ requests < MaxRequests /\ main # "encoder"
    /\ encoderBPM' = Turned(encoderBPM + by)
    /\ requests' = requests + 1
    /\ latest' = encoderBPM' /\ age' = 0
    /\ UNCHANGED <<playerBPM, main, bpm, udp, tempo>>

\* "tempo t", ignored out of range: first the player ...
UdpTempo(t) ==
    /\ udp = "idle" /\ requests < MaxRequests
    /\ t \in InRange
    /\ playerBPM' = t /\ tempo' = t
    /\ udp' = "encoder"
    /\ requests' = requests + 1
    /\ age' = 0
    /\ UNCHANGED <<encoderBPM, main, bpm, latest>>

BugSetBPM == UNCHANGED encoderBPM       \* mutant: left to the main loop

SetBPM == encoderBPM' = Turned(tempo)

\* ... then the encoder, ...
UdpSetBPM ==
    /\ udp = "encoder"
    /\ SetBPM
    /\ udp' = "reply"
    /\ latest' = tempo /\ age' = 0
    /\ UNCHANGED <<playerBPM, main, bpm, tempo, requests>>

\* ... then the answer.
UdpReply ==
    /\ udp = "reply"
    /\ udp' = "idle"
    /\ UNCHANGED <<encoderBPM, playerBPM, main, bpm, tempo, requests, latest, age>>

MainStep == InitEncoder \/ SetDefault \/ ReadEncoder \/ SetPlayer
UdpStep == UdpSetBPM \/ UdpReply

Next ==
    \/ MainStep \/ UdpStep
    \/ Turn(BPM_CHANGE_AMOUNT) \/ Turn(-BPM_CHANGE_AMOUNT)
    \/ \E t \in Tempos : UdpTempo(t)

Spec == Init /\ [][Next]_vars

------------------------------------------------------------------------------
\* A copy read too early may undo a command for a while, but one iteration of
\* the main loop after the last request the beat is played at the tempo asked
\* for last, and the knob goes on from there.
LatestTempoPlays ==
    age = 2 /\ main = "read" => encoderBPM = latest /\ playerBPM = latest
==============================================================================
