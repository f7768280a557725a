------------------------------- MODULE WebRelay -------------------------------
(***************************************************************************)
(* The way of a request from the web page to the beatbox and back:         *)
(* public/javascripts/beatbox_ui.js in the browser, lib/beatbox_server.js  *)
(* in node, which opens a UDP socket of its own for every request, and the *)
(* listener of UdpServer, whose steps are those of that module.  Datagrams *)
(* may be lost, answers may overtake each other or come after the error    *)
(* that node reports instead, and node may die.  The volume stands for the *)
(* four values the page polls.  Between browser and node messages keep     *)
(* their order (a websocket) and are delivered at once or, if node is      *)
(* dead, never.                                                            *)
(***************************************************************************)
EXTENDS UdpServer

CONSTANTS
    Relays,         \* bound: requests of node under way at the same time
    Top,            \* the volume in steps of 5
    MaxLost,        \* bound: datagrams lost between node and a bound socket
    MaxClicks       \* bound: clicks, and changes of the volume by joystick

ASSUME RelayAssumption ==
    /\ Relays \subseteq Nat \ {0}
    /\ Top \in Nat /\ MaxLost \in Nat /\ MaxClicks \in Nat

Levels == 0 .. Top
poll == -1                  \* a request that is no new level ...
stop == -2                  \* ... and the one that ends the beatbox
NoAnswer == -1
OK == -2                    \* the answer to a stop
Nobody == 0                 \* the sender of the wake-up

VARIABLES
    appVolume,              \* the volume of the beatbox
    senders, from,          \* who sent the datagrams in buffer, and hand
    node,                   \* node is alive
    relay,                  \* relay[r]: "free", "waiting" with the timer running
                            \* or "late" after it, its socket still open
    request,                \* request[r]: what was asked, a poll at rest
    answer,                 \* answer[r]: datagram in the socket of r
    volume, shown,          \* browser: the variable, and what the page shows
    communicationsTimeout,  \* browser: "null", "armed", or "dead"
    lost, clicks,           \* counters of the bounds
    levels                  \* history: the volumes the beatbox has had

browser == <<volume, shown, communicationsTimeout, clicks>>
relays == <<node, relay, request, answer>>
web == <<appVolume, senders, from, relays, browser, lost, levels>>
allVars == <<vars, web>>

\* The beatbox starts with a volume of 80, the page with 50.
WebInit ==
    /\ Init
    /\ appVolume = Top /\ levels = {appVolume}
    /\ senders = << >> /\ from = Nobody
    /\ node = TRUE /\ relay = [r \in Relays |-> "free"]
    /\ request = [r \in Relays |-> poll] /\ answer = [r \in Relays |-> NoAnswer]
    /\ volume = Top \div 2 /\ shown = NoAnswer
    /\ communicationsTimeout = "null"
    /\ lost = 0 /\ clicks = 0

------------------------------------------------------------------------------
(* The listener.                                                           *)

\* The steps that neither take nor send anything.
Inside ==
    /\ CreateSocket \/ Bind \/ BindFailed \/ TestRunning \/ EnterReceive
            \/ CheckReceived
    /\ UNCHANGED web

TakeRequest ==
    /\ Receive
    /\ from' = Head(senders) /\ senders' = Tail(senders)
    /\ UNCHANGED <<appVolume, relays, browser, lost, levels>>

\* The branch "volume" of processCommand sets it if there is a parameter; the
\* one of a poll arrives as "null".
Execute ==
    /\ ProcessCommand
    /\ appVolume' = IF from \in Relays /\ request[from] \in Levels
                    THEN request[from] ELSE appVolume
    /\ levels' = levels \cup {appVolume'}
    /\ UNCHANGED <<senders, from, relays, browser, lost>>

\* ... and answers with the one it has by now.
Response(r) == IF request[r] = stop THEN OK ELSE appVolume

Answer ==
    /\ Reply
    /\ \/ /\ Usable /\ node /\ from \in Relays
          /\ answer' = [answer EXCEPT ![from] = Response(from)]
          /\ UNCHANGED lost
       \/ /\ ~(Usable /\ node /\ from \in Relays)
          /\ UNCHANGED <<answer, lost>>
       \/ lost < MaxLost /\ lost' = lost + 1 /\ UNCHANGED answer
    /\ from' = Nobody
    /\ UNCHANGED <<appVolume, senders, node, relay, request, browser, levels>>

ListenerStep == Inside \/ TakeRequest \/ Execute \/ Answer

Sender(r) == senders' = IF buffer' = buffer THEN senders ELSE Append(senders, r)

WebCleanupStep ==
    \/ /\ SendStop /\ Sender(Nobody)
       /\ UNCHANGED <<appVolume, from, relays, browser, lost, levels>>
    \/ (CloseSocket \/ ForgetSocket \/ JoinServer) /\ UNCHANGED web

\* Somebody at the joystick.
Joystick ==
    /\ clicks < MaxClicks
    /\ appVolume' \in {v \in Levels : v \in {appVolume - 1, appVolume + 1}}
    /\ levels' = levels \cup {appVolume'}
    /\ clicks' = clicks + 1
    /\ UNCHANGED <<vars, senders, from, relays, volume, shown,
                   communicationsTimeout, lost>>

------------------------------------------------------------------------------
(* sendCommandToServer in the browser and relayToLocalPort in node.        *)

Transmit(r, d) ==
    \/ Deliver(d) /\ Sender(r) /\ UNCHANGED lost
    \/ lost < MaxLost /\ lost' = lost + 1 /\ UNCHANGED <<buffer, senders>>

RelayToLocalPort(r, what) ==
    /\ relay[r] = "free"
    /\ relay' = [relay EXCEPT ![r] = "waiting"]
    /\ request' = [request EXCEPT ![r] = what]
    /\ Transmit(r, IF what = stop THEN "shutdown" ELSE "request")
    /\ asked' = (asked \/ what = stop)

\* The timer of an earlier command stays.
SendCommandToServer(what) ==
    /\ communicationsTimeout' = IF communicationsTimeout = "null" THEN "armed"
                                ELSE communicationsTimeout
    /\ \/ node /\ \E r \in Relays : RelayToLocalPort(r, what)
       \/ ~node /\ UNCHANGED <<relay, request, buffer, senders, asked, lost>>
    /\ UNCHANGED <<isRunning, socketFd, shouldStopApplication, server, hand, main,
                   open, bound, appVolume, from, node, answer, shown, levels>>

\* window.setInterval; nothing tells the page that an answer is outstanding.
Poll == SendCommandToServer(poll) /\ UNCHANGED <<volume, clicks>>

Limited(v) == IF v > Top THEN Top ELSE IF v < 0 THEN 0 ELSE v

\* The buttons reckon with the volume of the last answer or click.
ClickVolume(step) ==
    /\ clicks < MaxClicks /\ clicks' = clicks + 1
    /\ volume' = Limited(volume + step)
    /\ SendCommandToServer(volume')

\* The buttons of mode and tempo send a new value but reckon with the old one.
ClickValue(v) ==
    /\ clicks < MaxClicks /\ clicks' = clicks + 1
    /\ SendCommandToServer(v)
    /\ UNCHANGED volume

ClickStop ==
    /\ clicks < MaxClicks /\ clicks' = clicks + 1
    /\ SendCommandToServer(stop)
    /\ UNCHANGED volume

BugCleared == "dead"        \* mutant: cleared, but not set to null

\* clearServerTimeout.
Cleared == "null"

BugHandled(what) == what \notin {poll, stop}    \* mutant: polls go unheard

\* The page has a handler for every answer but "stop-reply".
Handled(what) == what # stop

BugDisplayed(v) == volume   \* mutant: shows its own reckoning

Displayed(v) == v

\* client.on('message'), also after the error; the socket is closed.
RelayReply(r) ==
    /\ node /\ relay[r] # "free" /\ answer[r] # NoAnswer
    /\ relay' = [relay EXCEPT ![r] = "free"]
    /\ answer' = [answer EXCEPT ![r] = NoAnswer]
    /\ request' = [request EXCEPT ![r] = poll]
    /\ IF Handled(request[r])
       THEN /\ volume' = answer[r] /\ shown' = Displayed(answer[r])
            /\ communicationsTimeout' = Cleared
       ELSE UNCHANGED <<volume, shown, communicationsTimeout>>
    /\ UNCHANGED <<vars, appVolume, senders, from, node, clicks, lost, levels>>

\* readAndSendFile: node answers for the uptime without asking the beatbox.
UptimeReply ==
    /\ node /\ communicationsTimeout = "armed"
    /\ communicationsTimeout' = Cleared
    /\ UNCHANGED <<vars, appVolume, senders, from, relays, volume, shown, clicks,
                   lost, levels>>

\* errorTimer, and errorHandler in the browser, which shows the message for
\* five seconds.
NoReply(r) ==
    /\ node /\ relay[r] = "waiting"
    /\ relay' = [relay EXCEPT ![r] = "late"]
    /\ communicationsTimeout' = Cleared
    /\ UNCHANGED <<vars, appVolume, senders, from, node, request, answer, volume,
                   shown, clicks, lost, levels>>

\* A socket whose answer will never come stays open for ever; the next request
\* takes another one, which has its place here.
Abandon(r) ==
    /\ relay[r] = "late" /\ answer[r] = NoAnswer
    /\ \/ server = "returned"
       \/ from # r /\ r \notin {senders[i] : i \in 1 .. Len(senders)}
    /\ relay' = [relay EXCEPT ![r] = "free"]
    /\ request' = [request EXCEPT ![r] = poll]
    /\ UNCHANGED <<vars, appVolume, senders, from, node, answer, browser, lost,
                   levels>>

NodeDies ==
    /\ node /\ node' = FALSE
    /\ relay' = [r \in Relays |-> "free"]
    /\ answer' = [r \in Relays |-> NoAnswer]
    /\ UNCHANGED <<vars, appVolume, senders, from, request, browser, lost, levels>>

TimeoutFires ==
    /\ communicationsTimeout = "armed"
    /\ communicationsTimeout' = Cleared
    /\ UNCHANGED <<vars, appVolume, senders, from, relays, volume, shown, clicks,
                   lost, levels>>

RelayStep(r) == RelayReply(r) \/ NoReply(r) \/ Abandon(r)

WebNext ==
    \/ ListenerStep
    \/ StopRunning /\ UNCHANGED web
    \/ WebCleanupStep
    \/ Joystick
    \/ Poll \/ ClickVolume(1) \/ ClickVolume(-1) \/ ClickStop
    \/ \E v \in Levels : ClickValue(v)
    \/ \E r \in Relays : RelayStep(r)
    \/ UptimeReply
    \/ NodeDies \/ TimeoutFires

\* Both threads of the beatbox are scheduled, timers fire, sockets that have a
\* datagram are read, and the page polls every second.  For the wake-up,
\* socket() and sendto() on the loopback interface are taken to succeed.
WebSpec ==
    /\ WebInit /\ [][WebNext]_allVars
    /\ WF_allVars(ListenerStep) /\ WF_allVars(WebCleanupStep)
    /\ WF_allVars(Poll) /\ WF_allVars(TimeoutFires)
    /\ \A r \in Relays : WF_allVars(RelayStep(r))

------------------------------------------------------------------------------
(* Properties.                                                             *)

\* The page never shows a volume the beatbox has not had, whatever it reckons
\* with in the meantime (beatbox_ui.js:35-48, 110-115).
ShownWasReal == shown \in levels \cup {NoAnswer}

\* When the clicking is over and everything stays up the page ends up with the
\* volume of the beatbox, although answers may be lost, late or overtaken
\* (beatbox_ui.js:12-21, beatbox_server.js:69-111).
DisplayCatchesUp ==
    <>[](bound /\ isRunning /\ node) => <>[](shown = appVolume /\ volume = appVolume)

Reports == TimeoutFires \/ \E r \in Relays : NoReply(r)

\* When the listener or node is gone the page says so, again and again, although
\* any answer stops the browser's only timer (beatbox_ui.js:146-170).
DeathIsReported ==
    <>[](server = "returned" \/ ~node) => []<><<Reports>>_allVars
==============================================================================
