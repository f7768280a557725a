--------------------------- MODULE UdpServerProofs ---------------------------
(***************************************************************************)
(* Proofs about UdpServer and WebRelay, for any buffer and any number of   *)
(* clients' datagrams: the datagram UdpServer_cleanup sends itself, which  *)
(* spells "stop" once its case is lowered, never becomes a command. The    *)
(* relay of the web page is such a client, so this holds behind it as      *)
(* well. What the page shows was the volume at some time, whatever is lost *)
(* or late on the way.                                                     *)
(***************************************************************************)
EXTENDS WebRelay, TLAPS

\* Cleanup clears the flag before it sends anything.
FlagFirst == isRunning <=> main = "up"

\* As long as no client asks for a shutdown and the server may take commands,
\* there is no shutdown on its way to it.
NoneWaiting ==
    ~asked /\ isRunning =>
        /\ \A i \in 1 .. Len(buffer) : buffer[i] = "request"
        /\ hand \in {"request", Error}

\* What passed the test after recvfrom had arrived by then.
NoneInHand == ~asked /\ server = "process" => hand = "request"

IInv == TypeOK /\ FlagFirst /\ NoneWaiting /\ NoneInHand /\ WakeUpIsNoCommand

\* The initial states of UdpServer satisfy the inductive invariant.
LEMMA InitInvariant == Init => IInv
<1> SUFFICES ASSUME Init
             PROVE  IInv
  OBVIOUS
<1>1. buffer = << >> /\ << >> \in Seq(Datagrams) /\ Len(<< >>) = 0
  BY DEF Init
<1>2. TypeOK
  <2>1. buffer \in Seq(Datagrams) /\ Len(buffer) <= Capacity
    BY <1>1, ServerAssumption
  <2>2. /\ isRunning \in BOOLEAN /\ shouldStopApplication \in BOOLEAN
        /\ open \in BOOLEAN /\ bound \in BOOLEAN /\ asked \in BOOLEAN
    BY Zenon DEF Init
  <2> QED
    BY <2>1, <2>2, Zenon DEF Init, TypeOK
<1> QED
  BY <1>1, <1>2
  DEF Init, IInv, FlagFirst, NoneWaiting, NoneInHand, WakeUpIsNoCommand

\* A delivered datagram ends up behind the others, or is lost.
LEMMA Delivered ==
    ASSUME TypeOK, NEW d \in Datagrams, Deliver(d) \/ UNCHANGED buffer
    PROVE  /\ buffer' \in Seq(Datagrams) /\ Len(buffer') <= Capacity
           /\ \/ buffer' = buffer
              \/ buffer' = Append(buffer, d)
  BY ServerAssumption DEF TypeOK, Deliver

\* recvfrom takes the head of the buffer.
LEMMA Received ==
    ASSUME TypeOK, Receive
    PROVE  /\ hand' \in Datagrams /\ hand' = buffer[1] /\ Len(buffer) > 0
           /\ buffer' \in Seq(Datagrams) /\ Len(buffer') = Len(buffer) - 1
           /\ \A i \in 1 .. Len(buffer') : buffer'[i] = buffer[i + 1]
  BY DEF TypeOK, Receive

\* The steps of the server thread preserve the invariant.
LEMMA ServerInvariant ==
    ASSUME IInv, ServerStep
    PROVE  IInv'
<1> USE ServerAssumption
    DEF IInv, FlagFirst, NoneWaiting, NoneInHand, WakeUpIsNoCommand, kernel
<1>1. CASE CreateSocket
  BY <1>1 DEF CreateSocket, TypeOK
<1>2. CASE Bind
  BY <1>2 DEF Bind, TypeOK
<1>3. CASE BindFailed
  BY <1>3 DEF BindFailed, TypeOK
<1>4. CASE TestRunning
  BY <1>4 DEF TestRunning, TypeOK
<1>5. CASE EnterReceive
  BY <1>5 DEF EnterReceive, TypeOK
<1>6. CASE Receive
  <2>1. TypeOK'
    BY <1>6, Received DEF Receive, TypeOK
  <2>2. NoneWaiting'
    BY <1>6, Received DEF Receive, TypeOK
  <2> QED
    BY <1>6, <2>1, <2>2 DEF Receive
<1>7. CASE CheckReceived
  BY <1>7 DEF CheckReceived, Leaves, TypeOK
<1>8. CASE ProcessCommand
  BY <1>8 DEF ProcessCommand, IsShutdown, TypeOK
<1>9. CASE Reply
  BY <1>9 DEF Reply, TypeOK
<1> QED
  BY <1>1, <1>2, <1>3, <1>4, <1>5, <1>6, <1>7, <1>8, <1>9 DEF ServerStep

\* The steps of UdpServer_cleanup preserve it: STOP is sent when the flag is
\* cleared, so it may be in the buffer, but not in front of the test.
LEMMA CleanupInvariant ==
    ASSUME IInv, StopRunning \/ CleanupStep
    PROVE  IInv'
<1> USE ServerAssumption
    DEF IInv, FlagFirst, NoneWaiting, NoneInHand, WakeUpIsNoCommand, kernel
<1>1. CASE StopRunning
  BY <1>1 DEF StopRunning, TypeOK
<1>2. CASE SendStop
  <2>1. Deliver("STOP") \/ UNCHANGED buffer
    BY <1>2 DEF SendStop, WakeUp
  <2>2. buffer' \in Seq(Datagrams) /\ Len(buffer') <= Capacity
    BY <2>1, Delivered DEF Datagrams
  <2> QED
    BY <1>2, <2>2 DEF SendStop, TypeOK
<1>3. CASE CloseSocket
  BY <1>3 DEF CloseSocket, TypeOK
<1>4. CASE ForgetSocket
  BY <1>4 DEF ForgetSocket, TypeOK
<1>5. CASE JoinServer
  BY <1>5 DEF JoinServer, TypeOK
<1> QED
  BY <1>1, <1>2, <1>3, <1>4, <1>5 DEF CleanupStep

\* A client's datagram preserves it: a shutdown counts as asked when it is sent.
LEMMA ClientInvariant ==
    ASSUME IInv, NEW d \in Datagrams, ClientSends(d)
    PROVE  IInv'
<1> USE ServerAssumption DEF IInv
<1>1. /\ buffer' \in Seq(Datagrams) /\ Len(buffer') <= Capacity
      /\ buffer' = buffer \/ buffer' = Append(buffer, d)
  BY Delivered DEF ClientSends
<1>2. TypeOK'
  BY <1>1 DEF ClientSends, TypeOK
<1>3. NoneWaiting'
  <2>1. SUFFICES ASSUME ~asked', isRunning'
                 PROVE  /\ \A i \in 1 .. Len(buffer') : buffer'[i] = "request"
                        /\ hand' \in {"request", Error}
    BY DEF NoneWaiting
  <2>2. ~asked /\ isRunning /\ d = "request" /\ hand' = hand
    BY <2>1 DEF ClientSends, IsShutdown, Datagrams
  <2>3. CASE buffer' = buffer
    BY <2>2, <2>3 DEF NoneWaiting
  <2>4. CASE buffer' = Append(buffer, d)
    <3>1. buffer \in Seq(Datagrams)
      BY DEF TypeOK
    <3>2. \A i \in 1 .. Len(buffer') : i \in 1 .. Len(buffer) \/ buffer'[i] = d
      BY <2>4, <3>1
    <3>3. \A i \in 1 .. Len(buffer) : buffer'[i] = buffer[i]
      BY <2>4, <3>1
    <3> QED
      BY <2>2, <3>2, <3>3 DEF NoneWaiting
  <2> QED
    BY <1>1, <2>3, <2>4
<1> QED
  BY <1>2, <1>3
  DEF ClientSends, FlagFirst, NoneInHand, WakeUpIsNoCommand, IsShutdown, TypeOK

\* The three together, and the stuttering step.
LEMMA StepInvariant ==
    ASSUME IInv, [Next]_vars
    PROVE  IInv'
<1>1. CASE UNCHANGED vars
  BY <1>1
  DEF vars, IInv, TypeOK, FlagFirst, NoneWaiting, NoneInHand, WakeUpIsNoCommand
<1> QED
  BY <1>1, ServerInvariant, CleanupInvariant, ClientInvariant DEF Next, Ended

\* Every reachable state of UdpServer is well typed.
THEOREM ServerTypeOK == Spec => []TypeOK
<1>1. IInv => TypeOK
  BY DEF IInv
<1> QED
  BY InitInvariant, StepInvariant, <1>1, PTL DEF Spec

\* The application is asked to stop only if a client asked, although the
\* server's own wake-up would be read as a shutdown.
THEOREM WakeUpNeverStops == Spec => []WakeUpIsNoCommand
<1>1. IInv => WakeUpIsNoCommand
  BY DEF IInv
<1> QED
  BY InitInvariant, StepInvariant, <1>1, PTL DEF Spec

\* Every step of the composition with the web page is a step of the server,
\* of its cleanup or of a client, or leaves all three alone.
LEMMA RelayStepIsServerStep ==
    ASSUME [WebNext]_allVars
    PROVE  [Next]_vars
<1>1. CASE UNCHANGED allVars
  BY <1>1 DEF allVars
<1>2. CASE ListenerStep
  BY <1>2 DEF ListenerStep, Inside, TakeRequest, Execute, Answer, Next, ServerStep
<1>3. CASE StopRunning /\ UNCHANGED web
  BY <1>3 DEF Next
<1>4. CASE WebCleanupStep
  BY <1>4 DEF WebCleanupStep, Next, CleanupStep
<1>5. ASSUME NEW what, SendCommandToServer(what)
      PROVE  [Next]_vars
  <2>1. CASE ~node
    BY <1>5, <2>1 DEF SendCommandToServer, vars
  <2>2. CASE node
    <3>1. PICK r \in Relays : RelayToLocalPort(r, what)
      BY <1>5, <2>2 DEF SendCommandToServer
    <3>2. PICK d \in Datagrams : /\ Deliver(d) \/ UNCHANGED buffer
                                 /\ asked' = (asked \/ IsShutdown(d))
      <4>1. CASE what = stop
        BY <3>1, <4>1 DEF RelayToLocalPort, Transmit, Datagrams, IsShutdown
      <4>2. CASE what # stop
        BY <3>1, <4>2 DEF RelayToLocalPort, Transmit, Datagrams, IsShutdown
      <4> QED
        BY <4>1, <4>2
    <3>3. ClientSends(d)
      BY <1>5, <3>2 DEF SendCommandToServer, ClientSends
    <3> QED
      BY <3>3 DEF Next
  <2> QED
    BY <2>1, <2>2
<1>6. CASE \/ Poll \/ ClickVolume(1) \/ ClickVolume(-1) \/ ClickStop
           \/ \E v \in Levels : ClickValue(v)
  BY <1>5, <1>6 DEF Poll, ClickVolume, ClickValue, ClickStop
<1>7. CASE \/ Joystick \/ NodeDies \/ TimeoutFires \/ UptimeReply
           \/ \E r \in Relays : RelayStep(r)
  BY <1>7 DEF Joystick, NodeDies, TimeoutFires, UptimeReply, RelayStep, RelayReply, NoReply, Abandon
<1> QED
  BY <1>1, <1>2, <1>3, <1>4, <1>6, <1>7 DEF WebNext

\* Behind the web page the server does what it does behind any clients.
THEOREM RelayImplementsServer == WebSpec => Spec
<1>1. WebInit => Init
  BY DEF WebInit
<1> QED
  BY <1>1, RelayStepIsServerStep, PTL DEF WebSpec, Spec

\* The beatbox is asked to stop only if somebody clicked on stop.
THEOREM WakeUpNeverStopsWeb == WebSpec => []WakeUpIsNoCommand
  BY RelayImplementsServer, WakeUpNeverStops

------------------------------------------------------------------------------
(* What the page shows.                                                    *)

WebTypeOK ==
    /\ levels \subseteq Levels /\ appVolume \in levels
    /\ senders \in Seq(Relays \cup {Nobody}) /\ Len(senders) = Len(buffer)
    /\ from \in Relays \cup {Nobody}
    /\ node \in BOOLEAN
    /\ relay \in [Relays -> {"free", "waiting", "late"}]
    /\ request \in [Relays -> Levels \cup {poll, stop}]
    /\ answer \in [Relays -> Levels \cup {NoAnswer, OK}]
    /\ volume \in Levels

\* The datagram of request r is on its way to the listener, or in its hand.
Under(r) == from = r \/ \E i \in 1 .. Len(senders) : senders[i] = r

\* As long as there is somebody to answer and somebody to hear it a request is
\* in one place at most: on its way, in the listener's hand or answered; and a
\* socket that is closed is in none, so that its next user hears nobody else's
\* answer.
OnePlace ==
    node /\ server # "returned" =>
        /\ \A r \in Relays : Under(r) => relay[r] # "free" /\ answer[r] = NoAnswer
        /\ \A i, j \in 1 .. Len(senders) :
                senders[i] = senders[j] /\ i # j => senders[i] = Nobody
        /\ \A i \in 1 .. Len(senders) : senders[i] = from => from = Nobody

\* What waits in a socket answers what was asked last through it.
AnswersFit ==
    /\ \A r \in Relays : answer[r] # NoAnswer =>
            IF request[r] = stop THEN answer[r] = OK ELSE answer[r] \in levels
    /\ node => \A r \in Relays : relay[r] = "free" => answer[r] = NoAnswer

WebInv == WebTypeOK /\ OnePlace /\ AnswersFit /\ ShownWasReal

\* The initial states satisfy it.
LEMMA InitWeb == WebInit => WebInv
<1> SUFFICES ASSUME WebInit
             PROVE  WebInv
  OBVIOUS
<1>1. Top \in Levels /\ Top \div 2 \in Levels /\ Relays \subseteq Nat \ {0}
  BY RelayAssumption DEF Levels
<1>2. senders = << >> /\ buffer = << >> /\ Len(<< >>) = 0
      /\ senders \in Seq(Relays \cup {Nobody})
  BY DEF WebInit, Init
<1>3. /\ relay \in [Relays -> {"free", "waiting", "late"}]
      /\ request \in [Relays -> Levels \cup {poll, stop}]
      /\ answer \in [Relays -> Levels \cup {NoAnswer, OK}]
      /\ \A r \in Relays : answer[r] = NoAnswer
  BY DEF WebInit
<1>4. WebTypeOK
  BY <1>1, <1>2, <1>3 DEF WebInit, WebTypeOK
<1>5. \A r \in Relays : ~Under(r)
  BY <1>1, <1>2 DEF WebInit, Under, Nobody
<1> QED
  BY <1>2, <1>3, <1>4, <1>5 DEF WebInit, WebInv, OnePlace, AnswersFit, ShownWasReal

\* Steps that leave requests, answers and volumes alone preserve it.
LEMMA QuietWeb ==
    ASSUME WebInv, server = "returned" => server' = "returned", Len(buffer') = Len(buffer),
           UNCHANGED <<appVolume, senders, from, relays, volume, shown, levels>>
    PROVE  WebInv'
<1>1. \A r : Under(r)' <=> Under(r)
  BY DEF Under
<1> QED
  BY <1>1 DEF WebInv, WebTypeOK, OnePlace, AnswersFit, ShownWasReal, relays

\* recvfrom takes a datagram with its sender.
LEMMA TakeWeb ==
    ASSUME IInv, WebInv, TakeRequest
    PROVE  WebInv'
<1> DEFINE n == Len(senders)
<1>1. /\ senders \in Seq(Relays \cup {Nobody}) /\ n \in Nat /\ n > 0
      /\ Len(buffer') = n - 1
  BY Received DEF WebInv, WebTypeOK, IInv, TypeOK, TakeRequest, Receive
<1>2. /\ from' = senders[1] /\ from' \in Relays \cup {Nobody}
      /\ senders' \in Seq(Relays \cup {Nobody}) /\ Len(senders') = n - 1
      /\ \A i \in 1 .. n - 1 : i + 1 \in 1 .. n /\ senders'[i] = senders[i + 1]
  BY <1>1 DEF TakeRequest
<1>3. UNCHANGED <<appVolume, relays, volume, shown, levels>>
  BY DEF TakeRequest, browser
<1>4. WebTypeOK'
  BY <1>1, <1>2, <1>3 DEF WebInv, WebTypeOK, relays
<1>5. \A r : Under(r)' => Under(r)
  BY <1>1, <1>2 DEF Under
<1>6. OnePlace'
  <2> SUFFICES ASSUME node, server # "returned"
               PROVE  /\ \A i, j \in 1 .. Len(senders') :
                            senders'[i] = senders'[j] /\ i # j => senders'[i] = Nobody
                      /\ \A i \in 1 .. Len(senders') : senders'[i] = from' => from' = Nobody
    BY <1>3, <1>5 DEF WebInv, OnePlace, TakeRequest, Receive, relays
  <2>1. \A i, j \in 1 .. n : senders[i] = senders[j] /\ i # j => senders[i] = Nobody
    BY DEF WebInv, OnePlace
  <2>2. \A i \in 1 .. n - 1 : i + 1 # 1
    BY <1>1
  <2>3. \A i, j \in 1 .. n - 1 : i # j => i + 1 # j + 1
    BY <1>1
  <2> QED
    BY <1>1, <1>2, <2>1, <2>2, <2>3
<1> QED
  BY <1>3, <1>4, <1>6 DEF WebInv, AnswersFit, ShownWasReal, relays

\* A command changes the volume to one the beatbox has.
LEMMA ExecuteWeb ==
    ASSUME WebInv, Execute
    PROVE  WebInv'
<1>1. /\ appVolume' \in Levels /\ levels' = levels \cup {appVolume'}
      /\ UNCHANGED <<senders, from, relays, volume, shown, buffer>>
      /\ server # "returned"
  BY DEF Execute, WebInv, WebTypeOK, browser, ProcessCommand, kernel
<1>2. \A r : Under(r)' <=> Under(r)
  BY <1>1 DEF Under
<1> QED
  BY <1>1, <1>2 DEF WebInv, WebTypeOK, OnePlace, AnswersFit, ShownWasReal, relays

\* An answer goes to the socket of its request, which waits for none yet.
LEMMA AnswerWeb ==
    ASSUME WebInv, Answer
    PROVE  WebInv'
<1>1. /\ UNCHANGED <<appVolume, senders, node, relay, request, volume, shown, levels, buffer>>
      /\ from' = Nobody /\ server = "reply" /\ server' = "test"
  BY DEF Answer, browser, Reply, kernel
<1>2. Relays \subseteq Nat \ {0} /\ Nobody \notin Relays
  BY RelayAssumption DEF Nobody
<1>3. CASE answer' = answer
  <2>1. \A r \in Relays : Under(r)' => Under(r)
    BY <1>1, <1>2 DEF Under
  <2> QED
    BY <1>1, <1>3, <2>1
    DEF WebInv, WebTypeOK, OnePlace, AnswersFit, ShownWasReal
<1>4. CASE answer' # answer
  <2>1. node /\ from \in Relays /\ answer' = [answer EXCEPT ![from] = Response(from)]
    BY <1>4 DEF Answer
  <2>2. Under(from) /\ relay[from] # "free"
    BY <1>1, <2>1 DEF WebInv, OnePlace, Under
  <2>3. \A r \in Relays : Under(r)' => Under(r) /\ r # from
    BY <1>1, <1>2, <2>1 DEF WebInv, OnePlace, Under
  <2>4. /\ Response(from) \in Levels \cup {NoAnswer, OK}
        /\ IF request[from] = stop THEN Response(from) = OK ELSE Response(from) \in levels
    BY DEF Response, WebInv, WebTypeOK
  <2>5. /\ answer' \in [Relays -> Levels \cup {NoAnswer, OK}]
        /\ answer'[from] = Response(from)
        /\ \A r \in Relays : r # from => answer'[r] = answer[r]
    BY <2>1, <2>4 DEF WebInv, WebTypeOK
  <2>6. WebTypeOK'
    BY <1>1, <2>5 DEF WebInv, WebTypeOK
  <2>7. OnePlace'
    BY <1>1, <1>2, <2>3, <2>5 DEF WebInv, OnePlace
  <2>8. AnswersFit'
    BY <1>1, <2>2, <2>4, <2>5 DEF WebInv, AnswersFit
  <2> QED
    BY <1>1, <2>6, <2>7, <2>8 DEF WebInv, ShownWasReal
<1> QED
  BY <1>3, <1>4

\* What is delivered goes behind the others together with its sender.
LEMMA SentWithSender ==
    ASSUME TypeOK, WebTypeOK, NEW d \in Datagrams, NEW r \in Relays \cup {Nobody},
           Deliver(d) /\ Sender(r)
    PROVE  \/ senders' = senders /\ buffer' = buffer
           \/ senders' = Append(senders, r) /\ Len(buffer') = Len(buffer) + 1
<1>1. buffer' = buffer \/ (buffer' = Append(buffer, d) /\ Len(buffer') = Len(buffer) + 1)
  BY Delivered DEF TypeOK
<1> QED
  BY <1>1 DEF Sender, TypeOK

\* The wake-up has no sender that waits for an answer.
LEMMA WakeUpWeb ==
    ASSUME IInv, WebInv, WebCleanupStep
    PROVE  WebInv'
<1>1. CASE UNCHANGED web /\ (CloseSocket \/ ForgetSocket \/ JoinServer)
  BY <1>1, QuietWeb DEF web, browser, CloseSocket, ForgetSocket, JoinServer, kernel
<1>2. CASE SendStop /\ Sender(Nobody)
           /\ UNCHANGED <<appVolume, from, relays, browser, lost, levels>>
  <2>1. \/ senders' = senders /\ buffer' = buffer
        \/ senders' = Append(senders, Nobody) /\ Len(buffer') = Len(buffer) + 1
    <3>1. CASE Deliver("STOP")
      BY <1>2, <3>1, SentWithSender DEF IInv, WebInv, Datagrams
    <3> QED
      BY <1>2, <3>1 DEF SendStop, WakeUp, Sender
  <2>2. UNCHANGED <<appVolume, from, relays, volume, shown, levels, server>>
    BY <1>2 DEF browser, SendStop
  <2>3. CASE senders' = senders /\ buffer' = buffer
    BY <2>2, <2>3, QuietWeb
  <2>4. CASE senders' = Append(senders, Nobody) /\ Len(buffer') = Len(buffer) + 1
    <3> DEFINE n == Len(senders)
    <3>1. n \in Nat /\ senders \in Seq(Relays \cup {Nobody})
      BY DEF WebInv, WebTypeOK
    <3>2. /\ senders' \in Seq(Relays \cup {Nobody}) /\ Len(senders') = n + 1
          /\ senders'[n + 1] = Nobody
          /\ \A i \in 1 .. n : senders'[i] = senders[i]
      BY <2>4, <3>1
    <3>3. \A i \in 1 .. n + 1 : i \in 1 .. n \/ i = n + 1
      BY <3>1
    <3>4. \A r \in Relays : Under(r)' => Under(r)
      <4>1. Nobody \notin Relays
        BY RelayAssumption DEF Nobody
      <4> QED
        BY <2>2, <3>2, <3>3, <4>1 DEF Under
    <3>5. WebTypeOK'
      BY <2>2, <2>4, <3>1, <3>2 DEF WebInv, WebTypeOK, relays
    <3>6. OnePlace'
      BY <2>2, <3>2, <3>3, <3>4 DEF WebInv, OnePlace, relays
    <3> QED
      BY <2>2, <3>5, <3>6 DEF WebInv, AnswersFit, ShownWasReal, relays
  <2> QED
    BY <2>1, <2>3, <2>4
<1> QED
  BY <1>1, <1>2 DEF WebCleanupStep

\* A request goes through a socket nobody is waiting at.
LEMMA RequestWeb ==
    ASSUME IInv, WebInv, NEW what \in Levels \cup {poll, stop}, SendCommandToServer(what),
           volume' \in Levels
    PROVE  WebInv'
<1>1. UNCHANGED <<appVolume, from, node, answer, shown, levels, server>>
  BY DEF SendCommandToServer
<1>2. CASE ~node
  <2>1. UNCHANGED <<relay, request, buffer, senders>>
    BY <1>2 DEF SendCommandToServer
  <2> QED
    BY <1>1, <1>2, <2>1 DEF WebInv, WebTypeOK, OnePlace, AnswersFit, ShownWasReal
<1>3. CASE node
  <2>1. PICK r \in Relays : RelayToLocalPort(r, what)
    BY <1>3 DEF SendCommandToServer
  <2>2. /\ relay[r] = "free" /\ answer[r] = NoAnswer
        /\ server # "returned" => ~Under(r)
    BY <1>3, <2>1 DEF RelayToLocalPort, WebInv, AnswersFit, OnePlace
  <2>3. /\ relay' \in [Relays -> {"free", "waiting", "late"}]
        /\ request' \in [Relays -> Levels \cup {poll, stop}]
        /\ relay'[r] = "waiting"
        /\ \A k \in Relays : k # r => relay'[k] = relay[k] /\ request'[k] = request[k]
    BY <2>1 DEF RelayToLocalPort, WebInv, WebTypeOK
  <2>4. \/ senders' = senders /\ buffer' = buffer
        \/ senders' = Append(senders, r) /\ Len(buffer') = Len(buffer) + 1
    <3>1. PICK d \in Datagrams : Transmit(r, d)
      BY <2>1 DEF RelayToLocalPort, Datagrams
    <3> QED
      BY <3>1, SentWithSender DEF Transmit, IInv, WebInv
  <2>5. AnswersFit'
    BY <1>1, <2>2, <2>3 DEF WebInv, AnswersFit
  <2>6. CASE senders' = senders /\ buffer' = buffer
    <3>1. WebTypeOK'
      BY <1>1, <2>3, <2>6 DEF WebInv, WebTypeOK
    <3>2. OnePlace'
      BY <1>1, <2>2, <2>3, <2>6 DEF WebInv, OnePlace, Under
    <3> QED
      BY <1>1, <2>5, <3>1, <3>2 DEF WebInv, ShownWasReal
  <2>7. CASE senders' = Append(senders, r) /\ Len(buffer') = Len(buffer) + 1
    <3> DEFINE n == Len(senders)
    <3>1. n \in Nat /\ senders \in Seq(Relays \cup {Nobody})
      BY DEF WebInv, WebTypeOK
    <3>2. /\ senders' \in Seq(Relays \cup {Nobody}) /\ Len(senders') = n + 1
          /\ senders'[n + 1] = r
          /\ \A i \in 1 .. n : senders'[i] = senders[i]
      BY <2>7, <3>1
    <3>3. \A i \in 1 .. n + 1 : i \in 1 .. n \/ i = n + 1
      BY <3>1
    <3>4. WebTypeOK'
      BY <1>1, <2>3, <2>7, <3>1, <3>2 DEF WebInv, WebTypeOK
    <3>5. OnePlace'
      <4> SUFFICES ASSUME node', server' # "returned"
                   PROVE  OnePlace'
        BY DEF OnePlace
      <4>1. ~Under(r)
        BY <1>1, <2>2
      <4>2. \A k \in Relays : Under(k)' => Under(k) \/ k = r
        BY <1>1, <3>2, <3>3 DEF Under
      <4>3. \A k \in Relays : Under(k)' => relay'[k] # "free" /\ answer'[k] = NoAnswer
        BY <1>1, <1>3, <2>2, <2>3, <4>2 DEF WebInv, OnePlace
      <4>4. \A i, j \in 1 .. n + 1 :
                senders'[i] = senders'[j] /\ i # j => senders'[i] = Nobody
        BY <1>1, <1>3, <3>2, <3>3, <4>1 DEF WebInv, OnePlace, Under
      <4>5. \A i \in 1 .. n + 1 : senders'[i] = from' => from' = Nobody
        BY <1>1, <1>3, <3>2, <3>3, <4>1 DEF WebInv, OnePlace, Under
      <4> QED
        BY <3>2, <4>3, <4>4, <4>5 DEF OnePlace
    <3> QED
      BY <1>1, <2>5, <3>4, <3>5 DEF WebInv, ShownWasReal
  <2> QED
    BY <2>4, <2>6, <2>7
<1> QED
  BY <1>2, <1>3

\* The end of a request frees its socket, of which nothing is under way.
LEMMA RelayWeb ==
    ASSUME WebInv, NEW r \in Relays, RelayStep(r)
    PROVE  WebInv'
<1>1. /\ UNCHANGED <<vars, appVolume, senders, from, node, levels>>
      /\ UNCHANGED <<server, buffer>>
  BY DEF RelayStep, RelayReply, NoReply, Abandon, vars, browser
<1>2. \A k : Under(k)' <=> Under(k)
  BY <1>1 DEF Under
<1>3. CASE RelayReply(r)
  <2>1. /\ node /\ answer[r] # NoAnswer
        /\ relay' = [relay EXCEPT ![r] = "free"]
        /\ answer' = [answer EXCEPT ![r] = NoAnswer]
        /\ request' = [request EXCEPT ![r] = poll]
    BY <1>3 DEF RelayReply
  <2>2. server # "returned" => ~Under(r)
    BY <2>1 DEF WebInv, OnePlace
  <2>3. /\ relay' \in [Relays -> {"free", "waiting", "late"}]
        /\ answer' \in [Relays -> Levels \cup {NoAnswer, OK}]
        /\ request' \in [Relays -> Levels \cup {poll, stop}]
        /\ answer'[r] = NoAnswer
        /\ \A k \in Relays : k # r => /\ relay'[k] = relay[k] /\ answer'[k] = answer[k]
                                      /\ request'[k] = request[k]
    BY <2>1 DEF WebInv, WebTypeOK
  <2>4. volume' \in Levels /\ shown' \in levels \cup {NoAnswer}
    <3>1. CASE request[r] = stop
      BY <1>3, <3>1 DEF RelayReply, Handled, WebInv, WebTypeOK, ShownWasReal
    <3>2. CASE request[r] # stop
      <4>1. volume' = answer[r] /\ shown' = answer[r]
        BY <1>3, <3>2 DEF RelayReply, Handled, Displayed
      <4>2. answer[r] \in levels /\ levels \subseteq Levels
        BY <2>1, <3>2 DEF WebInv, AnswersFit, WebTypeOK
      <4> QED
        BY <4>1, <4>2
    <3> QED
      BY <3>1, <3>2
  <2>5. WebTypeOK'
    BY <1>1, <2>3, <2>4 DEF WebInv, WebTypeOK
  <2>6. OnePlace'
    BY <1>1, <1>2, <2>2, <2>3 DEF WebInv, OnePlace
  <2>7. AnswersFit'
    BY <1>1, <2>3 DEF WebInv, AnswersFit
  <2> QED
    BY <1>1, <2>4, <2>5, <2>6, <2>7 DEF WebInv, ShownWasReal
<1>4. CASE NoReply(r)
  <2>1. /\ relay' = [relay EXCEPT ![r] = "late"] /\ relay[r] = "waiting"
        /\ UNCHANGED <<request, answer, volume, shown>>
    BY <1>4 DEF NoReply
  <2>2. /\ relay' \in [Relays -> {"free", "waiting", "late"}]
        /\ \A k \in Relays : relay'[k] = "free" <=> relay[k] = "free"
    BY <2>1 DEF WebInv, WebTypeOK
  <2> QED
    BY <1>1, <1>2, <2>1, <2>2 DEF WebInv, WebTypeOK, OnePlace, AnswersFit, ShownWasReal
<1>5. CASE Abandon(r)
  <2>1. /\ relay' = [relay EXCEPT ![r] = "free"] /\ answer[r] = NoAnswer
        /\ request' = [request EXCEPT ![r] = poll]
        /\ server # "returned" => ~Under(r)
        /\ UNCHANGED <<answer, volume, shown>>
    BY <1>5 DEF Abandon, Under, browser
  <2>2. /\ relay' \in [Relays -> {"free", "waiting", "late"}]
        /\ request' \in [Relays -> Levels \cup {poll, stop}]
        /\ \A k \in Relays : k # r => relay'[k] = relay[k] /\ request'[k] = request[k]
    BY <2>1 DEF WebInv, WebTypeOK
  <2>3. WebTypeOK'
    BY <1>1, <2>1, <2>2 DEF WebInv, WebTypeOK
  <2>4. OnePlace'
    BY <1>1, <1>2, <2>1, <2>2 DEF WebInv, OnePlace
  <2> QED
    BY <1>1, <2>1, <2>2, <2>3, <2>4 DEF WebInv, AnswersFit, ShownWasReal
<1> QED
  BY <1>3, <1>4, <1>5 DEF RelayStep

\* The rest: the joystick, node's death, and what only stops the timer.
LEMMA OtherWeb ==
    ASSUME WebInv, Joystick \/ NodeDies \/ UptimeReply \/ TimeoutFires
    PROVE  WebInv'
<1>0. UNCHANGED <<server, buffer, senders, from>>
  BY DEF Joystick, NodeDies, UptimeReply, TimeoutFires, vars
<1>1. \A k : Under(k)' <=> Under(k)
  BY <1>0 DEF Under
<1>2. CASE Joystick
  <2>1. /\ appVolume' \in Levels /\ levels' = levels \cup {appVolume'}
        /\ UNCHANGED <<node, relay, request, answer, volume, shown>>
    BY <1>2 DEF Joystick, relays
  <2> QED
    BY <1>0, <1>1, <2>1 DEF WebInv, WebTypeOK, OnePlace, AnswersFit, ShownWasReal
<1>3. CASE NodeDies
  <2>1. /\ node' = FALSE /\ UNCHANGED <<appVolume, request, volume, shown, levels>>
        /\ \A r \in Relays : relay'[r] = "free" /\ answer'[r] = NoAnswer
        /\ relay' \in [Relays -> {"free", "waiting", "late"}]
        /\ answer' \in [Relays -> Levels \cup {NoAnswer, OK}]
    BY <1>3 DEF NodeDies, browser
  <2> QED
    BY <1>0, <2>1 DEF WebInv, WebTypeOK, OnePlace, AnswersFit, ShownWasReal
<1>4. CASE UptimeReply \/ TimeoutFires
  BY <1>0, <1>4, QuietWeb DEF UptimeReply, TimeoutFires
<1> QED
  BY <1>2, <1>3, <1>4

\* Every step of the composition preserves it.
LEMMA StepWeb ==
    ASSUME IInv, WebInv, [WebNext]_allVars
    PROVE  WebInv'
<1>1. CASE Inside
  BY <1>1, QuietWeb
  DEF Inside, web, browser, CreateSocket, Bind, BindFailed, TestRunning, EnterReceive,
      CheckReceived, kernel
<1>2. CASE TakeRequest \/ Execute \/ Answer
  BY <1>2, TakeWeb, ExecuteWeb, AnswerWeb
<1>3. CASE StopRunning /\ UNCHANGED web
  BY <1>3, QuietWeb DEF StopRunning, web, browser, kernel
<1>4. CASE WebCleanupStep
  BY <1>4, WakeUpWeb
<1>5. CASE \/ Poll \/ ClickVolume(1) \/ ClickVolume(-1) \/ ClickStop
           \/ \E v \in Levels : ClickValue(v)
  <2>1. volume \in Levels /\ \A v \in Int : Limited(v) \in Levels
    BY RelayAssumption DEF WebInv, WebTypeOK, Limited, Levels
  <2>2. CASE Poll \/ ClickStop \/ \E v \in Levels : ClickValue(v)
    <3>1. PICK what \in Levels \cup {poll, stop} :
                SendCommandToServer(what) /\ volume' = volume
      BY <2>2 DEF Poll, ClickStop, ClickValue
    <3> QED
      BY <2>1, <3>1, RequestWeb
  <2>3. ASSUME NEW step \in {1, -1}, ClickVolume(step)
        PROVE  WebInv'
    <3>1. volume' \in Levels /\ SendCommandToServer(volume')
      BY <2>1, <2>3 DEF ClickVolume, Levels
    <3> QED
      BY <3>1, RequestWeb
  <2> QED
    BY <1>5, <2>2, <2>3
<1>6. ASSUME NEW r \in Relays, RelayStep(r)
      PROVE  WebInv'
  BY <1>6, RelayWeb
<1>7. CASE Joystick \/ NodeDies \/ UptimeReply \/ TimeoutFires
  BY <1>7, OtherWeb
<1>8. CASE UNCHANGED allVars
  BY <1>8, QuietWeb DEF allVars, vars, web, browser
<1> QED
  BY <1>1, <1>2, <1>3, <1>4, <1>5, <1>6, <1>7, <1>8 DEF WebNext, ListenerStep

\* The page shows no volume the beatbox has not had, although answers overtake
\* each other, come after their error, or would reach the next request that is
\* given the same socket if the listener held two of one sender.
THEOREM PageShowsRealVolumes == WebSpec => []ShownWasReal
<1>1. WebInit => IInv /\ WebInv
  BY InitInvariant, InitWeb DEF WebInit
<1>2. IInv /\ WebInv /\ [WebNext]_allVars => (IInv /\ WebInv)'
  BY RelayStepIsServerStep, StepInvariant, StepWeb
<1>3. WebInv => ShownWasReal
  BY DEF WebInv
<1> QED
  BY <1>1, <1>2, <1>3, PTL DEF WebSpec
==============================================================================
