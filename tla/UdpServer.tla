------------------------------ MODULE UdpServer ------------------------------
(***************************************************************************)
(* beatbox/app/src/udpServer.c: a thread that answers datagrams on one     *)
(* socket, and UdpServer_cleanup, which main calls to end it.  The two     *)
(* share the plain variables isRunning and socketFd; recvfrom blocks, so   *)
(* cleanup sends a datagram of its own ("STOP") to the port before it      *)
(* closes the socket.  What a command does to the beat player or the mixer *)
(* is in ModeSync, TempoSync and VolumeInput; here it is a request that    *)
(* gets an answer.  BeatBox shows what the order of the last two lines of  *)
(* UdpServer_init can do; here the thread runs after them.                 *)
(***************************************************************************)
EXTENDS Integers, Sequences

CONSTANTS
    Capacity        \* bound: datagrams the socket's buffer holds

ASSUME ServerAssumption == Capacity \in Nat \ {0}

\* Any command with an answer, a shutdown (in either spelling), the wake-up.
Datagrams == {"request", "shutdown", "STOP"}
Error == "error"            \* recvfrom returned -1

VARIABLES
    isRunning,              \* udpServer.c's flag
    socketFd,               \* "none" for -1, "fd" for the server's socket
    shouldStopApplication,
    server,                 \* place of the server thread
    hand,                   \* what recvfrom returned
    main,                   \* place of main
    open, bound,            \* kernel: the descriptor is open, the port taken
    buffer,                 \* kernel: datagrams received and not yet read
    asked                   \* history: a client has sent a shutdown

vars == <<isRunning, socketFd, shouldStopApplication, server, hand, main, open,
          bound, buffer, asked>>
kernel == <<open, bound, buffer>>

TypeOK ==
    /\ isRunning \in BOOLEAN /\ shouldStopApplication \in BOOLEAN
    /\ socketFd \in {"none", "fd"}
    /\ server \in {"start", "bind", "close", "test", "recv", "blocked", "check",
                   "process", "reply", "returned"}
    /\ hand \in Datagrams \cup {Error}
    /\ main \in {"up", "wake", "close", "forget", "join", "done"}
    /\ open \in BOOLEAN /\ bound \in BOOLEAN
    /\ buffer \in Seq(Datagrams) /\ Len(buffer) <= Capacity
    /\ asked \in BOOLEAN

\* UdpServer_init has returned; the thread is about to start.
Init ==
    /\ isRunning = TRUE /\ shouldStopApplication = FALSE
    /\ socketFd = "none" /\ server = "start" /\ hand = Error /\ main = "up"
    /\ open = FALSE /\ bound = FALSE /\ buffer = << >>
    /\ asked = FALSE

------------------------------------------------------------------------------
(* serverThread.                                                           *)

\* socket(), which may fail.
CreateSocket ==
    /\ server = "start"
    /\ \/ socketFd' = "fd" /\ open' = TRUE /\ server' = "bind"
       \/ server' = "returned" /\ UNCHANGED <<socketFd, open>>
    /\ UNCHANGED <<isRunning, shouldStopApplication, hand, main, bound, buffer, asked>>

Usable == socketFd = "fd" /\ open

\* bind() on the descriptor socketFd holds by now: the port may be taken.
Bind ==
    /\ server = "bind"
    /\ \/ Usable /\ bound' = TRUE /\ server' = "test"
       \/ server' = "close" /\ UNCHANGED bound
    /\ UNCHANGED <<isRunning, socketFd, shouldStopApplication, hand, main, open,
                   buffer, asked>>

BindFailed ==
    /\ server = "close"
    /\ open' = FALSE /\ socketFd' = "none"
    /\ server' = "returned"
    /\ UNCHANGED <<isRunning, shouldStopApplication, hand, main, bound, buffer, asked>>

TestRunning ==
    /\ server = "test"
    /\ server' = IF isRunning THEN "recv" ELSE "returned"
    /\ UNCHANGED <<isRunning, socketFd, shouldStopApplication, hand, main, kernel, asked>>

\* recvfrom fails at once on a descriptor that is closed already; otherwise
\* the socket it waits on stays, even if the descriptor is closed meanwhile.
EnterReceive ==
    /\ server = "recv"
    /\ IF Usable THEN server' = "blocked" /\ UNCHANGED hand
                 ELSE server' = "check" /\ hand' = Error
    /\ UNCHANGED <<isRunning, socketFd, shouldStopApplication, main, kernel, asked>>

Receive ==
    /\ server = "blocked" /\ buffer # << >>
    /\ hand' = Head(buffer) /\ buffer' = Tail(buffer)
    /\ server' = "check"
    /\ UNCHANGED <<isRunning, socketFd, shouldStopApplication, main, open, bound, asked>>

BugLeaves == FALSE                  \* mutant: no test after recvfrom

Leaves == ~isRunning

\* The test after recvfrom, and the one for an error.
CheckReceived ==
    /\ server = "check"
    /\ server' = IF Leaves THEN "returned"
                 ELSE IF hand = Error THEN "test" ELSE "process"
    /\ UNCHANGED <<isRunning, socketFd, shouldStopApplication, hand, main, kernel, asked>>

\* processCommand lowers the case of the command before it compares, so
\* "STOP" is a "stop", and the branch that means to ignore it is never taken.
IsShutdown(d) == d \in {"shutdown", "STOP"}

ProcessCommand ==
    /\ server = "process"
    /\ shouldStopApplication' = (shouldStopApplication \/ IsShutdown(hand))
    /\ server' = "reply"
    /\ UNCHANGED <<isRunning, socketFd, hand, main, kernel, asked>>

\* The answer is sent if the socket still is there.
Reply ==
    /\ server = "reply"
    /\ server' = "test"
    /\ UNCHANGED <<isRunning, socketFd, shouldStopApplication, hand, main, kernel, asked>>

ServerStep ==
    CreateSocket \/ Bind \/ BindFailed \/ TestRunning \/ EnterReceive \/ Receive
        \/ CheckReceived \/ ProcessCommand \/ Reply

------------------------------------------------------------------------------
(* Datagrams arrive while the port is bound to a socket someone holds, and *)
(* are lost when its buffer is full.                                       *)

Reachable == bound /\ (open \/ server = "blocked")

Deliver(d) ==
    buffer' = IF Reachable /\ Len(buffer) < Capacity THEN Append(buffer, d) ELSE buffer

ClientSends(d) ==
    /\ asked' = (asked \/ IsShutdown(d))
    /\ Deliver(d) \/ UNCHANGED buffer
    /\ UNCHANGED <<isRunning, socketFd, shouldStopApplication, server, hand, main,
                   open, bound>>

------------------------------------------------------------------------------
(* UdpServer_cleanup.                                                      *)

StopRunning ==
    /\ main = "up"
    /\ isRunning' = FALSE
    /\ main' = "wake"
    /\ UNCHANGED <<socketFd, shouldStopApplication, server, hand, kernel, asked>>

BugWakeUp == UNCHANGED buffer       \* mutant: close() is left to wake recvfrom

WakeUp == Deliver("STOP")

\* A thread without a socket is not waiting for a datagram.
SendStop ==
    /\ main = "wake"
    /\ IF socketFd = "none" THEN main' = "join" /\ UNCHANGED buffer
                            ELSE main' = "close" /\ WakeUp
    /\ UNCHANGED <<isRunning, socketFd, shouldStopApplication, server, hand, open,
                   bound, asked>>

CloseSocket ==
    /\ main = "close"
    /\ open' = (open /\ socketFd = "none")
    /\ main' = "forget"
    /\ UNCHANGED <<isRunning, socketFd, shouldStopApplication, server, hand, bound,
                   buffer, asked>>

ForgetSocket ==
    /\ main = "forget"
    /\ socketFd' = "none"
    /\ main' = "join"
    /\ UNCHANGED <<isRunning, shouldStopApplication, server, hand, kernel, asked>>

JoinServer ==
    /\ main = "join" /\ server = "returned"
    /\ main' = "done"
    /\ UNCHANGED <<isRunning, socketFd, shouldStopApplication, server, hand, kernel, asked>>

Ended == main = "done" /\ UNCHANGED vars

CleanupStep == SendStop \/ CloseSocket \/ ForgetSocket \/ JoinServer

Next ==
    \/ ServerStep
    \/ StopRunning \/ CleanupStep
    \/ \E d \in Datagrams : ClientSends(d)
    \/ Ended

Spec == Init /\ [][Next]_vars

------------------------------------------------------------------------------
\* The wake-up is no command: the application is asked to stop only if some
\* client asked, although the server would read "STOP" as a shutdown.
WakeUpIsNoCommand == shouldStopApplication => asked

\* UdpServer_cleanup returns, wherever it catches the server thread: before
\* its socket exists, before it is bound, on its way into recvfrom, inside.
CleanupReturns == main = "wake" ~> main = "done"
==============================================================================
