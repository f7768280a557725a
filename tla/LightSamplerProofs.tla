------------------------- MODULE LightSamplerProofs --------------------------
(***************************************************************************)
(* Proofs about LightSampler, for any voltages, any number of samples and  *)
(* any room in a second: whenever the display thread moves them, each      *)
(* sample is in the second it belongs to or in excess of what one holds;   *)
(* whoever asks for the history gets one second, in order and whole;       *)
(* between two dips that are counted the light came back.                  *)
(***************************************************************************)
EXTENDS LightSampler, SequenceTheorems, FiniteSetTheorems, WellFoundedInduction, TLAPS

------------------------------------------------------------------------------
(* Types.                                                                  *)

\* The initial states are well typed.
LEMMA InitType == Init => TypeOK
<1> SUFFICES ASSUME Init
             PROVE  TypeOK
  OBVIOUS
<1>1. << >> \in Seq(Voltages)
  BY EmptySeq
<1>2. thread \in [Threads -> {"none", "test", "busy", "wait", "send", "ended"}]
  BY DEF Init
<1>3. cuts \subseteq Nat
  <2>1. cuts = {0}
    BY DEF Init
  <2> QED
    BY <2>1
<1>5. stopping \subseteq Threads
  BY DEF Init
<1>6. i2c_file_desc \in BOOLEAN
  BY DEF Init
<1>4. last_command \in Commands \cup {""} /\ command \in Commands \cup {""}
  BY DEF Init
<1> QED
  BY <1>1, <1>2, <1>3, <1>4, <1>5, <1>6 DEF Init, TypeOK

\* The sampler's and the display's steps keep the types.
LEMMA SamplesType ==
    ASSUME TypeOK,
           Sampling \/ SampleFails \/ Display \/ TestEncoder
    PROVE  TypeOK'
<1>1. CASE TestSampling
  BY <1>1 DEF TestSampling, GoTo, TypeOK, samples, server
<1>2. ASSUME NEW v \in Voltages, TakeSample(v)
      PROVE  TypeOK'
  <2>1. v \in Nat
    BY SamplerAssumption
  <2>2. current_samples \in Seq(Voltages) /\ log \in Seq(Voltages)
        /\ total_samples \in Nat /\ current_average \in Nat
    BY DEF TypeOK
  <2>3. total_samples' \in Nat /\ current_average' \in Nat
    BY <1>2, <2>1, <2>2 DEF TakeSample, Between
  <2>4. log' \in Seq(Voltages) /\ current_samples' \in Seq(Voltages)
    BY <1>2, <2>2 DEF TakeSample
  <2> QED
    BY <1>2, <2>3, <2>4 DEF TakeSample, GoTo, TypeOK, server
<1>3. CASE SampleFails
  BY <1>3 DEF SampleFails, TypeOK, samples, server
<1>4. ASSUME NEW t \in Threads, NEW place \in {"test", "busy"}, TestBoth(t, place)
      PROVE  TypeOK'
  BY <1>4 DEF TestBoth, GoTo, TypeOK, samples, server
<1>5. CASE PrintAndMove
  <2>1. current_samples' \in Seq(Voltages) /\ history_samples' \in Seq(Voltages)
    BY <1>5, EmptySeq DEF PrintAndMove, MoveCurrentDataToHistory, TypeOK
  <2>2. cuts' \subseteq Nat
    <3>1. log \in Seq(Voltages) /\ cuts \subseteq Nat
      BY DEF TypeOK
    <3>2. Len(log) \in Nat
      BY <3>1, LenProperties
    <3> QED
      BY <1>5, <3>1, <3>2 DEF PrintAndMove, MoveCurrentDataToHistory
  <2> QED
    BY <1>5, <2>1, <2>2 DEF PrintAndMove, MoveCurrentDataToHistory, GoTo, TypeOK, server
<1> QED
  BY <1>1, <1>2, <1>3, <1>4, <1>5
  DEF Sampling, Display, TestDisplay, TestEncoder, Threads

\* A packet is a piece of the copy.
LEMMA PacketType ==
    ASSUME TypeOK, SendPacket
    PROVE  TypeOK'
<1> DEFINE n == Len(copy)
           ends == {j \in pos + 1 .. n : Full(n, pos + 1, j)}
<1>0. pos \in Nat
  BY DEF TypeOK
<1>1. copy \in Seq(Voltages) /\ received \in Seq(Voltages)
  BY DEF TypeOK
<1>4. n \in Nat
  BY <1>1, LenProperties
<1>2. CASE ends = {}
  <2>1. pos' = 0 /\ copy' = << >> /\ received' = received /\ GoTo("server", "test")
    BY <1>2 DEF SendPacket
  <2>2. copy' \in Seq(Voltages)
    BY <2>1, EmptySeq
  <2> QED
    BY <2>1, <2>2 DEF SendPacket, GoTo, TypeOK, samples
<1>3. CASE ends # {}
  <2>1. PICK j :
            /\ j \in ends
            /\ received' = received \o SubSeq(copy, pos + 1, j)
            /\ pos' = j /\ UNCHANGED <<thread, copy>>
    BY <1>3 DEF SendPacket, Source
  <2>2. j \in pos + 1 .. n
    BY <2>1
  <2> HIDE DEF ends, n
  <2>3. pos + 1 \in Int /\ pos + 1 >= 1
    BY <1>0
  <2>4. j \in Nat /\ j \in Int
    BY <1>0, <1>4, <2>2
  <2>5. \A i \in pos + 1 .. j : i \in 1 .. n
    BY <1>0, <1>4, <2>2
  <2>6. \A i \in pos + 1 .. j : copy[i] \in Voltages
    BY <1>1, <2>5, ElementOfSeq DEF n
  <2>7. SubSeq(copy, pos + 1, j) \in Seq(Voltages)
    BY <2>3, <2>4, <2>6, SubSeqProperties, Zenon
  <2>8. pos' \in Nat /\ received' \in Seq(Voltages)
    BY <1>1, <2>1, <2>4, <2>7, ConcatProperties
  <2> QED
    BY <2>1, <2>8 DEF SendPacket, TypeOK, samples
<1> QED
  BY <1>2, <1>3

\* So do the server's.
LEMMA ServerType ==
    ASSUME TypeOK,
           Server \/ \E line \in Commands \cup {""} : Receive(line)
    PROVE  TypeOK'
<1>1. CASE TestServer
  <2>1. received' \in Seq(Voltages)
    BY <1>1, EmptySeq DEF TestServer
  <2> QED
    BY <1>1, <2>1 DEF TestServer, GoTo, TypeOK, samples
<1>2. ASSUME NEW line \in Commands \cup {""}, Receive(line)
      PROVE  TypeOK'
  BY <1>2 DEF Receive, GoTo, TypeOK, samples
<1>3. CASE HandleCommand
  <2>1. copy' \in Seq(Voltages)
    BY <1>3 DEF HandleCommand, TypeOK
  <2> QED
    BY <1>3, <2>1 DEF HandleCommand, GoTo, TypeOK, samples, Threads
<1>4. CASE SendPacket
  BY <1>4, PacketType
<1> QED
  BY <1>1, <1>2, <1>3, <1>4 DEF Server

\* So do main's.
LEMMA MainType ==
    ASSUME TypeOK, MainStep \/ StartupFails
    PROVE  TypeOK'
<1>1. CASE SamplerInit \/ UdpServerInit \/ LcdDisplayInit \/ TerminalDisplayInit
            \/ RotaryEncoderInit \/ StartupFails
  BY <1>1 DEF SamplerInit, UdpServerInit, LcdDisplayInit, TerminalDisplayInit,
     RotaryEncoderInit, StartupFails, Start, GoTo, TypeOK, samples, server, Threads
<1>2. CASE TestMain
  BY <1>2 DEF TestMain, TypeOK, samples, server
<1>3. ASSUME NEW t \in Threads, NEW here,
             NEW next \in {"join encoder", "join display", "join server", "join sampler"},
             Stop(t, here, next)
      PROVE  TypeOK'
  BY <1>3 DEF Stop, TypeOK, samples, server
<1>4. ASSUME NEW t \in Threads, NEW here,
             NEW next \in {"stop display", "stop server", "stop sampler", "ended"},
             Join(t, here, next)
      PROVE  TypeOK'
  <2>1. i2c_file_desc' \in BOOLEAN
    BY <1>4, Zenon DEF Join
  <2> QED
    BY <1>4, <2>1 DEF Join, TypeOK, samples, server
<1> QED
  BY <1>1, <1>2, <1>3, <1>4 DEF MainStep, Threads

\* All steps keep them.
LEMMA StepType == TypeOK /\ [Next]_vars => TypeOK'
<1>1. TypeOK /\ UNCHANGED vars => TypeOK'
  BY DEF vars, samples, server, TypeOK
<1> QED
  BY <1>1, SamplesType, ServerType, MainType DEF Next, Ended

\* Every reachable state of the light sampler is well typed; with it goes that
\* what is averaged, kept and sent are voltages of the sensor.
THEOREM LightTypeOK == Spec => []TypeOK
  BY InitType, StepType, PTL DEF Spec

------------------------------------------------------------------------------
(* Seconds.                                                                *)

\* The first samples of a second that takes one more.
LEMMA AppendAtMost ==
    ASSUME NEW S, NEW q \in Seq(S), NEW v \in S, NEW m \in Nat
    PROVE  AtMost(m, Append(q, v)) =
               IF Len(AtMost(m, q)) < m THEN Append(AtMost(m, q), v) ELSE AtMost(m, q)
<1>1. /\ Append(q, v) \in Seq(S) /\ Len(Append(q, v)) = Len(q) + 1
      /\ Len(q) \in Nat
      /\ \A i \in 1 .. Len(q) : Append(q, v)[i] = q[i]
  BY AppendProperties, LenProperties
<1>2. CASE Len(q) < m
  <2>1. AtMost(m, q) = q
    BY <1>2, SubSeqFull DEF AtMost
  <2>2. Len(q) + 1 = m \/ Len(q) + 1 < m
    BY <1>1, <1>2
  <2>3. AtMost(m, Append(q, v)) = SubSeq(Append(q, v), 1, Len(Append(q, v)))
    <3>1. CASE Len(Append(q, v)) < m
      BY <3>1 DEF AtMost
    <3>2. CASE ~(Len(Append(q, v)) < m)
      <4>1. Len(Append(q, v)) = m
        BY <1>1, <2>2, <3>2
      <4>2. AtMost(m, Append(q, v)) = SubSeq(Append(q, v), 1, m)
        BY <3>2 DEF AtMost
      <4> QED
        BY <4>1, <4>2
    <3> QED
      BY <3>1, <3>2
  <2>4. AtMost(m, Append(q, v)) = Append(q, v)
    BY <1>1, <2>3, SubSeqFull
  <2> QED
    BY <1>2, <2>1, <2>4
<1>3. CASE ~(Len(q) < m)
  <2>1. /\ AtMost(m, q) = SubSeq(q, 1, m)
        /\ AtMost(m, Append(q, v)) = SubSeq(Append(q, v), 1, m)
    <3>1. ~(Len(Append(q, v)) < m)
      BY <1>1, <1>3
    <3> QED
      BY <1>3, <3>1 DEF AtMost
  <2>2. \A i \in 1 .. m : /\ i \in 1 .. Len(q)
                          /\ q[i] \in S /\ Append(q, v)[i] = q[i]
    <3>1. \A i \in 1 .. m : i \in 1 .. Len(q)
      BY <1>1, <1>3
    <3> QED
      BY <1>1, <3>1, ElementOfSeq
  <2>3. /\ SubSeq(q, 1, m) \in Seq(S) /\ SubSeq(Append(q, v), 1, m) \in Seq(S)
        /\ Len(SubSeq(q, 1, m)) = m /\ Len(SubSeq(Append(q, v), 1, m)) = m
        /\ \A i \in 1 .. m : SubSeq(q, 1, m)[i] = q[i]
        /\ \A i \in 1 .. m : SubSeq(Append(q, v), 1, m)[i] = Append(q, v)[i]
    BY <2>2, SubSeqProperties
  <2>4. SubSeq(Append(q, v), 1, m) = SubSeq(q, 1, m)
    BY <2>2, <2>3, SeqEqual
  <2>5. AtMost(m, Append(q, v)) = AtMost(m, q)
    BY <2>1, <2>4
  <2>6. ~(Len(AtMost(m, q)) < m)
    <3>1. Len(AtMost(m, q)) = m /\ ~(m < m)
      BY <2>1, <2>3
    <3> QED
      BY <3>1
  <2> QED
    BY <2>5, <2>6
<1> QED
  BY <1>2, <1>3

\* A part of a log that grows: what ends before its end stays, what ends at its
\* end grows.
LEMMA AppendSubSeq ==
    ASSUME NEW S, NEW s \in Seq(S), NEW v \in S, NEW a \in 0 .. Len(s)
    PROVE  /\ SubSeq(Append(s, v), a + 1, Len(s) + 1) = Append(SubSeq(s, a + 1, Len(s)), v)
           /\ \A b \in 0 .. a : SubSeq(Append(s, v), b + 1, a) = SubSeq(s, b + 1, a)
<1> DEFINE n == Len(s)
           t == Append(s, v)
<1>1. /\ t \in Seq(S) /\ n \in Nat /\ Len(t) = n + 1
      /\ \A i \in 1 .. n : t[i] = s[i] /\ s[i] \in S
      /\ t[n + 1] = v
  BY AppendProperties, LenProperties, ElementOfSeq
<1> HIDE DEF t, n
<1>2. \A i \in 1 .. n + 1 : t[i] \in S
  BY <1>1
<1>5. a \in Nat /\ a <= n
  BY <1>1 DEF n
<1>3. SubSeq(t, a + 1, n + 1) = Append(SubSeq(s, a + 1, n), v)
  <2> DEFINE x == SubSeq(t, a + 1, n + 1)
             q == SubSeq(s, a + 1, n)
             y == Append(q, v)
  <2>1. a + 1 \in Int /\ n \in Int /\ n + 1 \in Int
    BY <1>1, <1>5
  <2>2. /\ \A i \in a + 1 .. n : s[i] \in S
        /\ \A i \in a + 1 .. n + 1 : t[i] \in S
    BY <1>1, <1>2, <1>5
  <2>3. /\ x \in Seq(S)
        /\ Len(x) = IF a + 1 <= n + 1 THEN n + 1 - (a + 1) + 1 ELSE 0
        /\ \A i \in 1 .. n + 1 - (a + 1) + 1 : x[i] = t[a + 1 + i - 1]
    BY <2>1, <2>2, SubSeqProperties
  <2>4. /\ q \in Seq(S)
        /\ Len(q) = IF a + 1 <= n THEN n - (a + 1) + 1 ELSE 0
        /\ \A i \in 1 .. n - (a + 1) + 1 : q[i] = s[a + 1 + i - 1]
    BY <2>1, <2>2, SubSeqProperties
  <2>5. y \in Seq(S) /\ Len(y) = Len(q) + 1 /\ y[Len(q) + 1] = v
        /\ \A i \in 1 .. Len(q) : y[i] = q[i]
    BY <2>4, AppendProperties
  <2> HIDE DEF x, q, y
  <2>6. Len(x) = n - a + 1 /\ Len(q) = n - a
    BY <1>1, <1>5, <2>3, <2>4
  <2>7. \A i \in 1 .. n - a + 1 : x[i] = y[i]
    <3>1. ASSUME NEW i \in 1 .. n - a
          PROVE  x[i] = y[i]
      BY <1>1, <1>5, <2>3, <2>4, <2>5, <2>6
    <3>2. x[n - a + 1] = v
      <4>1. n - a + 1 \in 1 .. n + 1 - (a + 1) + 1 /\ a + 1 + (n - a + 1) - 1 = n + 1
        BY <1>1, <1>5
      <4> QED
        BY <1>1, <2>3, <4>1
    <3>3. y[n - a + 1] = v
      BY <2>5, <2>6
    <3> QED
      BY <1>1, <1>5, <3>1, <3>2, <3>3
  <2>8. x = y
    BY <2>3, <2>5, <2>6, <2>7, SeqEqual
  <2> QED
    BY <2>8 DEF x, q, y
<1>4. ASSUME NEW b \in 0 .. a
      PROVE  SubSeq(t, b + 1, a) = SubSeq(s, b + 1, a)
  <2> DEFINE x == SubSeq(t, b + 1, a)
             y == SubSeq(s, b + 1, a)
  <2>1. b + 1 \in Int /\ a \in Int /\ \A i \in b + 1 .. a : i \in 1 .. n
    BY <1>1, <1>5
  <2>2. \A i \in b + 1 .. a : s[i] \in S /\ t[i] \in S /\ t[i] = s[i]
    BY <1>1, <2>1
  <2>3. /\ x \in Seq(S) /\ Len(x) = IF b + 1 <= a THEN a - (b + 1) + 1 ELSE 0
        /\ \A i \in 1 .. a - (b + 1) + 1 : x[i] = t[b + 1 + i - 1]
    BY <2>1, <2>2, SubSeqProperties
  <2>4. /\ y \in Seq(S) /\ Len(y) = IF b + 1 <= a THEN a - (b + 1) + 1 ELSE 0
        /\ \A i \in 1 .. a - (b + 1) + 1 : y[i] = s[b + 1 + i - 1]
    BY <2>1, <2>2, SubSeqProperties
  <2> HIDE DEF x, y
  <2>5. Len(x) = Len(y) /\ Len(x) = a - b
    BY <1>5, <2>3, <2>4
  <2>6. \A i \in 1 .. Len(x) : x[i] = y[i]
    BY <1>5, <2>2, <2>3, <2>4, <2>5
  <2>7. x = y
    BY <2>3, <2>4, <2>5, <2>6, SeqEqual
  <2> QED
    BY <2>7 DEF x, y
<1> QED
  BY <1>3, <1>4 DEF t, n

\* The last move, and what the two buffers hold between the moves.
SecondsInv ==
    /\ total_samples = Len(log)
    /\ \E a \in cuts :
        /\ a <= Len(log) /\ \A c \in cuts : c <= a
        /\ current_samples = Second(a, Len(log))
        /\ \/ history_samples = << >>
           \/ \E b \in cuts : /\ b < a /\ \A c \in cuts : c < a => c <= b
                              /\ history_samples = Second(b, a)

\* The last and the last but one of the moves are what the property chooses.
LEMMA Cuts ==
    ASSUME cuts \subseteq Nat, NEW a \in cuts, \A c \in cuts : c <= a
    PROVE  /\ LastCut = a
           /\ \A b \in cuts : b < a /\ (\A c \in cuts : c < a => c <= b) => LastBefore(a) = b
<1>1. LastCut = a
  <2>1. LastCut \in cuts /\ \A c \in cuts : c <= LastCut
    BY DEF LastCut
  <2>2. LastCut <= a /\ a <= LastCut
    BY <2>1
  <2>3. LastCut \in Nat /\ a \in Nat
    BY <2>1
  <2> HIDE DEF LastCut
  <2> QED
    BY <2>2, <2>3
<1>2. ASSUME NEW b \in cuts, b < a, \A c \in cuts : c < a => c <= b
      PROVE  LastBefore(a) = b
  <2>1. b \in Before(a) /\ \A c \in Before(a) : c <= b
    BY <1>2 DEF Before
  <2>2. LastBefore(a) \in Before(a) /\ \A c \in Before(a) : c <= LastBefore(a)
    BY <2>1 DEF LastBefore
  <2>3. LastBefore(a) <= b /\ b <= LastBefore(a)
    BY <2>1, <2>2
  <2>4. LastBefore(a) \in Nat /\ b \in Nat
    BY <2>2 DEF Before
  <2> QED
    BY <2>3, <2>4
<1> QED
  BY <1>1, <1>2

\* The initial states satisfy it.
LEMMA InitSeconds == Init => SecondsInv
<1> SUFFICES ASSUME Init
             PROVE  SecondsInv
  OBVIOUS
<1>1. cuts = {0} /\ total_samples = 0 /\ log = << >>
      /\ current_samples = << >> /\ history_samples = << >>
  BY DEF Init
<1>2. Len(<< >>) = 0
  BY EmptySeq
<1>3. Second(0, 0) = << >>
  <2>1. SubSeq(log, 0 + 1, 0) = << >>
    BY SubSeqEmpty
  <2>2. SubSeq(<< >>, 1, 0) = << >>
    BY SubSeqEmpty
  <2>3. 0 < MAX_SAMPLES_PER_SECOND
    BY SamplerAssumption
  <2> QED
    BY <1>2, <2>1, <2>2, <2>3 DEF Second, AtMost
<1>4. 0 <= 0 /\ \A c \in cuts : c <= 0
  BY <1>1
<1> QED
  BY <1>1, <1>2, <1>3, <1>4 DEF SecondsInv

\* A sample goes to the current second.
LEMMA SampleSeconds ==
    ASSUME TypeOK, SecondsInv, NEW v \in Voltages, TakeSample(v)
    PROVE  SecondsInv'
<1> DEFINE n == Len(log)
           M == MAX_SAMPLES_PER_SECOND
<1>1. /\ log' = Append(log, v) /\ total_samples' = total_samples + 1
      /\ current_samples' = IF Len(current_samples) < M THEN Append(current_samples, v)
                            ELSE current_samples
      /\ UNCHANGED <<history_samples, cuts>>
  BY DEF TakeSample, HasRoom
<1>2. log \in Seq(Voltages) /\ n \in Nat /\ cuts \subseteq Nat /\ M \in Nat
  BY LenProperties, SamplerAssumption DEF TypeOK
<1>3. Len(log') = n + 1
  BY <1>1, <1>2, AppendProperties
<1>4. PICK a \in cuts :
        /\ a <= n /\ \A c \in cuts : c <= a
        /\ current_samples = Second(a, n)
        /\ \/ history_samples = << >>
           \/ \E b \in cuts : /\ b < a /\ \A c \in cuts : c < a => c <= b
                              /\ history_samples = Second(b, a)
  BY DEF SecondsInv
<1>5. a \in 0 .. n /\ a <= n + 1
  BY <1>2, <1>4
<1>6. current_samples' = Second(a, Len(log))'
  <2>1. SubSeq(log', a + 1, n + 1) = Append(SubSeq(log, a + 1, n), v)
    BY <1>1, <1>2, <1>5, AppendSubSeq
  <2>2. SubSeq(log, a + 1, n) \in Seq(Voltages)
    <3>1. \A i \in a + 1 .. n : log[i] \in Voltages
      BY <1>2, <1>5, ElementOfSeq
    <3>2. a + 1 \in Int /\ n \in Int
      BY <1>2, <1>5
    <3> QED
      BY <3>1, <3>2, SubSeqProperties
  <2>3. AtMost(M, Append(SubSeq(log, a + 1, n), v)) = current_samples'
    BY <1>1, <1>2, <1>4, <2>2, AppendAtMost DEF Second
  <2> QED
    BY <1>3, <2>1, <2>3 DEF Second
<1>7. ASSUME NEW b \in cuts, b < a
      PROVE  Second(b, a)' = Second(b, a)
  <2>1. b \in 0 .. a
    BY <1>2, <1>7
  <2> QED
    BY <1>1, <1>2, <1>5, <2>1, AppendSubSeq DEF Second
<1>8. total_samples' = Len(log')
  BY <1>1, <1>2, <1>3 DEF SecondsInv
<1> QED
  BY <1>1, <1>3, <1>4, <1>5, <1>6, <1>7, <1>8 DEF SecondsInv

\* A move ends the second.
LEMMA MoveSeconds ==
    ASSUME TypeOK, SecondsInv, MoveCurrentDataToHistory
    PROVE  SecondsInv'
<1>0. PICK n : n = Len(log)
  OBVIOUS
<1>1. /\ history_samples' = current_samples /\ current_samples' = << >>
      /\ cuts' = cuts \cup {n} /\ UNCHANGED <<total_samples, log>>
  BY <1>0 DEF MoveCurrentDataToHistory
<1>2. n \in Nat /\ cuts \subseteq Nat
  BY <1>0, LenProperties DEF TypeOK
<1>3. PICK a \in cuts :
        /\ a <= n /\ \A c \in cuts : c <= a
        /\ current_samples = Second(a, n)
  BY <1>0 DEF SecondsInv
<1>4. Second(n, n) = << >>
  <2>1. n + 1 \in Int /\ n \in Int /\ n < n + 1 /\ 0 < MAX_SAMPLES_PER_SECOND
    BY <1>2, SamplerAssumption
  <2>2. SubSeq(log, n + 1, n) = << >> /\ SubSeq(<< >>, 1, 0) = << >>
    BY <2>1, SubSeqEmpty
  <2>3. Len(<< >>) = 0
    BY EmptySeq
  <2> QED
    BY <2>1, <2>2, <2>3 DEF Second, AtMost
<1>5. Second(n, n)' = << >> /\ Second(a, n)' = Second(a, n)
  BY <1>1, <1>4 DEF Second
<1>6. n \in cuts' /\ \A c \in cuts' : c <= n
  BY <1>1, <1>2, <1>3
<1>7. history_samples' = << >> \/ (/\ a < n /\ \A c \in cuts' : c < n => c <= a
                                   /\ history_samples' = Second(a, n)')
  <2>1. CASE a = n
    BY <1>1, <1>3, <1>4, <2>1
  <2>2. CASE a # n
    <3>1. a < n
      BY <1>2, <1>3, <2>2
    <3>2. \A c \in cuts' : c < n => c <= a
      BY <1>1, <1>2, <1>3
    <3> QED
      BY <1>1, <1>3, <1>5, <3>1, <3>2
  <2> QED
    BY <2>1, <2>2
<1>8. total_samples' = Len(log') /\ n <= Len(log') /\ Len(log') = n
  BY <1>0, <1>1, <1>2 DEF SecondsInv
<1>9. a \in cuts'
  BY <1>1
<1> QED
  BY <1>1, <1>5, <1>6, <1>7, <1>8, <1>9 DEF SecondsInv

\* Nobody else touches the buffers.
LEMMA StepSeconds == TypeOK /\ SecondsInv /\ [Next]_vars => SecondsInv'
<1> SUFFICES ASSUME TypeOK, SecondsInv, [Next]_vars
             PROVE  SecondsInv'
  OBVIOUS
<1>1. \/ UNCHANGED samples
      \/ \E v \in Voltages : TakeSample(v)
      \/ MoveCurrentDataToHistory
  BY DEF vars, Next, MainStep, SamplerInit, UdpServerInit, LcdDisplayInit,
     TerminalDisplayInit, RotaryEncoderInit, TestMain, Stop, Join, StartupFails,
     Sampling, TestSampling, SampleFails, Display, TestDisplay, PrintAndMove, Server,
     TestServer, HandleCommand, SendPacket, Receive, TestEncoder, TestBoth, Ended
<1>2. CASE UNCHANGED samples
  BY <1>2 DEF samples, SecondsInv, Second
<1> QED
  BY <1>1, <1>2, SampleSeconds, MoveSeconds

\* Every sample is in the second it was taken in, or was in excess of what a
\* second holds, for any voltages, any number of samples and any room.
THEOREM LightSecondsAreWhole == Spec => []SecondsAreWhole
<1>1. TypeOK /\ SecondsInv => SecondsAreWhole
  <2> SUFFICES ASSUME TypeOK, SecondsInv
               PROVE  SecondsAreWhole
    OBVIOUS
  <2>1. cuts \subseteq Nat
    BY DEF TypeOK
  <2> QED
    BY <2>1, Cuts DEF SecondsInv, SecondsAreWhole
<1> QED
  BY InitType, StepType, InitSeconds, StepSeconds, <1>1, PTL DEF Spec

------------------------------------------------------------------------------
(* The history of a second on its way to a client.                         *)

\* The samples between two successive moves.
WholeSecond(s) ==
    \/ s = << >>
    \/ \E a, b \in cuts : /\ a < b /\ \A c \in cuts : c < b => c <= a
                          /\ s = Second(a, b)

\* They are what the property calls a second.
LEMMA WholeIsSecond ==
    ASSUME TypeOK, NEW s, WholeSecond(s)
    PROVE  IsSecond(s)
<1>1. CASE s = << >>
  BY <1>1 DEF IsSecond
<1>2. CASE s # << >>
  <2>1. PICK a \in cuts, b \in cuts :
            a < b /\ (\A c \in cuts : c < b => c <= a) /\ s = Second(a, b)
    BY <1>2 DEF WholeSecond
  <2>2. cuts \subseteq Nat /\ a \in Nat /\ b \in Nat
    BY DEF TypeOK
  <2>3. a \in Before(b) /\ \A c \in Before(b) : c <= a
    BY <2>1 DEF Before
  <2>4. LastBefore(b) \in Before(b) /\ \A c \in Before(b) : c <= LastBefore(b)
    BY <2>3 DEF LastBefore
  <2>5. LastBefore(b) <= a /\ a <= LastBefore(b) /\ LastBefore(b) \in Nat
    BY <2>2, <2>3, <2>4 DEF Before
  <2>6. LastBefore(b) = a
    <3> HIDE DEF LastBefore
    <3> QED
      BY <2>2, <2>5
  <2>7. b \in cuts \ {0}
    BY <2>1, <2>2
  <2> QED
    BY <2>1, <2>6, <2>7 DEF IsSecond
<1> QED
  BY <1>1, <1>2

\* A second that has ended stays what it was.
LEMMA WholeStays ==
    ASSUME TypeOK, SecondsInv, [Next]_vars, NEW s, WholeSecond(s)
    PROVE  WholeSecond(s)'
<1>1. CASE s = << >>
  BY <1>1 DEF WholeSecond
<1>2. CASE s # << >>
  <2>1. PICK a \in cuts, b \in cuts :
            a < b /\ (\A c \in cuts : c < b => c <= a) /\ s = Second(a, b)
    BY <1>2 DEF WholeSecond
  <2>2. cuts \subseteq Nat /\ a \in Nat /\ b \in Nat /\ log \in Seq(Voltages)
        /\ Len(log) \in Nat
    BY LenProperties DEF TypeOK
  <2>3. b <= Len(log)
    <3>1. PICK l \in cuts : l <= Len(log) /\ \A c \in cuts : c <= l
      BY DEF SecondsInv
    <3>2. b <= l /\ l \in Nat
      BY <2>2, <3>1
    <3> QED
      BY <2>2, <3>1, <3>2
  <2>4. \/ UNCHANGED samples
        \/ \E v \in Voltages : TakeSample(v)
        \/ MoveCurrentDataToHistory
    BY DEF vars, Next, MainStep, SamplerInit, UdpServerInit, LcdDisplayInit,
       TerminalDisplayInit, RotaryEncoderInit, TestMain, Stop, Join, StartupFails,
       Sampling, TestSampling, SampleFails, Display, TestDisplay, PrintAndMove, Server,
       TestServer, HandleCommand, SendPacket, Receive, TestEncoder, TestBoth, Ended
  <2>5. CASE UNCHANGED samples
    <3>1. cuts' = cuts /\ log' = log
      BY <2>5 DEF samples
    <3> QED
      BY <2>1, <3>1 DEF WholeSecond, Second
  <2>6. ASSUME NEW v \in Voltages, TakeSample(v)
        PROVE  WholeSecond(s)'
    <3>1. cuts' = cuts /\ log' = Append(log, v)
      BY <2>6 DEF TakeSample
    <3>2. b \in 0 .. Len(log) /\ a \in 0 .. b
      BY <2>1, <2>2, <2>3
    <3>3. SubSeq(Append(log, v), a + 1, b) = SubSeq(log, a + 1, b)
      BY <2>2, <3>2, AppendSubSeq
    <3>4. Second(a, b)' = Second(a, b)
      BY <3>1, <3>3 DEF Second
    <3> QED
      BY <2>1, <3>1, <3>4 DEF WholeSecond
  <2>7. CASE MoveCurrentDataToHistory
    <3>1. cuts' = cuts \cup {Len(log)} /\ log' = log
      BY <2>7 DEF MoveCurrentDataToHistory
    <3>2. Second(a, b)' = Second(a, b)
      BY <3>1 DEF Second
    <3>3. \A c \in cuts' : c < b => c <= a
      BY <2>1, <2>2, <2>3, <3>1
    <3> QED
      BY <2>1, <3>1, <3>2, <3>3 DEF WholeSecond
  <2> QED
    BY <2>4, <2>5, <2>6, <2>7
<1> QED
  BY <1>1, <1>2

\* What the answer consists of while the server sends the history, and after;
\* before it, nothing has been received.
HistoryInv ==
    /\ main \in {"start sampler", "start server"} => thread["server"] = "none"
    /\ thread["server"] = "none" => command = ""
    /\ thread["server"] # "send" => pos = 0
    /\ thread["server"] \in {"wait", "busy"} => received = << >>
    /\ thread["server"] = "send" =>
           /\ WholeSecond(copy)
           /\ pos \in 0 .. Len(copy) /\ received = SubSeq(copy, 1, pos)
    /\ thread["server"] = "test" /\ command = "history" => WholeSecond(received)

\* No client has asked for anything.
LEMMA InitHistory == Init => HistoryInv
  BY DEF Init, HistoryInv, Threads

\* The next datagram continues the answer; the last one completes it.
LEMMA SendHistory ==
    ASSUME TypeOK, SecondsInv, HistoryInv, SendPacket
    PROVE  HistoryInv'
<1> DEFINE n == Len(copy)
           ends == {j \in pos + 1 .. n : Full(n, pos + 1, j)}
<1>1. /\ thread["server"] = "send" /\ WholeSecond(copy)
      /\ pos \in 0 .. n /\ received = SubSeq(copy, 1, pos)
      /\ copy \in Seq(Voltages) /\ n \in Nat
      /\ main \notin {"start sampler", "start server"}
      /\ UNCHANGED <<main, command, cuts, log>>
  BY LenProperties DEF HistoryInv, SendPacket, TypeOK, samples
<1>2. \A s : WholeSecond(s)' <=> WholeSecond(s)
  BY <1>1 DEF WholeSecond, Second
<1>5. n \in Nat /\ pos \in 0 .. n
  BY <1>1
<1>3. CASE ends = {}
  <2>1. pos' = 0 /\ UNCHANGED received /\ thread' = [thread EXCEPT !["server"] = "test"]
    BY <1>3 DEF SendPacket, GoTo
  <2>2. thread'["server"] = "test"
    BY <2>1 DEF TypeOK, Threads
  <2>3. pos = n
    <3> SUFFICES ASSUME pos # n
                 PROVE  FALSE
      OBVIOUS
    <3>1. n \in pos + 1 .. n
      <4> HIDE DEF n
      <4> QED
        BY <1>5
    <3>2. Full(n, pos + 1, n)
      BY DEF Full
    <3> QED
      BY <1>3, <3>1, <3>2
  <2>4. received = copy
    BY <1>1, <2>3, SubSeqFull
  <2> QED
    BY <1>1, <1>2, <2>1, <2>2, <2>4 DEF HistoryInv
<1>4. CASE ends # {}
  <2>1. PICK j \in ends :
            /\ received' = received \o SubSeq(copy, pos + 1, j)
            /\ pos' = j /\ UNCHANGED <<thread, copy>>
    BY <1>4 DEF SendPacket, Source
  <2>2. j \in pos + 1 .. n
    OBVIOUS
  <2> HIDE DEF ends, n
  <2>3. j \in pos .. n /\ 1 \in 1 .. n + 1 /\ pos \in 1 - 1 .. n /\ j \in 0 .. n
    BY <1>5, <2>2
  <2>4. SubSeq(copy, 1, pos) \o SubSeq(copy, pos + 1, j) = SubSeq(copy, 1, j)
    BY <1>1, <2>3, ConcatAdjacentSubSeq DEF n
  <2> QED
    BY <1>1, <1>2, <2>1, <2>3, <2>4 DEF HistoryInv, n
<1> QED
  BY <1>3, <1>4

\* Nobody else disturbs the answer, although the next second is moved in.
LEMMA StepHistory ==
    ASSUME TypeOK, SecondsInv, HistoryInv, [Next]_vars
    PROVE  HistoryInv'
<1>1. \A s : WholeSecond(s) => WholeSecond(s)'
  BY WholeStays
<1>2. CASE SendPacket
  BY <1>2, SendHistory
<1>3. CASE TestServer
  BY <1>3 DEF TestServer, GoTo, HistoryInv, TypeOK, Threads
<1>4. ASSUME NEW line \in Commands \cup {""}, Receive(line)
      PROVE  HistoryInv'
  BY <1>4 DEF Receive, GoTo, HistoryInv, TypeOK, Threads
<1>5. CASE HandleCommand
  <2>1. WholeSecond(history_samples)
    BY DEF SecondsInv, WholeSecond
  <2>2. thread["server"] = "busy" /\ received = << >> /\ pos = 0
        /\ main \notin {"start sampler", "start server"}
        /\ UNCHANGED <<main, command, pos, received, history_samples>>
    BY <1>5 DEF HandleCommand, HistoryInv, samples
  <2>3. CASE command = "history"
    <3>1. copy' = history_samples /\ thread'["server"] = "send"
      BY <1>5, <2>3 DEF HandleCommand, GoTo, TypeOK, Threads
    <3>2. copy' \in Seq(Voltages) /\ Len(copy') \in Nat /\ SubSeq(copy', 1, 0) = << >>
      <4>1. copy' \in Seq(Voltages)
        BY <3>1 DEF TypeOK
      <4> QED
        BY <4>1, LenProperties, SubSeqEmpty
    <3>3. WholeSecond(copy)'
      BY <1>1, <2>1, <3>1 DEF WholeSecond
    <3>4. pos' \in 0 .. Len(copy') /\ received' = SubSeq(copy', 1, pos')
      <4>1. pos' = 0 /\ received' = << >>
        BY <2>2
      <4>2. 0 \in 0 .. Len(copy')
        BY <3>2
      <4> QED
        BY <3>2, <4>1, <4>2
    <3> QED
      BY <2>2, <2>3, <3>1, <3>3, <3>4 DEF HistoryInv
  <2>4. CASE command # "history"
    <3>1. thread'["server"] = "test"
      BY <1>5, <2>4 DEF HandleCommand, GoTo, TypeOK, Threads
    <3> QED
      BY <2>2, <2>4, <3>1 DEF HistoryInv
  <2> QED
    BY <2>3, <2>4
<1>6. CASE UdpServerInit
  BY <1>6 DEF UdpServerInit, Start, GoTo, HistoryInv, TypeOK, Threads, server
<1>7. ASSUME UNCHANGED server, thread'["server"] = thread["server"],
             main' \in {"start sampler", "start server"} =>
                 main \in {"start sampler", "start server"}
      PROVE  HistoryInv'
  <2>1. UNCHANGED <<command, copy, pos, received>>
    BY <1>7 DEF server
  <2>2. /\ WholeSecond(copy) => WholeSecond(copy)'
        /\ WholeSecond(received) => WholeSecond(received)'
    BY <1>1, <2>1 DEF WholeSecond
  <2> QED
    BY <1>7, <2>1, <2>2 DEF HistoryInv
<1>8. CASE Sampling \/ SampleFails \/ Display \/ TestEncoder
  BY <1>7, <1>8 DEF Sampling, TestSampling, TakeSample, SampleFails, Display, TestDisplay,
     PrintAndMove, TestEncoder, TestBoth, GoTo, TypeOK, Threads
<1>9. CASE StartupFails \/ UNCHANGED vars
  BY <1>7, <1>9 DEF StartupFails, vars
<1>10. CASE \/ SamplerInit \/ LcdDisplayInit \/ TerminalDisplayInit \/ RotaryEncoderInit
            \/ TestMain
  BY <1>7, <1>10 DEF SamplerInit, LcdDisplayInit, TerminalDisplayInit, RotaryEncoderInit,
     TestMain, Start, GoTo, TypeOK, Threads
<1>11. ASSUME NEW t, NEW here, NEW next, next \notin {"start sampler", "start server"},
              Stop(t, here, next) \/ Join(t, here, next)
       PROVE  HistoryInv'
  BY <1>7, <1>11 DEF Stop, Join
<1>12. CASE \/ Stop("encoder", "stop encoder", "join encoder")
            \/ Join("encoder", "join encoder", "stop display")
            \/ Stop("display", "stop display", "join display")
            \/ Join("display", "join display", "stop server")
            \/ Stop("server", "stop server", "join server")
            \/ Join("server", "join server", "stop sampler")
            \/ Stop("sampling", "stop sampler", "join sampler")
            \/ Join("sampling", "join sampler", "ended")
  <2>1. \A next : next \in {"join encoder", "join display", "join server", "join sampler",
                          "stop display", "stop server", "stop sampler", "ended"}
                      => next \notin {"start sampler", "start server"}
    OBVIOUS
  <2> QED
    BY <1>11, <1>12, <2>1, Zenon
<1>13. MainStep => HistoryInv'
  BY <1>6, <1>10, <1>12 DEF MainStep
<1> QED
  BY <1>2, <1>3, <1>4, <1>5, <1>8, <1>9, <1>13
  DEF Next, Server, Ended

\* One number more takes no more than its own characters and a separator.
LEMMA OneNumberMore ==
    ASSUME NEW n \in Nat, NEW i \in Nat, NEW j \in Nat, i <= j
    PROVE  /\ Characters(n, i, j - 1) \in Nat /\ Characters(n, i, j) \in Nat
           /\ Characters(n, i, j) <= Characters(n, i, j - 1) + NumberSize + 2
           /\ i = j => Characters(n, i, j - 1) = 0
<1>1. NumberSize \in Nat
  BY SamplerAssumption
<1> DEFINE S(k) == {x \in i .. k : x < n /\ x % PerLine # 0}
           E(k) == {x \in i .. k : x < n /\ x % PerLine = 0}
           c(k) == Cardinality(i .. k)
           s(k) == Cardinality(S(k))
           e(k) == Cardinality(E(k))
<1>2. \A k : Characters(n, i, k) = NumberSize * c(k) + 2 * s(k) + e(k)
  BY DEF Characters
<1>3. ASSUME NEW k \in Int
      PROVE  /\ IsFiniteSet(i .. k) /\ IsFiniteSet(S(k)) /\ IsFiniteSet(E(k))
             /\ c(k) \in Nat /\ s(k) \in Nat /\ e(k) \in Nat
  <2>1. IsFiniteSet(i .. k)
    BY FS_Interval
  <2>2. S(k) \in SUBSET (i .. k) /\ E(k) \in SUBSET (i .. k)
    OBVIOUS
  <2> HIDE DEF S, E
  <2>3. IsFiniteSet(S(k)) /\ IsFiniteSet(E(k))
    BY <2>1, <2>2, FS_Subset
  <2> QED
    BY <2>1, <2>3, FS_CardinalityType DEF c, s, e
<1>4. j - 1 \in Int /\ j \in Int /\ i .. j = (i .. (j - 1)) \cup {j} /\ j \notin i .. (j - 1)
  OBVIOUS
<1>5. c(j) = c(j - 1) + 1
  BY <1>3, <1>4, FS_AddElement
<1>6. \/ S(j) = S(j - 1) /\ E(j) = E(j - 1)
      \/ S(j) = S(j - 1) \cup {j} /\ E(j) = E(j - 1)
      \/ S(j) = S(j - 1) /\ E(j) = E(j - 1) \cup {j}
  <2> DEFINE P(x) == x < n /\ x % PerLine # 0
             Q(x) == x < n /\ x % PerLine = 0
  <2>1. S(j) = {x \in (i .. (j - 1)) \cup {j} : P(x)} /\ E(j) = {x \in (i .. (j - 1)) \cup {j} : Q(x)}
    BY <1>4
  <2>2. S(j - 1) = {x \in i .. (j - 1) : P(x)} /\ E(j - 1) = {x \in i .. (j - 1) : Q(x)}
    OBVIOUS
  <2>3. ~(P(j) /\ Q(j))
    OBVIOUS
  <2> HIDE DEF P, Q, S, E
  <2>4. S(j) = IF P(j) THEN S(j - 1) \cup {j} ELSE S(j - 1)
    BY <2>1, <2>2
  <2>5. E(j) = IF Q(j) THEN E(j - 1) \cup {j} ELSE E(j - 1)
    BY <2>1, <2>2
  <2> QED
    BY <2>3, <2>4, <2>5
<1>7. /\ s(j) \in {s(j - 1), s(j - 1) + 1} /\ e(j) \in {e(j - 1), e(j - 1) + 1}
      /\ s(j) = s(j - 1) \/ e(j) = e(j - 1)
  <2>1. j \notin S(j - 1) /\ j \notin E(j - 1)
    BY <1>4
  <2>2. Cardinality(S(j - 1) \cup {j}) = Cardinality(S(j - 1)) + 1
    <3> HIDE DEF S, E
    <3> QED
      BY <1>3, <1>4, <2>1, FS_AddElement
  <2>3. Cardinality(E(j - 1) \cup {j}) = Cardinality(E(j - 1)) + 1
    <3> HIDE DEF S, E
    <3> QED
      BY <1>3, <1>4, <2>1, FS_AddElement
  <2> HIDE DEF S, E
  <2> QED
    BY <1>6, <2>2, <2>3 DEF s, e
<1>8. i = j => c(j - 1) = 0 /\ s(j - 1) = 0 /\ e(j - 1) = 0
  <2> SUFFICES ASSUME i = j
               PROVE  c(j - 1) = 0 /\ s(j - 1) = 0 /\ e(j - 1) = 0
    OBVIOUS
  <2>1. i .. (j - 1) = {} /\ S(j - 1) = {} /\ E(j - 1) = {}
    OBVIOUS
  <2> HIDE DEF S, E
  <2> QED
    BY <2>1, FS_EmptySet DEF c, s, e
<1> DEFINE c0 == c(j - 1)  s0 == s(j - 1)  e0 == e(j - 1)
           c1 == c(j)      s1 == s(j)      e1 == e(j)
<1>9. /\ c0 \in Nat /\ s0 \in Nat /\ e0 \in Nat /\ s1 \in Nat /\ e1 \in Nat /\ c1 = c0 + 1
      /\ s1 \in {s0, s0 + 1} /\ e1 \in {e0, e0 + 1} /\ (s1 = s0 \/ e1 = e0)
      /\ Characters(n, i, j - 1) = NumberSize * c0 + 2 * s0 + e0
      /\ Characters(n, i, j) = NumberSize * c1 + 2 * s1 + e1
      /\ i = j => c0 = 0 /\ s0 = 0 /\ e0 = 0
  <2> HIDE DEF c, s, e
  <2> QED
    BY <1>2, <1>3, <1>4, <1>5, <1>7, <1>8
<1> HIDE DEF c0, s0, e0, c1, s1, e1
<1>10. NumberSize * c1 = NumberSize * c0 + NumberSize /\ NumberSize * c0 \in Nat
       /\ (c0 = 0 => NumberSize * c0 = 0)
  BY <1>1, <1>9
<1> QED
  BY <1>1, <1>9, <1>10

\* As long as the loop does not send, there is room for one number more.
LEMMA PacketFits ==
    ASSUME NEW n \in Nat, NEW i \in Nat, NEW j \in Nat, i <= j,
           \A k \in i .. j - 1 : ~Full(n, i, k)
    PROVE  Characters(n, i, j) < MAX_RESPONSE_SIZE
<1>1. /\ NumberSize \in Nat /\ MAX_RESPONSE_SIZE \in Nat /\ Margin \in Nat
      /\ NumberSize + 2 < Margin /\ Margin <= MAX_RESPONSE_SIZE
  BY SamplerAssumption
<1>2. /\ Characters(n, i, j - 1) \in Nat /\ Characters(n, i, j) \in Nat
      /\ Characters(n, i, j) <= Characters(n, i, j - 1) + NumberSize + 2
      /\ i = j => Characters(n, i, j - 1) = 0
  BY OneNumberMore
<1>3. i # j => Characters(n, i, j - 1) <= MAX_RESPONSE_SIZE - Margin
  <2> SUFFICES ASSUME i # j
               PROVE  Characters(n, i, j - 1) <= MAX_RESPONSE_SIZE - Margin
    OBVIOUS
  <2>1. j - 1 \in i .. j - 1
    OBVIOUS
  <2>2. ~(Characters(n, i, j - 1) > MAX_RESPONSE_SIZE - Margin)
    BY <2>1 DEF Full
  <2> QED
    BY <1>1, <1>2, <2>2
<1> QED
  BY <1>1, <1>2, <1>3

\* A client gets the whole history of one second, for any room in a datagram
\* and any number of samples, and no datagram overruns its buffer.
THEOREM LightHistoryArrivesWhole == Spec => []HistoryArrivesWhole
<1>1. ASSUME TypeOK, HistoryInv
      PROVE  HistoryArrivesWhole
  <2>1. thread["server"] = "test" /\ command = "history" => IsSecond(received)
    BY <1>1, WholeIsSecond DEF HistoryInv
  <2>2. copy \in Seq(Voltages) /\ Len(copy) \in Nat /\ DOMAIN copy = 1 .. Len(copy)
    BY <1>1, LenProperties DEF TypeOK
  <2>3. \A i \in DOMAIN copy, j \in DOMAIN copy :
            (i <= j /\ \A k \in i .. j - 1 : ~Full(Len(copy), i, k))
                => Characters(Len(copy), i, j) < MAX_RESPONSE_SIZE
    BY <2>2, PacketFits
  <2> QED
    BY <2>1, <2>3 DEF HistoryArrivesWhole
<1> QED
  BY InitType, StepType, InitSeconds, StepSeconds, InitHistory, StepHistory, <1>1, PTL
  DEF Spec

------------------------------------------------------------------------------
(* Dips.  What the loop over the samples computes is shown by induction,   *)
(* which the least counterexample stands for.                              *)

\* A set of numbers has a least one.
LEMMA LeastElement ==
    ASSUME NEW T \in SUBSET Nat, T # {}
    PROVE  \E x \in T : \A y \in T : x <= y
<1> DEFINE R == {ss \in Nat \X Nat : ss[1] < ss[2]}
<1>1. IsWellFoundedOn(R, Nat)
  BY NatLessThanWellFounded, Zenon DEF OpToRel
<1>2. PICK x \in T : \A y \in T : ~(<<y, x>> \in R)
  <2> HIDE DEF R
  <2> QED
    BY <1>1, WFMin
<1>3. \A y \in T : ~(y < x)
  BY <1>2
<1> QED
  BY <1>3

\* A set that has 0 and, with a number below n, the next, has all up to n.
LEMMA CountUp ==
    ASSUME NEW n \in Nat, NEW S, 0 \in S, \A i \in 0 .. n - 1 : i \in S => i + 1 \in S
    PROVE  0 .. n \subseteq S
<1> DEFINE T == {i \in 0 .. n : i \notin S}
<1> SUFFICES ASSUME T # {}
             PROVE  FALSE
  OBVIOUS
<1>1. T \in SUBSET Nat
  OBVIOUS
<1>2. PICK x \in T : \A y \in T : x <= y
  <2> HIDE DEF T
  <2> QED
    BY <1>1, LeastElement
<1>3. x # 0 /\ x - 1 \in 0 .. n - 1 /\ x - 1 \notin T
  BY <1>2
<1> QED
  BY <1>2, <1>3

\* The loop of analyze_dips: after each sample it has counted the dips so far
\* and knows whether the light is back since the last sample that was low.
LEMMA DipsCounted ==
    ASSUME NEW avg \in Nat, NEW h \in Seq(Nat)
    PROVE  LET Low == {x \in 1 .. Len(h) : avg - h[x] >= DIP_THRESHOLD}
               back(j, i) == \E k \in j + 1 .. i - 1 :
                                 avg - h[k] <= DIP_THRESHOLD - HYSTERESIS
           IN  AnalyzeDips(avg, h) =
                   Cardinality({i \in Low : \A j \in Low : j < i => back(j, i)})
<1> DEFINE n == Len(h)
           rises(k) == avg - h[k] <= DIP_THRESHOLD - HYSTERESIS
           low(k) == avg - h[k] >= DIP_THRESHOLD
           Low == {x \in 1 .. n : low(x)}
           back(j, i) == \E k \in j + 1 .. i - 1 : rises(k)
           Dips == {i \in Low : \A j \in Low : j < i => back(j, i)}
           D(i) == {x \in Dips : x <= i}
           W(i) == \E x \in Low : x <= i /\ ~back(x, i + 1)
           F == [i \in 0 .. n |-> [dip_count |-> Cardinality(D(i)), waiting_for_reset |-> W(i)]]
           next(s, i) ==
               LET diff == avg - h[i]
               IN  IF ~s.waiting_for_reset /\ diff >= DIP_THRESHOLD
                   THEN [dip_count |-> s.dip_count + 1, waiting_for_reset |-> TRUE]
                   ELSE [s EXCEPT !.waiting_for_reset = @ /\ ~Rises(diff)]
           start == [dip_count |-> 0, waiting_for_reset |-> FALSE]
           Loop(f) == f = [i \in 0 .. n |-> IF i = 0 THEN start ELSE next(f[i - 1], i)]
           after == CHOOSE f : Loop(f)
<1>1. n \in Nat /\ \A k \in 1 .. n : h[k] \in Nat
  BY LenProperties, ElementOfSeq
<1>2. \A k \in 1 .. n : ~(low(k) /\ rises(k))
  <2>1. HYSTERESIS \in Nat \ {0} /\ DIP_THRESHOLD \in Nat
    BY SamplerAssumption
  <2> QED
    BY <1>1, <2>1
<1>3. AnalyzeDips(avg, h) = after[n].dip_count
  BY Zenon DEF AnalyzeDips
<1> HIDE DEF n, rises, low, after
<1>4. \A i \in 0 .. n : IsFiniteSet(D(i))
  <2> SUFFICES ASSUME NEW i \in 0 .. n
               PROVE  IsFiniteSet(D(i))
    OBVIOUS
  <2>1. D(i) \in SUBSET (1 .. n)
    OBVIOUS
  <2>2. IsFiniteSet(1 .. n)
    BY <1>1, FS_Interval
  <2> HIDE DEF D
  <2> QED
    BY <2>1, <2>2, FS_Subset
<1>5. ASSUME NEW i \in 1 .. n
       PROVE  D(i) = IF i \in Dips THEN D(i - 1) \cup {i} ELSE D(i - 1)
  <2>1. \A x \in Dips : x \in 1 .. n
    OBVIOUS
  <2> HIDE DEF Dips
  <2>2. \A x \in Dips : x <= i <=> x <= i - 1 \/ x = i
    BY <1>1, <2>1
  <2>3. i <= i
    BY <1>1
  <2> QED
    BY <2>2, <2>3
<1>6. \A i : W(i) \in BOOLEAN
  OBVIOUS
<1>7. F[0] = start
  <2>1. D(0) = {} /\ ~W(0)
    BY <1>1
  <2> HIDE DEF D, W
  <2>2. Cardinality(D(0)) = 0 /\ W(0) = FALSE
    BY <2>1, FS_EmptySet
  <2>3. F[0] = [dip_count |-> Cardinality(D(0)), waiting_for_reset |-> W(0)]
    BY <1>1
  <2> HIDE DEF F
  <2> QED
    BY <2>2, <2>3, Zenon
<1>8. ASSUME NEW i \in 1 .. n
      PROVE  F[i] = next(F[i - 1], i)
  <2>1. i - 1 \in 0 .. n /\ i \in 0 .. n /\ i \notin D(i - 1)
    BY <1>1
  <2>2. F[i] = [dip_count |-> Cardinality(D(i)), waiting_for_reset |-> W(i)]
        /\ F[i - 1] = [dip_count |-> Cardinality(D(i - 1)), waiting_for_reset |-> W(i - 1)]
    BY <2>1
  <2>3. Rises(avg - h[i]) <=> rises(i)
    BY DEF Rises, rises
  <2>4. avg - h[i] >= DIP_THRESHOLD <=> low(i)
    BY DEF low
  <2>5. CASE low(i) /\ ~W(i - 1)
    <3>1. i \in Dips
      BY <1>1, <2>5
    <3>2. D(i) = D(i - 1) \cup {i}
      BY <1>5, <3>1
    <3>3. W(i)
      BY <1>1, <2>5
    <3> HIDE DEF D, W, F
    <3>4. Cardinality(D(i)) = Cardinality(D(i - 1)) + 1
      BY <1>4, <2>1, <3>2, FS_AddElement
    <3> QED
      BY <2>2, <2>4, <2>5, <3>3, <3>4
  <2>6. CASE low(i) /\ W(i - 1)
    <3>1. PICK x \in Low : x <= i - 1 /\ ~back(x, i)
      BY <1>1, <2>6
    <3>2. i \notin Dips
      BY <1>1, <3>1
    <3>3. D(i) = D(i - 1)
      BY <1>5, <3>2
    <3>4. W(i)
      BY <1>1, <2>6
    <3>5. ~rises(i)
      BY <1>2, <2>6
    <3> HIDE DEF D, W, F
    <3>6. W(i) = TRUE /\ W(i - 1) = TRUE
      BY <1>6, <2>6, <3>4
    <3>7. F[i] = [dip_count |-> Cardinality(D(i - 1)), waiting_for_reset |-> TRUE]
      BY <2>2, <3>3, <3>6, Zenon
    <3>8. F[i - 1] = [dip_count |-> Cardinality(D(i - 1)), waiting_for_reset |-> TRUE]
      BY <2>2, <3>6, Zenon
    <3> DEFINE s == F[i - 1]
               w == s.waiting_for_reset /\ ~Rises(avg - h[i])
    <3>9. w = TRUE /\ s.waiting_for_reset
      BY <2>3, <3>5, <3>8
    <3>10. next(s, i) = [s EXCEPT !.waiting_for_reset = w]
      BY <3>9
    <3>11. next(s, i) = [dip_count |-> Cardinality(D(i - 1)), waiting_for_reset |-> w]
      <4> HIDE DEF w, next
      <4> QED
        BY <3>8, <3>10
    <3> HIDE DEF w, next
    <3>12. next(s, i) = F[i]
      BY <3>7, <3>9, <3>11, Zenon
    <3> QED
      BY <3>12
  <2>7. CASE ~low(i)
    <3>1. i \notin Low /\ i \notin Dips
      BY <2>7
    <3>2. D(i) = D(i - 1)
      BY <1>5, <3>1
    <3>3. W(i) <=> W(i - 1) /\ ~rises(i)
      <4>1. \A x \in Low : x <= i <=> x <= i - 1
        BY <1>1, <3>1
      <4>2. ASSUME NEW x \in Low, x <= i - 1
            PROVE  back(x, i + 1) <=> back(x, (i - 1) + 1) \/ rises(i)
        BY <1>1, <4>2
      <4> HIDE DEF Low, back
      <4> QED
        BY <4>1, <4>2
    <3>4. W(i) = (W(i - 1) /\ ~rises(i))
      <4> HIDE DEF W
      <4> QED
        BY <1>6, <3>3
    <3> HIDE DEF D, W, F
    <3> QED
      BY <2>2, <2>3, <2>4, <2>7, <3>2, <3>4
  <2> QED
    BY <2>5, <2>6, <2>7
<1>9. Loop(F)
  <2>1. F = [i \in 0 .. n |-> F[i]]
    OBVIOUS
  <2> HIDE DEF F, next, start
  <2>2. \A i \in 0 .. n : F[i] = IF i = 0 THEN start ELSE next(F[i - 1], i)
    BY <1>1, <1>7, <1>8
  <2> QED
    BY <2>1, <2>2
<1>10. Loop(after)
  <2> HIDE DEF F, Loop
  <2> QED
    BY <1>9 DEF after
<1>11. after[n] = F[n]
  <2> DEFINE S == {i \in 0 .. n : after[i] = F[i]}
  <2> HIDE DEF F, next, start
  <2>1. 0 \in S
    BY <1>1, <1>7, <1>10
  <2>2. ASSUME NEW i \in 0 .. n - 1, i \in S
        PROVE  i + 1 \in S
    <3>1. i + 1 \in 1 .. n /\ i + 1 \in 0 .. n /\ i + 1 # 0 /\ (i + 1) - 1 = i
      BY <1>1
    <3>2. after[i + 1] = next(after[i], i + 1)
      BY <1>10, <3>1
    <3>3. F[i + 1] = next(F[i], i + 1)
      BY <1>8, <3>1
    <3> QED
      BY <2>2, <3>1, <3>2, <3>3
  <2> HIDE DEF S
  <2>3. 0 .. n \subseteq S
    BY <1>1, <2>1, <2>2, CountUp
  <2> QED
    BY <1>1, <2>3 DEF S
<1>12. D(n) = Dips
  BY <1>1
<1>13. F[n].dip_count = Cardinality(Dips)
  <2>1. F[n] = [dip_count |-> Cardinality(D(n)), waiting_for_reset |-> W(n)]
    BY <1>1
  <2> HIDE DEF D, W, F, Dips
  <2> QED
    BY <1>12, <2>1
<1>14. AnalyzeDips(avg, h) = Cardinality(Dips)
  BY <1>3, <1>11, <1>13
<1> QED
  BY <1>14 DEF n, rises, low

\* A dip is counted once, however long and ragged it is, for any samples and
\* any average.
THEOREM LightDipsAreSeparate == Spec => []DipsAreSeparate
<1>1. TypeOK => DipsAreSeparate
  <2> SUFFICES ASSUME TypeOK
               PROVE  DipsAreSeparate
    OBVIOUS
  <2>1. current_average \in Nat /\ history_samples \in Seq(Nat)
        /\ DOMAIN history_samples = 1 .. Len(history_samples)
    BY SamplerAssumption, SeqMonotonic, LenProperties DEF TypeOK
  <2> QED
    BY <2>1, DipsCounted DEF DipsAreSeparate
<1> QED
  BY InitType, StepType, <1>1, PTL DEF Spec
==============================================================================
