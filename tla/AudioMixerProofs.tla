--------------------------- MODULE AudioMixerProofs ---------------------------
(***************************************************************************)
(* Proofs about module AudioMixer, for any number of slots, clients and    *)
(* sounds, any lengths and any period size: the table stays well formed, a *)
(* sound is dropped only by a full table, the playback buffer outlives its *)
(* user, and the mixer implements the pool of voices of module VoicePool.  *)
(***************************************************************************)
EXTENDS AudioMixer, TLAPS

(* The inductive invariant.  None of the properties is inductive alone:    *)
(* each needs to know who is inside the critical section.                  *)

\* Inside queueSound's or fillPlaybackBuffer's critical section, one owns
\* the mutex, and nobody owns it elsewhere.
LockInv ==
    /\ \A c \in Clients : pc[c] \in {"scan", "unlock"} <=> audioMutex = c
    /\ player \in {"fill", "unlock"} <=> audioMutex = Player

\* The client in the loop has a sound to place and has found every slot it
\* has passed in use.
ScanInv ==
    \A c \in Clients :
        /\ pc[c] # "idle" => arg[c] \in Sounds
        /\ pc[c] = "scan" => /\ idx[c] \in Slots
                             /\ \A i \in Slots : i < idx[c] => pSound[i] # NULL

FillInv == player = "fill" => idx[Player] \in Slots

CleanupInv ==
    /\ cleanup # "no" => stopping /\ \A c \in Clients : pc[c] = "idle"
    /\ BufferOutlivesPlayer

IInv ==
    /\ TypeOK
    /\ LockInv
    /\ ScanInv
    /\ FillInv
    /\ CleanupInv
    /\ SlotsInBounds
    /\ DroppedOnlyWhenFull

------------------------------------------------------------------------------
(* Lemmas on the arithmetic of offsets.                                    *)

\* The period after a boundary starts at a boundary.
LEMMA NextBoundary ==
    ASSUME NEW n \in Nat, OnBoundary(n)
    PROVE  OnBoundary(n + playbackBufferSize)
<1>1. PICK k \in 0 .. n : n = k * playbackBufferSize
  BY DEF OnBoundary
<1>2. k + 1 \in 0 .. n + playbackBufferSize
  BY MixerAssumption
<1>3. n + playbackBufferSize = (k + 1) * playbackBufferSize
  BY <1>1, MixerAssumption
<1>4. QED
  BY <1>2, <1>3 DEF OnBoundary

\* What MixSlot adds to the offset: the whole period, unless the sound ends.
LEMMA MixReaches ==
    ASSUME TypeOK, SlotsInBounds, NEW i \in Slots, pSound[i] # NULL
    PROVE  /\ SamplesToAdd(i) \in Nat
           /\ AtEnd(pSound[i], location[i] + SamplesToAdd(i))
                <=> AtEnd(pSound[i], location[i] + playbackBufferSize)
           /\ ~AtEnd(pSound[i], location[i] + SamplesToAdd(i))
                => SamplesToAdd(i) = playbackBufferSize
  BY MixerAssumption DEF TypeOK, SlotsInBounds, SamplesToAdd, AtEnd

------------------------------------------------------------------------------
(* The invariant holds initially and every step preserves it.              *)

\* Every table is empty and nobody holds the mutex at the start.
LEMMA InitInvariant == Init => IInv
<1> SUFFICES ASSUME Init PROVE IInv
  OBVIOUS
<1> USE MixerAssumption DEF Init, Slots, Threads
<1>1. TypeOK
  <2>1. idx \in [Threads -> 0 .. MAX_SOUND_BITES]
    OBVIOUS
  <2>2. stopping \in BOOLEAN /\ alive \in BOOLEAN
    OBVIOUS
  <2>3. pSound \in [Slots -> Sounds \cup {NULL}] /\ location \in [Slots -> Nat]
    OBVIOUS
  <2>4. arg \in [Clients -> Sounds \cup {NULL}] /\ audioMutex \in Threads \cup {NULL}
    OBVIOUS
  <2>5. QED
    BY <2>1, <2>2, <2>3, <2>4 DEF TypeOK
<1>2. LockInv
  BY DEF LockInv
<1>3. ScanInv /\ FillInv /\ CleanupInv
  BY DEF ScanInv, FillInv, CleanupInv, BufferOutlivesPlayer
<1>4. SlotsInBounds /\ DroppedOnlyWhenFull
  BY DEF SlotsInBounds, DroppedOnlyWhenFull
<1>5. QED
  BY <1>1, <1>2, <1>3, <1>4 DEF IInv

\* A client's steps outside and inside the critical section.
LEMMA ClientInvariant ==
    ASSUME IInv, NEW c \in Clients,
           (\E s \in Sounds : Call(c, s)) \/ ClientStep(c)
    PROVE  IInv'
<1> USE MixerAssumption
<1> USE DEF IInv, TypeOK, LockInv, ScanInv, FillInv, CleanupInv,
            DroppedOnlyWhenFull, BufferOutlivesPlayer, Slots, Threads,
            table, control
<1>1. ASSUME NEW s \in Sounds, Call(c, s) PROVE IInv'
  BY <1>1 DEF Call, SlotsInBounds
<1>2. ASSUME QueueLock(c) PROVE IInv'
  BY <1>2 DEF QueueLock, Lock, SlotsInBounds
<1>3. ASSUME ScanFree(c) PROVE IInv'
  BY <1>3 DEF ScanFree, IsFree, Place, SlotsInBounds, OnBoundary
<1>4. ASSUME ScanBusy(c) PROVE IInv'
  BY <1>4 DEF ScanBusy, IsFree, SlotsInBounds
<1>5. ASSUME QueueUnlock(c) PROVE IInv'
  BY <1>5 DEF QueueUnlock, Release, SlotsInBounds
<1>6. QED
  BY <1>1, <1>2, <1>3, <1>4, <1>5 DEF ClientStep

\* The playback thread's steps.  Only FillSlot changes the table: it leaves
\* a slot free, or one period further.
LEMMA PlayerInvariant == ASSUME IInv, PlayerStep PROVE IInv'
<1> USE MixerAssumption
<1> USE DEF IInv, TypeOK, LockInv, ScanInv, FillInv, CleanupInv,
            DroppedOnlyWhenFull, BufferOutlivesPlayer, Slots, Threads,
            table, control
<1>1. ASSUME TestStopping PROVE IInv'
  BY <1>1 DEF TestStopping, MustStop, SlotsInBounds
<1>2. ASSUME FillLock PROVE IInv'
  BY <1>2 DEF FillLock, Lock, SlotsInBounds
<1>3. ASSUME FillSlot PROVE IInv'
  <2> DEFINE i == idx[Player]
  <2>1. i \in Slots
    BY <1>3 DEF FillSlot
  <2>2. CASE pSound[i] = NULL
    BY <1>3, <2>1, <2>2 DEF FillSlot, SlotsInBounds
  <2>3. CASE pSound[i] # NULL
    <3> DEFINE reached == location[i] + SamplesToAdd(i)
    <3>1. reached \in Nat
      BY <2>1, <2>3, MixReaches
    <3>2. ~AtEnd(pSound[i], reached) => reached = location[i] + playbackBufferSize
      BY <2>1, <2>3, MixReaches
    <3>3. OnBoundary(location[i] + playbackBufferSize)
      BY <2>1, <2>3, NextBoundary DEF SlotsInBounds
    <3>4. CASE AtEnd(pSound[i], reached)
      <4>1. pSound' = [pSound EXCEPT ![i] = NULL] /\ UNCHANGED location
        BY <1>3, <2>3, <3>4 DEF FillSlot, MixSlot
      <4>2. QED
        BY <1>3, <2>1, <4>1 DEF FillSlot, SlotsInBounds
    <3>5. CASE ~AtEnd(pSound[i], reached)
      <4>1. location' = [location EXCEPT ![i] = reached] /\ UNCHANGED pSound
        BY <1>3, <2>3, <3>5 DEF FillSlot, MixSlot
      <4>2. TypeOK' /\ LockInv' /\ ScanInv' /\ FillInv' /\ CleanupInv'
        BY <1>3, <2>1, <3>1, <4>1 DEF FillSlot
      <4>3. reached < Length[pSound[i]]
        BY <2>1, <2>3, <3>1, <3>5 DEF AtEnd
      <4>4. SlotsInBounds'
        BY <2>1, <3>2, <3>3, <3>5, <4>1, <4>3 DEF SlotsInBounds
      <4>5. DroppedOnlyWhenFull'
        BY <1>3, <4>1 DEF FillSlot
      <4>6. QED
        BY <4>2, <4>4, <4>5
    <3>6. QED
      BY <3>4, <3>5
  <2>4. QED
    BY <2>2, <2>3
<1>4. ASSUME FillUnlock PROVE IInv'
  BY <1>4 DEF FillUnlock, SlotsInBounds
<1>5. ASSUME WriteBlock PROVE IInv'
  BY <1>5 DEF WriteBlock, SlotsInBounds
<1>6. ASSUME WriteFails PROVE IInv'
  BY <1>6 DEF WriteFails, SlotsInBounds
<1>7. QED
  BY <1>1, <1>2, <1>3, <1>4, <1>5, <1>6 DEF PlayerStep

\* AudioMixer_cleanup finds no client inside and waits for the player.
LEMMA CleanupInvariant == ASSUME IInv, Cleanup \/ JoinPlayer PROVE IInv'
  BY MixerAssumption
     DEF IInv, TypeOK, LockInv, ScanInv, FillInv, CleanupInv, SlotsInBounds,
         DroppedOnlyWhenFull, BufferOutlivesPlayer, Slots, Threads, table,
         control, Cleanup, JoinPlayer, Joined

\* The inductive invariant of the mixer.
THEOREM MixerInvariant == Spec => []IInv
<1>1. IInv /\ UNCHANGED vars => IInv'
  BY DEF IInv, TypeOK, LockInv, ScanInv, FillInv, CleanupInv, SlotsInBounds,
         DroppedOnlyWhenFull, BufferOutlivesPlayer, OnBoundary, vars
<1>2. IInv /\ [Next]_vars => IInv'
  BY <1>1, ClientInvariant, PlayerInvariant, CleanupInvariant
     DEF Next, Terminated
<1>3. QED
  BY <1>2, InitInvariant, PTL DEF Spec

\* Type correctness of the mixer's state.
THEOREM MixerTypeOK == Spec => []TypeOK
<1>1. IInv => TypeOK
  BY DEF IInv
<1>2. QED
  BY <1>1, MixerInvariant, PTL

\* What fillPlaybackBuffer reads lies inside the sound of the slot, and every
\* sound is played period by period without a gap.
THEOREM MixerSlotsInBounds == Spec => []SlotsInBounds
<1>1. IInv => SlotsInBounds
  BY DEF IInv
<1>2. QED
  BY <1>1, MixerInvariant, PTL

\* AudioMixer_queueSound drops a sound only when no slot is free.
THEOREM MixerDropsOnlyWhenFull == Spec => []DroppedOnlyWhenFull
<1>1. IInv => DroppedOnlyWhenFull
  BY DEF IInv
<1>2. QED
  BY <1>1, MixerInvariant, PTL

\* AudioMixer_cleanup frees the playback buffer after its last use.
THEOREM MixerBufferOutlivesPlayer == Spec => []BufferOutlivesPlayer
<1>1. IInv => BufferOutlivesPlayer
  BY DEF IInv, CleanupInv
<1>2. QED
  BY <1>1, MixerInvariant, PTL

------------------------------------------------------------------------------
(* Refinement: every step of the mixer is a step of the pool or a stutter. *)

\* Outside a pass of fillPlaybackBuffer a voice is what its slot holds.
LEMMA ViewAtRest ==
    ASSUME TypeOK, player # "fill", NEW i \in Slots
    PROVE  /\ SoundOf(i) = pSound[i]
           /\ PlayedOf(i) = IF pSound[i] = NULL THEN 0 ELSE location[i]
  BY DEF TypeOK, SoundOf, PlayedOf, Playing, Pending, Reached

\* A step that leaves the table, the pass and the verdicts alone is not seen.
LEMMA Unseen ==
    ASSUME UNCHANGED table,
           \A i \in Slots : Pending(i)' <=> Pending(i),
           \A c \in Clients : OutcomeOf(c)' = OutcomeOf(c)
    PROVE  UNCHANGED Pool!vars
<1>1. \A i \in Slots : SoundOf(i)' = SoundOf(i) /\ PlayedOf(i)' = PlayedOf(i)
  BY DEF SoundOf, PlayedOf, Playing, Reached, AtEnd, table
<1>2. QED
  BY <1>1 DEF Pool!vars

\* Queueing a sound: the request is accepted where the empty slot is filled,
\* refused where the last slot is found in use, and over at the unlock.
LEMMA ClientRefines ==
    ASSUME IInv, NEW c \in Clients,
           (\E s \in Sounds : Call(c, s)) \/ ClientStep(c)
    PROVE  [Pool!Next]_(Pool!vars)
<1> USE MixerAssumption
<1>0. IInv'
  BY ClientInvariant
<1>1. ASSUME NEW s \in Sounds, Call(c, s) PROVE UNCHANGED Pool!vars
  BY <1>1, Unseen DEF Call, Pending, OutcomeOf, IInv, TypeOK
<1>2. ASSUME QueueLock(c) PROVE UNCHANGED Pool!vars
  BY <1>2, Unseen DEF QueueLock, Pending, OutcomeOf, IInv, TypeOK, Threads
<1>3. ASSUME ScanFree(c) PROVE Pool!Accept(c, arg[c])
  <2>1. /\ player # "fill" /\ player' # "fill"
        /\ idx[c] \in Slots /\ arg[c] \in Sounds /\ pSound[idx[c]] = NULL
    BY <1>3 DEF ScanFree, IsFree, IInv, LockInv, ScanInv, TypeOK
  <2>2. OutcomeOf(c) = "none" /\ OutcomeOf(c)' = "queued"
    BY <1>3, <2>1 DEF ScanFree, OutcomeOf, IInv, TypeOK, Slots
  <2>3. \A d \in Clients \ {c} : OutcomeOf(d)' = OutcomeOf(d)
    BY <1>3 DEF ScanFree, OutcomeOf, IInv, TypeOK
  <2>4. \A i \in Slots :
           /\ SoundOf(i)' = IF i = idx[c] THEN arg[c] ELSE SoundOf(i)
           /\ PlayedOf(i)' = IF i = idx[c] THEN 0 ELSE PlayedOf(i)
    <3> SUFFICES ASSUME NEW i \in Slots
                 PROVE  /\ SoundOf(i)' = IF i = idx[c] THEN arg[c] ELSE SoundOf(i)
                        /\ PlayedOf(i)' = IF i = idx[c] THEN 0 ELSE PlayedOf(i)
      OBVIOUS
    <3>1. /\ SoundOf(i) = pSound[i]
          /\ PlayedOf(i) = IF pSound[i] = NULL THEN 0 ELSE location[i]
      BY <2>1, ViewAtRest DEF IInv
    <3>2. /\ SoundOf(i)' = pSound'[i]
          /\ PlayedOf(i)' = IF pSound'[i] = NULL THEN 0 ELSE location'[i]
      BY <1>0, <1>3, <2>1
         DEF IInv, TypeOK, SoundOf, PlayedOf, Playing, Pending, Reached
    <3>3. /\ pSound' = [pSound EXCEPT ![idx[c]] = arg[c]]
          /\ location' = [location EXCEPT ![idx[c]] = 0]
      BY <1>3 DEF ScanFree, Place
    <3>4. QED
      BY <2>1, <3>1, <3>2, <3>3 DEF IInv, TypeOK
  <2>5. SoundOf(idx[c]) = NULL
    BY <2>1, ViewAtRest DEF IInv
  <2>6. QED
    BY <2>1, <2>2, <2>3, <2>4, <2>5 DEF Pool!Accept, Pool!Busy
<1>4. ASSUME ScanBusy(c) PROVE Pool!Refuse(c) \/ UNCHANGED Pool!vars
  <2>1. player # "fill" /\ player' = player /\ idx[c] \in Slots
    BY <1>4 DEF ScanBusy, IInv, LockInv, ScanInv, TypeOK
  <2>2. \A d \in Clients \ {c} : OutcomeOf(d)' = OutcomeOf(d)
    BY <1>4 DEF ScanBusy, OutcomeOf, IInv, TypeOK, Threads
  <2>3. UNCHANGED table /\ \A i \in Slots : Pending(i)' <=> Pending(i)
    BY <1>4, <2>1 DEF ScanBusy, Pending
  <2>4. CASE pc'[c] = "scan"
    <3>1. OutcomeOf(c)' = OutcomeOf(c)
      BY <1>4, <2>4 DEF ScanBusy, OutcomeOf
    <3>2. QED
      BY <2>2, <2>3, <3>1, Unseen
  <2>5. CASE pc'[c] = "unlock"
    <3>1. idx'[c] = MAX_SOUND_BITES /\ OutcomeOf(c) = "none" /\ OutcomeOf(c)' = "dropped"
      BY <1>4, <2>1, <2>5 DEF ScanBusy, OutcomeOf, IInv, TypeOK, Threads, Slots
    <3>2. \A i \in Slots : pSound[i] # NULL
      BY <1>0, <2>3, <2>5, <3>1 DEF IInv, DroppedOnlyWhenFull, table
    <3>3. \A i \in Slots : SoundOf(i) # NULL
      BY <2>1, <3>2, ViewAtRest DEF IInv
    <3>4. \A i \in Slots : SoundOf(i)' = SoundOf(i) /\ PlayedOf(i)' = PlayedOf(i)
      BY <2>3 DEF SoundOf, PlayedOf, Playing, Reached, AtEnd, table
    <3>5. QED
      BY <2>2, <3>1, <3>3, <3>4 DEF Pool!Refuse, Pool!Busy
  <2>6. QED
    BY <1>4, <2>4, <2>5 DEF ScanBusy, IInv, TypeOK
<1>5. ASSUME QueueUnlock(c) PROVE Pool!Return(c)
  <2>1. OutcomeOf(c) # "none" /\ OutcomeOf(c)' = "none"
    BY <1>5 DEF QueueUnlock, OutcomeOf, IInv, TypeOK
  <2>2. \A d \in Clients \ {c} : OutcomeOf(d)' = OutcomeOf(d)
    BY <1>5 DEF QueueUnlock, OutcomeOf, IInv, TypeOK
  <2>3. \A i \in Slots : SoundOf(i)' = SoundOf(i) /\ PlayedOf(i)' = PlayedOf(i)
    BY <1>5 DEF QueueUnlock, SoundOf, PlayedOf, Playing, Pending, Reached, AtEnd, table
  <2>4. QED
    BY <2>1, <2>2, <2>3 DEF Pool!Return
<1>6. arg[c] \in Sounds \/ ~ScanFree(c)
  BY DEF ScanFree, IInv, ScanInv
<1>7. QED
  BY <1>1, <1>2, <1>3, <1>4, <1>5, <1>6 DEF ClientStep, Pool!Next

\* Playing: all voices advance when the lock is taken; the slots then catch
\* up one by one without being seen.
LEMMA PlayerRefines ==
    ASSUME IInv, PlayerStep
    PROVE  [Pool!Next]_(Pool!vars)
<1> USE MixerAssumption
<1>1. ASSUME TestStopping PROVE UNCHANGED Pool!vars
  BY <1>1, Unseen DEF TestStopping, Pending, OutcomeOf
<1>2. ASSUME FillLock PROVE Pool!PlayBlock
  <2>1. player # "fill" /\ player' = "fill" /\ idx'[Player] = 0 /\ UNCHANGED table
    BY <1>2 DEF FillLock, IInv, TypeOK, Threads
  <2>2. \A c \in Clients : OutcomeOf(c)' = OutcomeOf(c)
    BY <1>2 DEF FillLock, OutcomeOf, IInv, TypeOK, Threads
  <2>3. \A i \in Slots :
           /\ SoundOf(i)' = IF Pool!Stays(i) THEN SoundOf(i) ELSE NULL
           /\ PlayedOf(i)' = IF Pool!Stays(i)
                             THEN PlayedOf(i) + playbackBufferSize ELSE 0
    <3> SUFFICES ASSUME NEW i \in Slots
                 PROVE  /\ SoundOf(i)' = IF Pool!Stays(i) THEN SoundOf(i) ELSE NULL
                        /\ PlayedOf(i)' = IF Pool!Stays(i)
                                          THEN PlayedOf(i) + playbackBufferSize ELSE 0
      OBVIOUS
    <3>1. /\ SoundOf(i) = pSound[i]
          /\ PlayedOf(i) = IF pSound[i] = NULL THEN 0 ELSE location[i]
      BY <2>1, ViewAtRest DEF IInv
    <3>2. Pending(i)'
      BY <2>1 DEF Pending, Slots
    <3>3. Pool!Stays(i) <=>
             /\ pSound[i] # NULL
             /\ ~AtEnd(pSound[i], location[i] + playbackBufferSize)
      BY <3>1 DEF Pool!Stays, Pool!Busy, Pool!LastBlock, AtEnd, IInv, TypeOK
    <3>4. Reached(i)' = location[i] + playbackBufferSize
      BY <2>1, <3>2 DEF Reached, table
    <3>5. Playing(i)' <=> Pool!Stays(i)
      BY <2>1, <3>2, <3>3, <3>4 DEF Playing, AtEnd, table
    <3>6. QED
      BY <2>1, <3>1, <3>3, <3>4, <3>5 DEF SoundOf, PlayedOf, table
  <2>4. QED
    BY <2>2, <2>3 DEF Pool!PlayBlock
<1>3. ASSUME FillSlot PROVE UNCHANGED Pool!vars
  <2>1. PICK k \in Slots : /\ k = idx[Player] /\ idx'[Player] = k + 1
                          /\ player = "fill"
    BY <1>3 DEF FillSlot, IInv, TypeOK, FillInv, Threads
  <2>2. \A c \in Clients : OutcomeOf(c)' = OutcomeOf(c)
    BY <1>3 DEF FillSlot, OutcomeOf, IInv, TypeOK, Threads
  <2>3. ASSUME NEW i \in Slots, i # k
        PROVE  SoundOf(i)' = SoundOf(i) /\ PlayedOf(i)' = PlayedOf(i)
    <3>1. pSound'[i] = pSound[i] /\ location'[i] = location[i]
      BY <1>3, <2>1, <2>3 DEF FillSlot, MixSlot, IInv, TypeOK, table
    <3>2. Pending(i)' <=> Pending(i)
      BY <1>3, <2>1, <2>3 DEF FillSlot, Pending, Slots
    <3>3. QED
      BY <3>1, <3>2 DEF SoundOf, PlayedOf, Playing, Reached, AtEnd
  <2>4. SoundOf(k)' = SoundOf(k) /\ PlayedOf(k)' = PlayedOf(k)
    <3>1. Pending(k) /\ ~Pending(k)'
      BY <2>1 DEF Pending, Slots
    <3>2. CASE pSound[k] = NULL
      BY <1>3, <2>1, <3>1, <3>2
         DEF FillSlot, SoundOf, PlayedOf, Playing, Reached, AtEnd, table
    <3>3. CASE pSound[k] # NULL
      <4>0. PICK reached \in Nat : reached = location[k] + SamplesToAdd(k)
        BY <3>3, MixReaches DEF IInv, TypeOK
      <4>1. /\ AtEnd(pSound[k], reached)
                 <=> AtEnd(pSound[k], location[k] + playbackBufferSize)
            /\ ~AtEnd(pSound[k], reached) => reached = location[k] + playbackBufferSize
        BY <3>3, <4>0, MixReaches DEF IInv
      <4>2. Reached(k) = location[k] + playbackBufferSize
        BY <3>1 DEF Reached
      <4>3. CASE AtEnd(pSound[k], reached)
        <5>1. pSound' = [pSound EXCEPT ![k] = NULL]
          BY <1>3, <2>1, <3>3, <4>0, <4>3 DEF FillSlot, MixSlot
        <5>2. ~Playing(k) /\ ~Playing(k)'
          BY <2>1, <3>1, <4>1, <4>2, <4>3, <5>1 DEF Playing, IInv, TypeOK
        <5>3. QED
          BY <5>2 DEF SoundOf, PlayedOf
      <4>4. CASE ~AtEnd(pSound[k], reached)
        <5>1. location' = [location EXCEPT ![k] = reached] /\ UNCHANGED pSound
          BY <1>3, <2>1, <3>3, <4>0, <4>4 DEF FillSlot, MixSlot
        <5>2. Reached(k)' = location'[k] + 0
          BY <2>1, <3>1 DEF Reached, Pending, Slots
        <5>3. Reached(k)' = Reached(k)
          BY <2>1, <4>1, <4>2, <4>4, <5>1, <5>2 DEF IInv, TypeOK
        <5>4. Playing(k) /\ Playing(k)'
          BY <2>1, <3>1, <3>3, <4>1, <4>2, <4>4, <5>1 DEF Playing, IInv, TypeOK
        <5>5. QED
          BY <5>1, <5>3, <5>4 DEF SoundOf, PlayedOf
      <4>5. QED
        BY <4>3, <4>4
    <3>4. QED
      BY <3>2, <3>3
  <2>5. \A i \in Slots : SoundOf(i)' = SoundOf(i) /\ PlayedOf(i)' = PlayedOf(i)
    BY <2>3, <2>4
  <2>6. QED
    BY <2>2, <2>5 DEF Pool!vars
<1>4. ASSUME FillUnlock PROVE UNCHANGED Pool!vars
  BY <1>4, Unseen DEF FillUnlock, Pending, OutcomeOf
<1>5. ASSUME WriteBlock PROVE UNCHANGED Pool!vars
  BY <1>5, Unseen DEF WriteBlock, Pending, OutcomeOf
<1>6. ASSUME WriteFails PROVE UNCHANGED Pool!vars
  BY <1>6, Unseen DEF WriteFails, Pending, OutcomeOf
<1>7. QED
  BY <1>1, <1>2, <1>3, <1>4, <1>5, <1>6 DEF PlayerStep, Pool!Next

\* The mixer implements the pool of voices: an accepted sound is played from
\* its first sample to its end, one block per period, whatever the clients
\* do meanwhile, and only a full pool refuses one.
THEOREM MixerImplementsVoicePool == Spec => ImplementsVoicePool
<1>1. Init => Pool!Init
  BY DEF Init, Pool!Init, SoundOf, PlayedOf, Playing, OutcomeOf
<1>2. IInv /\ [Next]_vars => [Pool!Next]_(Pool!vars)
  <2> SUFFICES ASSUME IInv, [Next]_vars PROVE [Pool!Next]_(Pool!vars)
    OBVIOUS
  <2>1. ASSUME Cleanup \/ JoinPlayer \/ UNCHANGED vars
        PROVE  UNCHANGED Pool!vars
    BY <2>1, Unseen DEF Cleanup, JoinPlayer, vars, table, Pending, OutcomeOf
  <2>2. QED
    BY <2>1, ClientRefines, PlayerRefines DEF Next, Terminated
<1>3. QED
  BY <1>1, <1>2, MixerInvariant, PTL DEF Spec, ImplementsVoicePool, Pool!Spec
==============================================================================
