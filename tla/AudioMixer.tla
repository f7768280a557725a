----------------------------- MODULE AudioMixer ------------------------------
(***************************************************************************)
(* beatbox/hal/src/audioMixer.c: the table of sound bites, the clients     *)
(* that call AudioMixer_queueSound (the beat thread, the UDP thread, the   *)
(* main loop through AccelerometerApp_process), the playback thread that   *)
(* runs fillPlaybackBuffer on every period, and AudioMixer_cleanup.        *)
(*                                                                         *)
(* Every visit of a slot is a step of its own, inside the critical section *)
(* of the thread that makes it, so that it is the mutex of the model, not  *)
(* the grain of its actions, that keeps the table consistent.  Sample      *)
(* values are abstracted away: a sound is its length, and a slot is the    *)
(* sound it plays and the offset reached.                                  *)
(***************************************************************************)
EXTENDS Integers

CONSTANTS
    Sounds,             \* the wave files loaded by DrumSounds_init
    Length,             \* Length[s] = numSamples of s
    MAX_SOUND_BITES,    \* 30 in the code
    playbackBufferSize, \* samples per period, given by ALSA
    Clients,            \* threads that call AudioMixer_queueSound
    Player,             \* the playback thread
    NULL                \* no sound, and no owner

\* The wave files are not empty (asserted at the top of queueSound), ALSA has
\* a period of at least one sample, and the playback thread queues nothing.
ASSUME MixerAssumption ==
    /\ NULL \notin Sounds
    /\ Length \in [Sounds -> Nat \ {0}]
    /\ MAX_SOUND_BITES \in Nat \ {0}
    /\ playbackBufferSize \in Nat \ {0}
    /\ NULL \notin Clients \cup {Player}
    /\ Player \notin Clients

Slots == 0 .. MAX_SOUND_BITES - 1

VARIABLES
    pSound,     \* soundBites[i].pSound
    location,   \* soundBites[i].location
    audioMutex, \* owner of the mutex, or NULL
    pc,         \* pc[c]: where client c is in AudioMixer_queueSound
    arg,        \* arg[c]: the sound client c wants to queue
    idx,        \* idx[t]: the loop index i of thread t
    player,     \* where the playback thread is in its loop
    stopping,   \* the flag AudioMixer_cleanup sets
    cleanup,    \* where the thread in AudioMixer_cleanup is
    alive       \* FALSE once the playback thread has called exit()

vars == <<pSound, location, audioMutex, pc, arg, idx, player, stopping,
          cleanup, alive>>
table == <<pSound, location>>
control == <<stopping, cleanup, alive>>

Threads == Clients \cup {Player}

TypeOK ==
    /\ pSound \in [Slots -> Sounds \cup {NULL}]
    /\ location \in [Slots -> Nat]
    /\ audioMutex \in Threads \cup {NULL}
    /\ pc \in [Clients -> {"idle", "lock", "scan", "unlock"}]
    /\ arg \in [Clients -> Sounds \cup {NULL}]
    /\ idx \in [Threads -> 0 .. MAX_SOUND_BITES]
    /\ player \in {"test", "lock", "fill", "unlock", "write", "returned"}
    /\ stopping \in BOOLEAN
    /\ cleanup \in {"no", "join", "done"}
    /\ alive \in BOOLEAN

Init ==
    /\ pSound = [i \in Slots |-> NULL]
    /\ location = [i \in Slots |-> 0]
    /\ audioMutex = NULL
    /\ pc = [c \in Clients |-> "idle"]
    /\ arg = [c \in Clients |-> NULL]
    /\ idx = [t \in Threads |-> 0]
    /\ player = "test"
    /\ stopping = FALSE
    /\ cleanup = "no"
    /\ alive = TRUE

------------------------------------------------------------------------------
(* AudioMixer_queueSound, called by client c.                              *)

\* The program queues sounds only before it starts AudioMixer_cleanup.
Call(c, s) ==
    /\ alive /\ cleanup = "no"
    /\ pc[c] = "idle"
    /\ pc' = [pc EXCEPT ![c] = "lock"]
    /\ arg' = [arg EXCEPT ![c] = s]
    /\ UNCHANGED <<table, audioMutex, idx, player, control>>

BugLock(t) == audioMutex' = t              \* mutant: does not wait

Lock(t) ==
    /\ audioMutex = NULL
    /\ audioMutex' = t

QueueLock(c) ==
    /\ alive
    /\ pc[c] = "lock"
    /\ Lock(c)
    /\ pc' = [pc EXCEPT ![c] = "scan"]
    /\ idx' = [idx EXCEPT ![c] = 0]
    /\ UNCHANGED <<table, arg, player, control>>

BugPlace(i, s) ==                          \* mutant: the old offset stays
    /\ pSound' = [pSound EXCEPT ![i] = s]
    /\ UNCHANGED location

Place(i, s) ==
    /\ pSound' = [pSound EXCEPT ![i] = s]
    /\ location' = [location EXCEPT ![i] = 0]

IsFree(i) == pSound[i] = NULL

\* Slot i is empty: use it and leave the loop.
ScanFree(c) ==
    /\ alive
    /\ pc[c] = "scan"
    /\ IsFree(idx[c])
    /\ Place(idx[c], arg[c])
    /\ pc' = [pc EXCEPT ![c] = "unlock"]
    /\ UNCHANGED <<audioMutex, arg, idx, player, control>>

\* Slot i is in use: look at the next one, if there is one.
ScanBusy(c) ==
    /\ alive
    /\ pc[c] = "scan"
    /\ ~IsFree(idx[c])
    /\ idx' = [idx EXCEPT ![c] = @ + 1]
    /\ pc' = [pc EXCEPT ![c] = IF idx'[c] = MAX_SOUND_BITES THEN "unlock" ELSE "scan"]
    /\ UNCHANGED <<table, audioMutex, arg, player, control>>

BugRelease(c) ==                           \* mutant: a dropped sound keeps the lock
    audioMutex' = IF idx[c] = MAX_SOUND_BITES THEN audioMutex ELSE NULL

Release(c) == audioMutex' = NULL

\* Unlock and return; with i = MAX_SOUND_BITES the sound is reported dropped.
QueueUnlock(c) ==
    /\ alive
    /\ pc[c] = "unlock"
    /\ Release(c)
    /\ pc' = [pc EXCEPT ![c] = "idle"]
    /\ UNCHANGED <<table, arg, idx, player, control>>

------------------------------------------------------------------------------
(* playbackThread and fillPlaybackBuffer.                                  *)

BugMustStop == FALSE                       \* mutant: while (1)

MustStop == stopping

TestStopping ==
    /\ alive
    /\ player = "test"
    /\ player' = IF MustStop THEN "returned" ELSE "lock"
    /\ UNCHANGED <<table, audioMutex, pc, arg, idx, control>>

FillLock ==
    /\ alive
    /\ player = "lock"
    /\ Lock(Player)
    /\ idx' = [idx EXCEPT ![Player] = 0]
    /\ player' = "fill"
    /\ UNCHANGED <<table, pc, arg, control>>

\* samplesToAdd: the rest of the sound, at most one buffer of it.
SamplesToAdd(i) ==
    LET remaining == Length[pSound[i]] - location[i]
    IN  IF remaining < playbackBufferSize THEN remaining ELSE playbackBufferSize

BugAtEnd(s, loc) == loc > Length[s]        \* mutant: > for >=

AtEnd(s, loc) == loc >= Length[s]

\* The body of the loop for a slot in use: mix, then free the slot (its offset
\* is left as it is) or remember the offset for the next period.
MixSlot(i) ==
    LET reached == location[i] + SamplesToAdd(i)
    IN  IF AtEnd(pSound[i], reached)
        THEN /\ pSound' = [pSound EXCEPT ![i] = NULL]
             /\ UNCHANGED location
        ELSE /\ location' = [location EXCEPT ![i] = reached]
             /\ UNCHANGED pSound

FillSlot ==
    /\ alive
    /\ player = "fill"
    /\ LET i == idx[Player]
       IN  /\ IF pSound[i] = NULL THEN UNCHANGED table ELSE MixSlot(i)
           /\ idx' = [idx EXCEPT ![Player] = i + 1]
           /\ player' = IF i + 1 = MAX_SOUND_BITES THEN "unlock" ELSE "fill"
    /\ UNCHANGED <<audioMutex, pc, arg, control>>

FillUnlock ==
    /\ alive
    /\ player = "unlock"
    /\ audioMutex' = NULL
    /\ player' = "write"
    /\ UNCHANGED <<table, pc, arg, idx, control>>

\* snd_pcm_writei succeeded, wrote less, or was recovered: next period.
WriteBlock ==
    /\ alive
    /\ player = "write"
    /\ player' = "test"
    /\ UNCHANGED <<table, audioMutex, pc, arg, idx, control>>

\* snd_pcm_recover failed as well: exit(EXIT_FAILURE) ends every thread.
WriteFails ==
    /\ alive
    /\ player = "write"
    /\ alive' = FALSE
    /\ UNCHANGED <<table, audioMutex, pc, arg, idx, player, stopping, cleanup>>

------------------------------------------------------------------------------
(* AudioMixer_cleanup, called when no client will queue another sound.     *)

Cleanup ==
    /\ alive
    /\ cleanup = "no"
    /\ \A c \in Clients : pc[c] = "idle"
    /\ stopping' = TRUE
    /\ cleanup' = "join"
    /\ UNCHANGED <<table, audioMutex, pc, arg, idx, player, alive>>

BugJoined == TRUE                          \* mutant: does not wait

Joined == player = "returned"

\* pthread_join returns; drain, close, free(playbackBuffer).
JoinPlayer ==
    /\ alive
    /\ cleanup = "join"
    /\ Joined
    /\ cleanup' = "done"
    /\ UNCHANGED <<table, audioMutex, pc, arg, idx, player, stopping, alive>>

\* Both ends of the life of the module.
Terminated ==
    /\ cleanup = "done" \/ ~alive
    /\ UNCHANGED vars

------------------------------------------------------------------------------
ClientStep(c) == QueueLock(c) \/ ScanFree(c) \/ ScanBusy(c) \/ QueueUnlock(c)

PlayerStep ==
    TestStopping \/ FillLock \/ FillSlot \/ FillUnlock \/ WriteBlock \/ WriteFails

Next ==
    \/ \E c \in Clients : (\E s \in Sounds : Call(c, s)) \/ ClientStep(c)
    \/ PlayerStep
    \/ Cleanup
    \/ JoinPlayer
    \/ Terminated

Spec == Init /\ [][Next]_vars

(* Every thread that can take a step is scheduled.  A critical section is  *)
(* bounded and its thread then sleeps or blocks outside of it (usleep,     *)
(* recvfrom, snd_pcm_writei), so a thread that keeps finding the mutex     *)
(* free between two owners does acquire it: strong fairness of the locks.  *)
(* No fairness is asked of Call, of Cleanup or of a failing write.         *)
Fairness ==
    /\ \A c \in Clients : WF_vars(ClientStep(c)) /\ SF_vars(QueueLock(c))
    /\ WF_vars(PlayerStep) /\ SF_vars(FillLock)
    /\ WF_vars(JoinPlayer)

FairSpec == Spec /\ Fairness

------------------------------------------------------------------------------
(* Safety.                                                                 *)

\* An offset is a whole number of periods.
OnBoundary(n) == \E k \in 0 .. n : n = k * playbackBufferSize

\* A slot in use has samples left and starts on a period boundary: what
\* fillPlaybackBuffer reads (pData[location + j]) lies inside the sound,
\* and no sample is skipped.  Two writers in the table, a stale offset or a
\* wrong end test break it.
SlotsInBounds ==
    \A i \in Slots : pSound[i] # NULL =>
        /\ location[i] < Length[pSound[i]]
        /\ OnBoundary(location[i])

\* "No free slots available" (audioMixer.c:181) is reported only of a table
\* whose slots are all in use.
DroppedOnlyWhenFull ==
    \A c \in Clients :
        pc[c] = "unlock" /\ idx[c] = MAX_SOUND_BITES =>
            \A i \in Slots : pSound[i] # NULL

\* playbackBuffer is freed by AudioMixer_cleanup: after that the playback
\* thread, which fills and writes it, is not between two loop tests.
BufferOutlivesPlayer == cleanup = "done" => player = "returned"

(* Refinement.  The playback thread moves all voices when it takes the     *)
(* lock: a slot it has not visited yet counts as advanced already.         *)
Pending(i) == player = "fill" /\ i >= idx[Player]
Reached(i) == location[i] + (IF Pending(i) THEN playbackBufferSize ELSE 0)
Playing(i) == pSound[i] # NULL /\ (Pending(i) => ~AtEnd(pSound[i], Reached(i)))

SoundOf(i) == IF Playing(i) THEN pSound[i] ELSE NULL
PlayedOf(i) == IF Playing(i) THEN Reached(i) ELSE 0

OutcomeOf(c) ==
    CASE pc[c] # "unlock" -> "none"
      [] pc[c] = "unlock" /\ idx[c] < MAX_SOUND_BITES -> "queued"
      [] OTHER -> "dropped"

Pool == INSTANCE VoicePool WITH
            Block   <- playbackBufferSize,
            Voices  <- Slots,
            sound   <- [i \in Slots |-> SoundOf(i)],
            played  <- [i \in Slots |-> PlayedOf(i)],
            outcome <- [c \in Clients |-> OutcomeOf(c)]

\* The table, the linear search and the slot by slot mixing implement a pool
\* of voices: a sound that is accepted is played from its first sample, one
\* block per period, to its end, and is dropped only when the pool is full.
ImplementsVoicePool == Pool!Spec

------------------------------------------------------------------------------
(* Liveness, under FairSpec.                                               *)

\* A slot in use becomes free again: no sound plays for ever, unless the
\* mixer is being stopped or the process has exited.
EverySoundEnds ==
    \A i \in Slots : pSound[i] # NULL ~> (pSound[i] = NULL \/ stopping \/ ~alive)

\* A call of AudioMixer_queueSound returns, whatever the other threads do.
EveryCallReturns ==
    \A c \in Clients : pc[c] # "idle" ~> (pc[c] = "idle" \/ ~alive)

\* AudioMixer_cleanup returns.
CleanupReturns == cleanup = "join" ~> (cleanup = "done" \/ ~alive)
==============================================================================
