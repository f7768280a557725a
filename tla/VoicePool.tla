------------------------------ MODULE VoicePool ------------------------------
(***************************************************************************)
(* What beatbox/hal/src/audioMixer.c promises to the threads that queue    *)
(* sounds.  There is a pool of voices.  A request takes an idle voice, any *)
(* one, and starts the sound at its first sample; it is refused only when  *)
(* every voice is busy.  All busy voices advance together, one block of    *)
(* samples at a time and none twice, and a voice becomes idle when its     *)
(* sound has been played to the end.  Nothing here says how an idle voice  *)
(* is found, where the lock is, or that the blocks are mixed slot by slot. *)
(***************************************************************************)
EXTENDS Integers

CONSTANTS
    Sounds,     \* the wave files that can be queued
    Length,     \* Length[s]: the number of samples of sound s
    Block,      \* samples played by every busy voice at each period
    Voices,     \* the pool
    Clients,    \* threads that queue sounds
    NULL        \* no sound

VARIABLES
    sound,      \* sound[v]: what voice v plays, or NULL
    played,     \* played[v]: how much of it has been played; 0 when idle
    outcome     \* outcome[c]: what client c has just been told

vars == <<sound, played, outcome>>

Busy(v) == sound[v] # NULL
LastBlock(v) == played[v] + Block >= Length[sound[v]]

Init ==
    /\ sound = [v \in Voices |-> NULL]
    /\ played = [v \in Voices |-> 0]
    /\ outcome = [c \in Clients |-> "none"]

Accept(c, s) ==
    /\ outcome[c] = "none"
    /\ \E v \in Voices :
          /\ ~Busy(v)
          /\ sound' = [sound EXCEPT ![v] = s]
          /\ played' = [played EXCEPT ![v] = 0]
    /\ outcome' = [outcome EXCEPT ![c] = "queued"]

Refuse(c) ==
    /\ outcome[c] = "none"
    /\ \A v \in Voices : Busy(v)
    /\ outcome' = [outcome EXCEPT ![c] = "dropped"]
    /\ UNCHANGED <<sound, played>>

Return(c) ==
    /\ outcome[c] # "none"
    /\ outcome' = [outcome EXCEPT ![c] = "none"]
    /\ UNCHANGED <<sound, played>>

Stays(v) == Busy(v) /\ ~LastBlock(v)

PlayBlock ==
    /\ sound' = [v \in Voices |-> IF Stays(v) THEN sound[v] ELSE NULL]
    /\ played' = [v \in Voices |-> IF Stays(v) THEN played[v] + Block ELSE 0]
    /\ UNCHANGED outcome

Next ==
    \/ \E c \in Clients : \/ \E s \in Sounds : Accept(c, s)
                          \/ Refuse(c)
                          \/ Return(c)
    \/ PlayBlock

Spec == Init /\ [][Next]_vars
==============================================================================
