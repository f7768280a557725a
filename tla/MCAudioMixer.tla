---------------------------- MODULE MCAudioMixer -----------------------------
(***************************************************************************)
(* A small mixer for TLC: two slots, two clients, and two sounds, one      *)
(* shorter than a period, one of a period and a half.                      *)
(***************************************************************************)
EXTENDS AudioMixer

CONSTANTS kick, crash

MCSounds == {kick, crash}
MCLength == [s \in MCSounds |-> IF s = kick THEN 1 ELSE 3]
==============================================================================
