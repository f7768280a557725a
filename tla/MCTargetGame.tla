---------------------------- MODULE MCTargetGame ----------------------------
(***************************************************************************)
(* A board of eight LEDs for TLC.  The unit is 0.05 of the acceleration of *)
(* gravity: thresholds of 0.1, 0.2, 0.35, 0.55 and 0.75.                   *)
(***************************************************************************)
EXTENDS TargetGame

MCTargets == {<<0, 0>>, <<4, -6>>}

\* On either target, in line with one, and in every band but one around them.
MCPointings == {<<0, 0>>, <<4, -7>>, <<9, 13>>, <<2, 3>>, <<-3, -3>>, <<1, -16>>}

\* For the button: one target, aimed at or missed.
OneTarget == {<<0, 0>>}
HitOrMiss == {<<0, 0>>, <<0, 3>>}
==============================================================================
