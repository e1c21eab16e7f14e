----------------------------- MODULE MCStanding -----------------------------
(***************************************************************************)
(* Limits for TLC: one refused, one that pauses, one that is clamped.      *)
(***************************************************************************)
EXTENDS StandingLimit

MCAsked == {-10, 30, 400}
=============================================================================
