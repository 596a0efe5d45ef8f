----------------------------- MODULE MCLibTimer -----------------------------
(* The instance of LibTimer that TLC checks: two timers of different       *)
(* length, and room for two requests.                                      *)
EXTENDS LibTimer
=============================================================================
