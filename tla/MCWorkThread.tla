---------------------------- MODULE MCWorkThread ----------------------------
(* The instance of WorkThread that TLC checks: the constants are given     *)
(* their values in MCWorkThread.cfg.                                       *)
EXTENDS WorkThread
=============================================================================
