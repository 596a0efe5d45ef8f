------------------------------- MODULE TimeVal -------------------------------
(***************************************************************************)
(* The arithmetic libtimer.c does on struct timeval, and what it is worth  *)
(* in microseconds.  A second has MICRO_PER_SEC of them (10^6 in the code).*)
(*                                                                         *)
(* Operators named X_Fault, before X, are faulty variants of X used to show*)
(* that a property depends on it; no specification uses them.              *)
(***************************************************************************)
EXTENDS Naturals

CONSTANTS
    MICRO_PER_SEC,
    MaxSec         \* bound: seconds of the times that are checked

ASSUME MicroAssumption == MICRO_PER_SEC \in Nat \ {0}
ASSUME MaxSecAssumption == MaxSec \in Nat

MAX_USEC == MICRO_PER_SEC - 1

Times == [sec : 0 .. MaxSec, usec : 0 .. MAX_USEC]

TV_LESS_THAN_Loose(t1, t2) == t1.sec < t2.sec \/ t1.usec < t2.usec

TV_LESS_THAN(t1, t2) ==
    \/ t1.sec < t2.sec
    \/ t1.sec = t2.sec /\ t1.usec < t2.usec

(* Used only when t2 is before t1.                                         *)
TV_MINUS(t1, t2) ==
    IF t1.usec >= t2.usec
      THEN [sec |-> t1.sec - t2.sec, usec |-> t1.usec - t2.usec]
      ELSE [sec |-> t1.sec - t2.sec - 1, usec |-> t1.usec + (MAX_USEC - t2.usec)]

(* add_timernode_to_list: relative to absolute time.                       *)
Absolute(now, t) ==
    [sec  |-> now.sec + t.sec + (now.usec + t.usec) \div MICRO_PER_SEC,
     usec |-> (now.usec + t.usec) % MICRO_PER_SEC]

-----------------------------------------------------------------------------
Micros(t) == t.sec * MICRO_PER_SEC + t.usec

(* A timer set now for t is due exactly t later, its time is normalised,   *)
(* and the interval get_rest_time makes of it at any time before it is due *)
(* is normalised and at most one microsecond short, never too long: select *)
(* is not asked to sleep past a timer.  (TV_MINUS borrows MAX_USEC, one    *)
(* less than a second.)                                                    *)
RestIsNeverLong ==
    \A now, t, later \in Times :
       LET due  == Absolute(now, t)
           rest == TV_MINUS(due, later)
       IN  /\ Micros(due) = Micros(now) + Micros(t)
           /\ due.usec <= MAX_USEC
           /\ TV_LESS_THAN(later, due) <=> Micros(later) < Micros(due)
           /\ TV_LESS_THAN(later, due) =>
                 /\ rest.usec <= MAX_USEC
                 /\ Micros(rest) <= Micros(due) - Micros(later)
                 /\ Micros(rest) + 1 >= Micros(due) - Micros(later)
=============================================================================
