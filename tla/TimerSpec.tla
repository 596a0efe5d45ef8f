------------------------------ MODULE TimerSpec ------------------------------
(***************************************************************************)
(* What the timer library promises: a timer that is set runs its handler   *)
(* once, not before its delay is over and not after it was removed, and    *)
(* handlers run one at a time.  LibTimer implements it, FindPwd uses it.   *)
(*                                                                         *)
(* A timer is known by its handler argument, which belongs to one timer at *)
(* a time.                                                                 *)
(***************************************************************************)
EXTENDS Naturals

CONSTANTS
    Args,       \* handler arguments
    Delays,     \* delays, in ticks of the clock
    Unset,      \* left[a] of an argument without a timer
    NoArg       \* no handler runs

VARIABLES
    left,       \* ticks until a timer may run
    running     \* the argument whose handler runs

Armed == {a \in Args : left[a] # Unset}

Init ==
    /\ left = [a \in Args |-> Unset]
    /\ running = NoArg

Arm(a, d) ==
    /\ left[a] = Unset
    /\ left' = [left EXCEPT ![a] = d]
    /\ UNCHANGED running

(* Timers that have not run may be removed.                                *)
Disarm(S) ==
    /\ left' = [a \in Args |-> IF a \in S THEN Unset ELSE left[a]]
    /\ UNCHANGED running

Run(a) ==
    /\ left[a] = 0
    /\ running = NoArg
    /\ left' = [left EXCEPT ![a] = Unset]
    /\ running' = a

Return ==
    /\ running # NoArg
    /\ running' = NoArg
    /\ UNCHANGED left

Tick ==
    /\ left' = [a \in Args |-> IF left[a] \in {Unset, 0} THEN left[a]
                                                         ELSE left[a] - 1]
    /\ UNCHANGED running

Next ==
    \/ \E a \in Args, d \in Delays : Arm(a, d)
    \/ \E S \in SUBSET Armed : Disarm(S)
    \/ \E a \in Args : Run(a)
    \/ Return
    \/ Tick

Spec == Init /\ [][Next]_<< left, running >>
=============================================================================
