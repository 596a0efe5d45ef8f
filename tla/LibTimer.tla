------------------------------ MODULE LibTimer ------------------------------
(***************************************************************************)
(* The timer library (libtimer.c): the thread that keeps the queue of      *)
(* timers (timer_server_task), the thread that runs the handlers of expired*)
(* ones (time_out_task, started on demand), and the threads that call the  *)
(* library over a unix socket and give up on an answer after 3 seconds.    *)
(*                                                                         *)
(* A timer is known by its handler argument, which its owner uses for one  *)
(* timer at a time; the id timer_add returns stands for the same thing.    *)
(* Times are relative: ticks of the clock that are left until a timer is   *)
(* due.                                                                    *)
(*                                                                         *)
(* Operators named X_Fault, before X, are faulty variants of X used to show*)
(* that a property depends on it; no specification uses them.              *)
(***************************************************************************)
EXTENDS Integers, Sequences, SequencesExt, TimeVal

CONSTANTS
    Args,        \* handler arguments, each with a thread that uses it
    Delays,      \* delays of timers, in ticks
    Backlog,     \* MAX_SOCKET_PENDING_CONNECTIONS
    Unset,       \* no delay: an argument without a timer, a select without end
    NoArg

ASSUME DelayAssumption == Delays \subseteq Nat \ {0}
ASSUME BacklogAssumption == Backlog \in Nat \ {0}
ASSUME UnsetAssumption == Unset \notin Nat /\ NoArg \notin Args

VARIABLES
    server,        \* timer_server_task
    rest,          \* what select still waits for, Unset if without end
    timerq,        \* queue of timers
    timeout_list,  \* arguments of expired timers, oldest first
    timeout_thread_is_on,
    task,          \* time_out_task
    running,       \* the argument of the handler it runs
    requests,      \* connections the server has not accepted
    call           \* what the thread of an argument is doing

vars == << server, rest, timerq, timeout_list, timeout_thread_is_on, task,
           running, requests, call >>

Timer == [arg : Args, left : Nat]
Request == [action : {"ADD", "DEL", "DEL_ALL", "DESTROY"}, arg : Args,
            delay : Delays \cup {0}, waited : BOOLEAN]

(* Where an argument is in use by the library.                             *)
Queued(a) == \E i \in DOMAIN timerq : timerq[i].arg = a
Pending(a) == \E i \in DOMAIN timeout_list : timeout_list[i] = a
Requested(a) == \E i \in DOMAIN requests :
                   requests[i].action = "ADD" /\ requests[i].arg = a

Init ==
    /\ server = "off"
    /\ rest = Unset
    /\ timerq = << >>
    /\ timeout_list = << >>
    /\ timeout_thread_is_on = FALSE
    /\ task = "none"
    /\ running = NoArg
    /\ requests = << >>
    /\ call = [a \in Args |-> "none"]

-----------------------------------------------------------------------------
(* timer_init, by the thread of a: it waits until the server listens.  If  *)
(* there is no socket the server ends without a signal and the caller      *)
(* waits for ever.                                                         *)
timer_init(a) ==
    /\ server = "off"
    /\ \/ server' = "select" /\ UNCHANGED call
       \/ server' = "failed" /\ call' = [call EXCEPT ![a] = "init"]
    /\ UNCHANGED << rest, timerq, timeout_list, timeout_thread_is_on, task,
                    running, requests >>

(* send_recv_msg: connect and send.  A full backlog fails the call, which  *)
(* changes nothing.  timer_destroy does not wait for an answer.            *)
send_msg(a, action, delay) ==
    /\ server \in {"select", "notify"}
    /\ call[a] = "none"
    /\ Len(requests) < Backlog
    /\ requests' = Append(requests, [action |-> action, arg |-> a, delay |-> delay,
                                     waited |-> action # "DESTROY"])
    /\ call' = IF action = "DESTROY" THEN call ELSE [call EXCEPT ![a] = "wait"]
    /\ UNCHANGED << server, rest, timerq, timeout_list, timeout_thread_is_on,
                    task, running >>

(* An argument is given to the library again only when it is done with it. *)
timer_add(a, d) ==
    /\ ~Queued(a) /\ ~Pending(a) /\ ~Requested(a)
    /\ send_msg(a, "ADD", d)

timer_rem(a) == send_msg(a, "DEL", 0)

timer_clear(a) == send_msg(a, "DEL_ALL", 0)

timer_destroy(a) == send_msg(a, "DESTROY", 0)

(* The caller gives up; the server will find its request all the same.     *)
recv_timeout(a) ==
    /\ server # "gone"
    /\ call[a] = "wait"
    /\ call' = [call EXCEPT ![a] = "none"]
    /\ requests' = [i \in DOMAIN requests |->
                      IF requests[i].arg = a
                        THEN [requests[i] EXCEPT !.waited = FALSE]
                        ELSE requests[i]]
    /\ UNCHANGED << server, rest, timerq, timeout_list, timeout_thread_is_on,
                    task, running >>

-----------------------------------------------------------------------------
(* In front of the first timer that is due later, or at the end.           *)
InsertTimer(q, t) ==
    LET later == {i \in DOMAIN q : t.left < q[i].left}
    IN  InsertAt(q, IF later = {} THEN Len(q) + 1 ELSE Min(later), t)

(* The first timer of a, if there is one.                                  *)
RemoveTimer(q, a) ==
    LET found == {i \in DOMAIN q : q[i].arg = a}
    IN  IF found = {} THEN q ELSE RemoveAt(q, Min(found))

(* handle_msg on the queue.  free_arg of a timer that is removed and the   *)
(* result of a removal change nothing here.                                *)
handle_msg(q, m) ==
    CASE m.action = "ADD" -> InsertTimer(q, [arg |-> m.arg, left |-> m.delay])
      [] m.action = "DEL" -> RemoveTimer(q, m.arg)
      [] OTHER -> << >>

(* The time select is given next.  Almost now is less than a tick.         *)
get_rest_time_OnlyFuture(q) ==
    IF q = << >> \/ q[1].left = 0 THEN Unset ELSE q[1].left

get_rest_time(q) == IF q = << >> THEN Unset ELSE q[1].left

(* The caller gets its answer, if it still waits.                          *)
Answer(m) == IF m.waited THEN [call EXCEPT ![m.arg] = "none"] ELSE call

(* handle_proc_req: the message is handled and answered, or, when          *)
(* destruction is asked for, the server ends.                              *)
handle_proc_req_StaleRest ==
    LET m == Head(requests)
    IN  /\ server = "select"
        /\ requests # << >>
        /\ requests' = Tail(requests)
        /\ timerq' = handle_msg(timerq, m)
        /\ call' = Answer(m)
        /\ server' = IF m.action = "DESTROY" THEN "gone" ELSE server
        /\ UNCHANGED << rest, timeout_list, timeout_thread_is_on, task, running >>

handle_proc_req ==
    LET m == Head(requests)
    IN  /\ server = "select"
        /\ requests # << >>
        /\ requests' = Tail(requests)
        /\ timerq' = handle_msg(timerq, m)
        /\ call' = Answer(m)
        /\ server' = IF m.action = "DESTROY" THEN "gone" ELSE server
        /\ rest' = get_rest_time(timerq')
        /\ UNCHANGED << timeout_list, timeout_thread_is_on, task, running >>

(* handle_proc_req when the message does not come within 3 seconds, its    *)
(* sender being slow: the connection is closed, which fails the call.      *)
recv_failed ==
    /\ server = "select"
    /\ requests # << >>
    /\ requests' = Tail(requests)
    /\ call' = Answer(Head(requests))
    /\ rest' = get_rest_time(timerq)
    /\ UNCHANGED << server, timerq, timeout_list, timeout_thread_is_on, task, running >>

(* timer_execute, up to the unlock in add_timeout_list.                    *)
timer_execute_KeepsTimer ==
    /\ server = "select"
    /\ rest = 0
    /\ requests = << >>
    /\ timeout_list' = Append(timeout_list, Head(timerq).arg)
    /\ server' = "notify"
    /\ UNCHANGED << rest, timerq, timeout_thread_is_on, task, running, requests, call >>

timer_execute ==
    /\ server = "select"
    /\ rest = 0
    /\ requests = << >>
    /\ timerq' = Tail(timerq)
    /\ timeout_list' = Append(timeout_list, Head(timerq).arg)
    /\ server' = "notify"
    /\ UNCHANGED << rest, timeout_thread_is_on, task, running, requests, call >>

(* The rest of it: start time_out_task or signal it, which is lost unless  *)
(* it waits.                                                               *)
timer_notify ==
    /\ server = "notify"
    /\ \/ /\ ~timeout_thread_is_on
          /\ task' = "count"
       \/ /\ timeout_thread_is_on
          /\ task' = IF task = "wait" THEN "count" ELSE task
    /\ timeout_thread_is_on' = TRUE
    /\ server' = "select"
    /\ rest' = get_rest_time(timerq)
    /\ UNCHANGED << timerq, timeout_list, running, requests, call >>

-----------------------------------------------------------------------------
(* time_out_task counts the list, with the mutex for just as long.         *)
get_pending_list_count ==
    /\ task = "count"
    /\ task' = IF timeout_list = << >> THEN "idle" ELSE "take"
    /\ UNCHANGED << server, rest, timerq, timeout_list, timeout_thread_is_on,
                    running, requests, call >>

(* It takes the oldest timer and calls its handler.                        *)
get_pending_list ==
    /\ task = "take"
    /\ running' = Head(timeout_list)
    /\ timeout_list' = Tail(timeout_list)
    /\ task' = "handler"
    /\ UNCHANGED << server, rest, timerq, timeout_thread_is_on, requests, call >>

(* A handler may call the library, with its argument, and waits for the    *)
(* answer.                                                                 *)
handler_return ==
    /\ task = "handler"
    /\ call[running] = "none"
    /\ running' = NoArg
    /\ task' = "count"
    /\ UNCHANGED << server, rest, timerq, timeout_list, timeout_thread_is_on,
                    requests, call >>

(* pthread_cond_timedwait.  tv_nsec is not initialised: the call may wait, *)
(* or be refused and return at once.                                       *)
cond_timedwait ==
    /\ task = "idle"
    /\ task' \in {"wait", "count"}
    /\ UNCHANGED << server, rest, timerq, timeout_list, timeout_thread_is_on,
                    running, requests, call >>

(* A wait ends by itself (as POSIX allows), or at its time limit, which no *)
(* signal reverses although the mutex has to be taken again.               *)
cond_wakeup ==
    /\ task = "wait"
    /\ task' \in {"count", "leave"}
    /\ UNCHANGED << server, rest, timerq, timeout_list, timeout_thread_is_on,
                    running, requests, call >>

(* ETIMEDOUT: the thread ends, whether or not there is something to do.    *)
task_exit_KeepsFlag ==
    /\ task = "leave"
    /\ task' = "none"
    /\ UNCHANGED << server, rest, timerq, timeout_list, timeout_thread_is_on,
                    running, requests, call >>

task_exit ==
    /\ task = "leave"
    /\ task' = "none"
    /\ timeout_thread_is_on' = FALSE
    /\ UNCHANGED << server, rest, timerq, timeout_list, running, requests, call >>

-----------------------------------------------------------------------------
OneTickLess(n) == IF n \in {Unset, 0} THEN n ELSE n - 1

(* Time passes for the timers and for select.                              *)
Tick ==
    /\ \E i \in DOMAIN timerq : timerq[i].left > 0
    /\ timerq' = [i \in DOMAIN timerq |->
                    [timerq[i] EXCEPT !.left = OneTickLess(timerq[i].left)]]
    /\ rest' = OneTickLess(rest)
    /\ UNCHANGED << server, timeout_list, timeout_thread_is_on, task, running,
                    requests, call >>

time_out_task ==
    /\ server # "gone"
    /\ \/ get_pending_list_count
       \/ get_pending_list
       \/ handler_return
       \/ cond_timedwait
       \/ cond_wakeup
       \/ task_exit

(* Nothing happens after timer_destroy, which the server's main thread     *)
(* calls on its way out.                                                   *)
Next ==
    \/ \E a \in Args :
          \/ timer_init(a)
          \/ \E d \in Delays : timer_add(a, d)
          \/ timer_rem(a)
          \/ timer_clear(a)
          \/ timer_destroy(a)
          \/ recv_timeout(a)
    \/ handle_proc_req
    \/ recv_failed
    \/ timer_execute
    \/ timer_notify
    \/ time_out_task
    \/ Tick

(* Time passes, threads that can go on do, a wait ends at its time limit,  *)
(* and a handler makes finitely many calls.  Nobody has to call the        *)
(* library.                                                                *)
Fairness ==
    /\ WF_vars(Tick)
    /\ WF_vars(handle_proc_req \/ recv_failed)
    /\ WF_vars(timer_execute)
    /\ WF_vars(timer_notify)
    /\ \A a \in Args : WF_vars(recv_timeout(a))
    /\ WF_vars(time_out_task)
    /\ SF_vars(server # "gone" /\ handler_return)

Spec == Init /\ [][Next]_vars /\ Fairness

-----------------------------------------------------------------------------
(* Type invariant.                                                         *)
TypeOK ==
    /\ server \in {"off", "failed", "select", "notify", "gone"}
    /\ rest \in Nat \cup {Unset}
    /\ timerq \in Seq(Timer)
    /\ timeout_list \in Seq(Args)
    /\ timeout_thread_is_on \in BOOLEAN
    /\ task \in {"none", "count", "idle", "wait", "leave", "take", "handler"}
    /\ running \in Args \cup {NoArg}
    /\ requests \in Seq(Request)
    /\ call \in [Args -> {"none", "init", "wait"}]

(* select sleeps until the earliest timer is due, neither longer nor       *)
(* shorter, whatever has been added, removed or has expired since it was   *)
(* told: otherwise timer_execute, which looks at no clock, would run a     *)
(* timer too early or let it lie.                                          *)
DeadlineIsEarliest ==
    server = "select" =>
       IF timerq = << >> THEN rest = Unset
       ELSE rest = Min({timerq[i].left : i \in DOMAIN timerq})

(* The library keeps the promise of TimerSpec: no handler runs before its  *)
(* time, twice, after its timer was removed or beside another, whoever     *)
(* gives up on an answer and whatever the two threads do in between.       *)
TimerLeft(a) ==
    IF Queued(a) THEN timerq[CHOOSE i \in DOMAIN timerq : timerq[i].arg = a].left
    ELSE IF Pending(a) THEN 0 ELSE Unset

Promise == INSTANCE TimerSpec WITH left <- [a \in Args |-> TimerLeft(a)]

KeepsPromise == Promise!Spec

(* A timer leaves the queue once the callers leave the server in peace (it *)
(* serves requests first).                                                 *)
ArmedExpires ==
    <>[](requests = << >>) => \A a \in Args : [](Queued(a) => <>~Queued(a))

(* The next timer starts the thread again.                                 *)
Restarts == task = "none" /\ ~timeout_thread_is_on

(* The wake-up of time_out_task can be lost between get_pending_list_count *)
(* and pthread_cond_timedwait, or at the time limit.  Then the thread ends *)
(* with an expired timer on its list, but never in a way that the next     *)
(* timer would find it gone and not start it again; and a thread that      *)
(* counts its list runs all that is on it.                                 *)
ExpiredIsRun ==
    \A a \in Args :
       /\ [](Pending(a) => <>(running = a \/ Restarts \/ server = "gone"))
       /\ [](Pending(a) /\ task = "count" => <>(running = a \/ server = "gone"))
=============================================================================
