------------------------------- MODULE FindPwd -------------------------------
(***************************************************************************)
(* Recovery of a forgotten password (findpwd.cpp): a request writes a token*)
(* into the file of the account, mails it to the user, tries again when the*)
(* mail cannot be sent, and removes the file when the user's five minutes  *)
(* are over.  Every step but the first is a handler the timer library      *)
(* calls, one at a time, as TimerSpec promises.                            *)
(*                                                                         *)
(* timer_add sends a message to the library and waits three seconds for    *)
(* the answer.  A caller that is told of a failure does not know whether   *)
(* the library will still find the message and set the timer: a handler    *)
(* does not mind, AddToTimerList deletes the request.                      *)
(*                                                                         *)
(* A request is known by its FpwUserInfo, which is also its token.  Using  *)
(* a deleted one is undefined: the files may hold anything from then on,   *)
(* and the process is followed no further than to its restart.             *)
(*                                                                         *)
(* Operators named X_Fault, before X, are faulty variants of X used to show*)
(* that a property depends on it; no specification uses them.              *)
(***************************************************************************)
EXTENDS Naturals

CONSTANTS
    Users,       \* FpwUserInfo objects
    Accounts,
    SOON,        \* ticks of the 10 and 500 microseconds
    RETRY,       \* ticks of a minute
    OUT_TIME,    \* ticks of five minutes
    Opens,       \* outcomes of fopen on the token file
    Unset,
    NoUser,
    OldToken     \* a token written before the server was started

ASSUME DelayAssumption == SOON \in Nat /\ RETRY \in Nat /\ OUT_TIME \in Nat
ASSUME OpensAssumption == Opens \subseteq BOOLEAN
ASSUME NoUserAssumption == /\ NoUser \notin Users \cup Accounts /\ Unset \notin Nat
                           /\ OldToken \notin Users \cup {NoUser}

MAX_RETRY == 5

VARIABLES
    left,        \* timers: see TimerSpec
    running,     \* the request whose handler runs
    handler,     \* the handler each timer is set for
    body,        \* how far that handler is
    request,     \* the delay in a message the library has yet to handle
    caller,      \* AddToTimerList, which waits for the answer or has none
    account,     \* in the memory of a request, NoUser of one that is not there
    freed,       \* requests AddToTimerList has deleted while the library has them
    retry_count,
    token,       \* the request whose token is in the file of an account
    forgotten,   \* requests whose next timer will not be set
    undefined    \* a deleted request has been used

timers == << left, running >>
objects == << account, freed, retry_count >>
vars == << timers, handler, body, request, caller, objects, token, forgotten, undefined >>

Timers == INSTANCE TimerSpec WITH Args <- Users, Delays <- {SOON, RETRY, OUT_TIME},
                                  NoArg <- NoUser

Init ==
    /\ Timers!Init
    /\ handler = [u \in Users |-> "SendMail"]
    /\ body = "over"
    /\ request = [u \in Users |-> Unset]
    /\ caller = [u \in Users |-> "none"]
    /\ account = [u \in Users |-> NoUser]
    /\ freed = {}
    /\ retry_count = [u \in Users |-> 0]
    /\ token = [c \in Accounts |-> NoUser]
    /\ forgotten = {}
    /\ undefined = FALSE

(* Where the library has a request: its timer is set, it is in a message,  *)
(* or its handler runs.                                                    *)
IsSet(u) == left[u] # Unset
Requested(u) == request[u] # Unset
Runs(u) == running = u /\ body # "over"
Held(u) == IsSet(u) \/ Requested(u) \/ Runs(u)

-----------------------------------------------------------------------------
(* timer_add, up to the wait for the answer.                               *)
TimerAdd(u, d, h) ==
    /\ request' = [request EXCEPT ![u] = d]
    /\ handler' = [handler EXCEPT ![u] = h]

(* AddToTimerList, up to that wait.                                        *)
FindPwdViaAccount(u, c) ==
    /\ account[u] = NoUser /\ caller[u] = "none" /\ running # u
    /\ account' = [account EXCEPT ![u] = c]
    /\ retry_count' = [retry_count EXCEPT ![u] = 0]
    /\ TimerAdd(u, SOON, "SendMail")
    /\ caller' = [caller EXCEPT ![u] = "waits"]
    /\ UNCHANGED << timers, body, freed, token, forgotten, undefined >>

(* The library sets the timer, and AddToTimerList returns if it waits.  A  *)
(* handler that waits looks at no answer.                                  *)
RequestHandled(u) ==
    /\ Requested(u)
    /\ Timers!Arm(u, request[u])
    /\ request' = [request EXCEPT ![u] = Unset]
    /\ caller' = [caller EXCEPT ![u] = IF @ = "waits" THEN "none" ELSE @]
    /\ UNCHANGED << handler, body, objects, token, forgotten, undefined >>

(* The message is lost: the library has no memory for the timer, or does   *)
(* not get the message.  Who still waits is told; a handler does not look. *)
RequestLost(u) ==
    /\ Requested(u)
    /\ request' = [request EXCEPT ![u] = Unset]
    /\ IF caller[u] = "waits"
         THEN caller' = [caller EXCEPT ![u] = "failed"] /\ UNCHANGED forgotten
         ELSE forgotten' = forgotten \cup {u} /\ UNCHANGED caller
    /\ UNCHANGED << timers, handler, body, objects, token, undefined >>

(* The three seconds are over; the message stays with the library.         *)
RequestTimeOut(u) ==
    /\ caller[u] = "waits"
    /\ caller' = [caller EXCEPT ![u] = "failed"]
    /\ UNCHANGED << timers, handler, body, request, objects, token, forgotten, undefined >>

(* AddToTimerList deletes the request, after any time: the library may have*)
(* called a handler by then.                                               *)
DeleteUser(u) ==
    /\ caller[u] = "failed"
    /\ account[u] # NoUser
    /\ caller' = [caller EXCEPT ![u] = "none"]
    /\ IF Held(u) \/ u \in forgotten
         THEN freed' = freed \cup {u} /\ UNCHANGED account
         ELSE account' = [account EXCEPT ![u] = NoUser] /\ UNCHANGED freed
    /\ UNCHANGED << timers, handler, body, request, retry_count, token, forgotten,
                    undefined >>

-----------------------------------------------------------------------------
(* The library calls the handler of an expired timer, and gets it back.    *)
CallHandler(u) ==
    /\ Timers!Run(u)
    /\ body' = "start"
    /\ UNCHANGED << handler, request, caller, objects, token, forgotten, undefined >>

HandlerReturn ==
    /\ body = "over"
    /\ Timers!Return
    /\ UNCHANGED << handler, body, request, caller, objects, token, forgotten, undefined >>

(* The file is written when it can be opened; what counts is the mail.     *)
WriteUserTokentoFile(u, opened) ==
    token' = IF opened THEN [token EXCEPT ![account[u]] = u] ELSE token

(* SendMail writes the file, and starts the program that mails the token.  *)
SendMail(u, opened) ==
    /\ Runs(u) /\ body = "start" /\ handler[u] = "SendMail"
    /\ u \notin freed
    /\ WriteUserTokentoFile(u, opened)
    /\ body' = "mail"
    /\ UNCHANGED << timers, handler, request, caller, objects, forgotten, undefined >>

(* After the mail: wait for the user, try again, or give up.  If it was    *)
(* sent, nothing of the request is looked at.                              *)
AfterMail_DeletesToo(u, sent) ==
    IF sent
      THEN /\ TimerAdd(u, OUT_TIME, "TimeOutHandle")
           /\ UNCHANGED << account, retry_count >>
      ELSE /\ u \notin freed
           /\ retry_count' = [retry_count EXCEPT ![u] = @ + 1]
           /\ IF retry_count'[u] <= MAX_RETRY
                THEN TimerAdd(u, RETRY, "SendMail") /\ UNCHANGED account
                ELSE /\ TimerAdd(u, SOON, "TimeOutHandle")
                     /\ account' = [account EXCEPT ![u] = NoUser]

AfterMail(u, sent) ==
    IF sent
      THEN /\ TimerAdd(u, OUT_TIME, "TimeOutHandle")
           /\ UNCHANGED << account, retry_count >>
      ELSE /\ u \notin freed
           /\ retry_count' = [retry_count EXCEPT ![u] = @ + 1]
           /\ IF retry_count'[u] <= MAX_RETRY
                THEN TimerAdd(u, RETRY, "SendMail")
                ELSE TimerAdd(u, SOON, "TimeOutHandle")
           /\ UNCHANGED account

MailEnded(u, sent) ==
    /\ Runs(u) /\ body = "mail" /\ handler[u] = "SendMail"
    /\ AfterMail(u, sent)
    /\ body' = "over"
    /\ UNCHANGED << timers, caller, freed, token, forgotten, undefined >>

(* unlink and delete.                                                      *)
TimeOutHandle_KeepsFile(u) ==
    /\ Runs(u) /\ handler[u] = "TimeOutHandle"
    /\ u \notin freed
    /\ account' = [account EXCEPT ![u] = NoUser]
    /\ body' = "over"
    /\ UNCHANGED << timers, handler, request, caller, freed, retry_count, token, forgotten,
                    undefined >>

TimeOutHandle(u) ==
    /\ Runs(u) /\ handler[u] = "TimeOutHandle"
    /\ u \notin freed
    /\ token' = [token EXCEPT ![account[u]] = NoUser]
    /\ account' = [account EXCEPT ![u] = NoUser]
    /\ body' = "over"
    /\ UNCHANGED << timers, handler, request, caller, freed, retry_count, forgotten,
                    undefined >>

(* A handler uses a request that AddToTimerList has deleted, or            *)
(* AddToTimerList deletes one that TimeOutHandle has deleted.              *)
UseDeleted(u) ==
    /\ \/ Runs(u) /\ u \in freed
       \/ caller[u] = "failed" /\ account[u] = NoUser
    /\ undefined' = TRUE
    /\ token' \in [Accounts -> Users \cup {NoUser}]
    /\ UNCHANGED << timers, handler, body, request, caller, objects, forgotten >>

Tick ==
    /\ \E u \in Users : left[u] \notin {Unset, 0}
    /\ Timers!Tick
    /\ UNCHANGED << handler, body, request, caller, objects, token, forgotten, undefined >>

(* The server ends or crashes, and is started again: the files stay.       *)
Restart ==
    /\ left' = [u \in Users |-> Unset]
    /\ running' = NoUser
    /\ handler' = [u \in Users |-> "SendMail"]
    /\ body' = "over"
    /\ request' = [u \in Users |-> Unset]
    /\ caller' = [u \in Users |-> "none"]
    /\ account' = [u \in Users |-> NoUser]
    /\ freed' = {}
    /\ retry_count' = [u \in Users |-> 0]
    /\ token' = [c \in Accounts |-> IF token[c] = NoUser THEN NoUser ELSE OldToken]
    /\ forgotten' = {}
    /\ undefined' = FALSE

Next ==
    \/ \E u \in Users, c \in Accounts : ~undefined /\ FindPwdViaAccount(u, c)
    \/ \E u \in Users : ~undefined /\ RequestHandled(u)
    \/ \E u \in Users : ~undefined /\ RequestLost(u)
    \/ \E u \in Users : ~undefined /\ RequestTimeOut(u)
    \/ \E u \in Users : ~undefined /\ DeleteUser(u)
    \/ \E u \in Users : ~undefined /\ CallHandler(u)
    \/ \E u \in Users, opened \in Opens : ~undefined /\ SendMail(u, opened)
    \/ \E u \in Users, sent \in BOOLEAN : ~undefined /\ MailEnded(u, sent)
    \/ \E u \in Users : ~undefined /\ TimeOutHandle(u)
    \/ \E u \in Users : ~undefined /\ UseDeleted(u)
    \/ ~undefined /\ HandlerReturn
    \/ ~undefined /\ Tick
    \/ Restart

Spec == Init /\ [][Next]_vars

-----------------------------------------------------------------------------
(* Type invariant.  A request makes at most MAX_RETRY + 1 attempts.        *)
TypeOK ==
    /\ left \in [Users -> Nat \cup {Unset}]
    /\ running \in Users \cup {NoUser}
    /\ handler \in [Users -> {"SendMail", "TimeOutHandle"}]
    /\ body \in {"start", "mail", "over"}
    /\ request \in [Users -> Nat \cup {Unset}]
    /\ caller \in [Users -> {"none", "waits", "failed"}]
    /\ account \in [Users -> Accounts \cup {NoUser}]
    /\ freed \in SUBSET Users
    /\ retry_count \in [Users -> 0 .. MAX_RETRY + 1]
    /\ token \in [Accounts -> Users \cup {NoUser, OldToken}]
    /\ forgotten \in SUBSET Users
    /\ undefined \in BOOLEAN

(* The library has a request in one place at a time (its timer, a message, *)
(* its handler), and no request that a handler has deleted: a handler that *)
(* meets a deleted request meets one AddToTimerList gave up for lack of an *)
(* answer.  A request that is not deleted is with the library, or is about *)
(* to be deleted by AddToTimerList, or its next timer will not be set; and *)
(* a mail is tried a bounded number of times.                              *)
HeldByOneTimer ==
    ~undefined =>
      \A u \in Users :
        /\ Held(u) => account[u] # NoUser
        /\ ~(IsSet(u) /\ Requested(u)) /\ ~(IsSet(u) /\ Runs(u)) /\ ~(Requested(u) /\ Runs(u))
        /\ account[u] # NoUser => Held(u) \/ u \in forgotten \/ caller[u] = "failed"
        /\ u \in forgotten => ~Held(u)
        /\ retry_count[u] <= MAX_RETRY + 1

(* A token file this process has written is that of a request that can     *)
(* still remove it, or whose next timer will not be set: however requests  *)
(* of one account overtake each other, however late timers are set and     *)
(* however often the server was started, no other file is left.            *)
TokenFileIsOwned ==
    ~undefined => \A c \in Accounts : token[c] \in Users => account[token[c]] = c

(* The mail with the token of u is sent and its five minutes are not over. *)
Mailed(u) ==
    /\ left[u] \notin {Unset, 0}
    /\ handler[u] = "TimeOutHandle"
    /\ retry_count[u] <= MAX_RETRY

(* A token that is in the file when it has been mailed is not removed      *)
(* within the five minutes the mail names.                                 *)
TokenLivesItsTime ==
    [][\A u \in Users, c \in Accounts :
          token[c] = u /\ Mailed(u) /\ ~undefined' => token'[c] # NoUser]_vars
=============================================================================
