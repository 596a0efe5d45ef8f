---------------------------- MODULE FindPwdProofs ----------------------------
(***************************************************************************)
(* Proofs about FindPwd, for any number of requests and accounts, any      *)
(* delays, whether or not token files can be opened, however late or never *)
(* timers are set, and across restarts.                                    *)
(***************************************************************************)
EXTENDS FindPwd, TLAPS

(* What bounds retry_count: a request whose next handler is SendMail has   *)
(* not used up its attempts.                                               *)
RetriesLeft ==
    ~undefined =>
      \A u \in Users : Held(u) /\ handler[u] = "SendMail" => retry_count[u] <= MAX_RETRY

(* AddToTimerList waits only while the library has its message.            *)
CallersWait ==
    ~undefined => \A u \in Users : caller[u] = "waits" => Requested(u)

(* What AddToTimerList deleted too early, or no timer will be set for, is  *)
(* in no other hands.                                                      *)
FreedAreThere ==
    ~undefined =>
      \A u \in Users : /\ u \in freed => account[u] # NoUser /\ caller[u] = "none"
                       /\ u \in forgotten => account[u] # NoUser

(* A request that AddToTimerList may delete with no harm has no file.      *)
MayDelete(u) == \/ caller[u] = "waits"
                \/ caller[u] = "failed" /\ ~Held(u) /\ u \notin forgotten

NoFileYet ==
    ~undefined => \A u \in Users, c \in Accounts : MayDelete(u) => token[c] # u

(* The inductive invariant.  That a handler meets a request that is still  *)
(* there keeps token and retry_count within their types.                   *)
IInv ==
    /\ TypeOK
    /\ HeldByOneTimer
    /\ RetriesLeft
    /\ CallersWait
    /\ FreedAreThere
    /\ NoFileYet
    /\ TokenFileIsOwned

-----------------------------------------------------------------------------
(* A new request, in a message.                                            *)
LEMMA FindPwdViaAccountStep ==
    ASSUME IInv, ~undefined, NEW u \in Users, NEW c \in Accounts, FindPwdViaAccount(u, c)
    PROVE  IInv'
<1> USE NoUserAssumption, DelayAssumption DEF IInv, FindPwdViaAccount, TimerAdd, timers, objects
<1>1. TypeOK'
  BY DEF TypeOK, MAX_RETRY
<1>2. HeldByOneTimer'
  BY DEF TypeOK, HeldByOneTimer, FreedAreThere, Held, IsSet, Requested, Runs, MAX_RETRY
<1>3. RetriesLeft'
  BY DEF TypeOK, RetriesLeft, Held, IsSet, Requested, Runs, MAX_RETRY
<1>4. CallersWait'
  BY DEF TypeOK, CallersWait, Requested
<1>5. FreedAreThere'
  BY DEF FreedAreThere
<1>6. NoFileYet'
  BY DEF NoFileYet, TokenFileIsOwned, MayDelete, Held, IsSet, Requested, Runs
<1>7. TokenFileIsOwned'
  BY DEF TokenFileIsOwned
<1>8. QED BY <1>1, <1>2, <1>3, <1>4, <1>5, <1>6, <1>7 DEF IInv

(* The request goes from the message to a timer.                           *)
LEMMA RequestHandledStep ==
    ASSUME IInv, ~undefined, NEW u \in Users, RequestHandled(u)
    PROVE  IInv'
<1> USE NoUserAssumption, DelayAssumption DEF IInv, RequestHandled, Timers!Arm, timers, objects
<1>1. TypeOK'
  BY DEF TypeOK
<1>2. HeldByOneTimer'
  BY DEF TypeOK, HeldByOneTimer, Held, IsSet, Requested, Runs
<1>3. RetriesLeft'
  BY DEF RetriesLeft, Held, IsSet, Requested, Runs
<1>4. CallersWait'
  BY DEF TypeOK, CallersWait, Requested
<1>5. FreedAreThere'
  BY DEF FreedAreThere
<1>6. NoFileYet'
  BY DEF TypeOK, NoFileYet, MayDelete, Held, IsSet, Requested, Runs
<1>7. TokenFileIsOwned'
  BY DEF TokenFileIsOwned
<1>8. QED BY <1>1, <1>2, <1>3, <1>4, <1>5, <1>6, <1>7 DEF IInv

(* The message is lost, and with it the next timer.                        *)
LEMMA RequestLostStep ==
    ASSUME IInv, ~undefined, NEW u \in Users, RequestLost(u)
    PROVE  IInv'
<1> USE NoUserAssumption, DelayAssumption DEF IInv, RequestLost, timers, objects
<1>1. TypeOK'
  BY DEF TypeOK
<1>2. HeldByOneTimer'
  BY DEF TypeOK, HeldByOneTimer, Held, IsSet, Requested, Runs
<1>3. RetriesLeft'
  BY DEF RetriesLeft, Held, IsSet, Requested, Runs
<1>4. CallersWait'
  BY DEF TypeOK, CallersWait, Requested
<1>5. FreedAreThere'
  BY DEF TypeOK, HeldByOneTimer, FreedAreThere, Held
<1>6. NoFileYet'
  BY DEF TypeOK, NoFileYet, MayDelete, Held, IsSet, Requested, Runs
<1>7. TokenFileIsOwned'
  BY DEF TokenFileIsOwned
<1>8. QED BY <1>1, <1>2, <1>3, <1>4, <1>5, <1>6, <1>7 DEF IInv

(* AddToTimerList waits no longer.                                         *)
LEMMA RequestTimeOutStep ==
    ASSUME IInv, ~undefined, NEW u \in Users, RequestTimeOut(u)
    PROVE  IInv'
<1> USE NoUserAssumption, DelayAssumption DEF IInv, RequestTimeOut, timers, objects
<1>1. TypeOK'
  BY DEF TypeOK
<1>2. HeldByOneTimer'
  BY DEF HeldByOneTimer, Held, IsSet, Requested, Runs
<1>3. RetriesLeft'
  BY DEF RetriesLeft, Held, IsSet, Requested, Runs
<1>4. CallersWait'
  BY DEF CallersWait, Requested
<1>5. FreedAreThere'
  BY DEF FreedAreThere
<1>6. NoFileYet'
  BY DEF NoFileYet, MayDelete, Held, IsSet, Requested, Runs
<1>7. TokenFileIsOwned'
  BY DEF TokenFileIsOwned
<1>8. QED BY <1>1, <1>2, <1>3, <1>4, <1>5, <1>6, <1>7 DEF IInv

(* AddToTimerList deletes the request.                                     *)
LEMMA DeleteUserStep ==
    ASSUME IInv, ~undefined, NEW u \in Users, DeleteUser(u)
    PROVE  IInv'
<1> USE NoUserAssumption, DelayAssumption DEF IInv, DeleteUser, timers, objects
<1>1. TypeOK'
  BY DEF TypeOK
<1>2. HeldByOneTimer'
  BY DEF TypeOK, HeldByOneTimer, Held, IsSet, Requested, Runs
<1>3. RetriesLeft'
  BY DEF RetriesLeft, Held, IsSet, Requested, Runs
<1>4. CallersWait'
  BY DEF CallersWait, Requested
<1>5. FreedAreThere'
  BY DEF TypeOK, FreedAreThere
<1>6. NoFileYet'
  BY DEF NoFileYet, MayDelete, Held, IsSet, Requested, Runs
<1>7. TokenFileIsOwned'
  BY DEF TypeOK, NoFileYet, TokenFileIsOwned, MayDelete
<1>8. QED BY <1>1, <1>2, <1>3, <1>4, <1>5, <1>6, <1>7 DEF IInv

(* The request goes from its timer to its handler.                         *)
LEMMA CallHandlerStep ==
    ASSUME IInv, ~undefined, NEW u \in Users, CallHandler(u)
    PROVE  IInv'
<1> USE NoUserAssumption, DelayAssumption DEF IInv, CallHandler, Timers!Run, timers, objects
<1>1. TypeOK'
  BY DEF TypeOK
<1>2. HeldByOneTimer'
  BY DEF TypeOK, HeldByOneTimer, Held, IsSet, Requested, Runs
<1>3. RetriesLeft'
  BY DEF RetriesLeft, Held, IsSet, Requested, Runs
<1>4. CallersWait'
  BY DEF CallersWait, Requested
<1>5. FreedAreThere'
  BY DEF FreedAreThere
<1>6. NoFileYet'
  BY DEF NoFileYet, MayDelete, Held, IsSet, Requested, Runs
<1>7. TokenFileIsOwned'
  BY DEF TokenFileIsOwned
<1>8. QED BY <1>1, <1>2, <1>3, <1>4, <1>5, <1>6, <1>7 DEF IInv

(* SendMail writes the file of a request it has.                           *)
LEMMA SendMailStep ==
    ASSUME IInv, ~undefined, NEW u \in Users, NEW opened, SendMail(u, opened)
    PROVE  IInv'
<1> USE NoUserAssumption, DelayAssumption DEF IInv, SendMail, WriteUserTokentoFile, timers, objects
<1>1. TypeOK'
  BY DEF TypeOK
<1>2. HeldByOneTimer'
  BY DEF HeldByOneTimer, Held, IsSet, Requested, Runs
<1>3. RetriesLeft'
  BY DEF RetriesLeft, Held, IsSet, Requested, Runs
<1>4. CallersWait'
  BY DEF CallersWait, Requested
<1>5. FreedAreThere'
  BY DEF FreedAreThere
<1>6. NoFileYet'
  BY DEF HeldByOneTimer, CallersWait, NoFileYet, MayDelete, Held, IsSet, Requested, Runs
<1>7. TokenFileIsOwned'
  BY DEF TokenFileIsOwned
<1>8. QED BY <1>1, <1>2, <1>3, <1>4, <1>5, <1>6, <1>7 DEF IInv

(* TimeOutHandle removes the file and the request together.                *)
LEMMA TimeOutHandleStep ==
    ASSUME IInv, ~undefined, NEW u \in Users, TimeOutHandle(u)
    PROVE  IInv'
<1> USE NoUserAssumption, DelayAssumption DEF IInv, TimeOutHandle, timers, objects
<1>1. TypeOK'
  BY DEF TypeOK
<1>2. HeldByOneTimer'
  BY DEF TypeOK, HeldByOneTimer, Held, IsSet, Requested, Runs
<1>3. RetriesLeft'
  BY DEF RetriesLeft, Held, IsSet, Requested, Runs
<1>4. CallersWait'
  BY DEF CallersWait, Requested
<1>5. FreedAreThere'
  BY DEF HeldByOneTimer, FreedAreThere, Held
<1>6. NoFileYet'
  BY DEF TypeOK, NoFileYet, TokenFileIsOwned, MayDelete, Held, IsSet, Requested, Runs
<1>7. TokenFileIsOwned'
  BY DEF TypeOK, TokenFileIsOwned
<1>8. QED BY <1>1, <1>2, <1>3, <1>4, <1>5, <1>6, <1>7 DEF IInv

(* The handler has returned.                                               *)
LEMMA HandlerReturnStep ==
    ASSUME IInv, ~undefined, HandlerReturn
    PROVE  IInv'
<1> USE NoUserAssumption, DelayAssumption DEF IInv, HandlerReturn, Timers!Return, timers, objects
<1>1. TypeOK'
  BY DEF TypeOK
<1>2. HeldByOneTimer'
  BY DEF HeldByOneTimer, Held, IsSet, Requested, Runs
<1>3. RetriesLeft'
  BY DEF RetriesLeft, Held, IsSet, Requested, Runs
<1>4. CallersWait'
  BY DEF CallersWait, Requested
<1>5. FreedAreThere'
  BY DEF FreedAreThere
<1>6. NoFileYet'
  BY DEF NoFileYet, MayDelete, Held, IsSet, Requested, Runs
<1>7. TokenFileIsOwned'
  BY DEF TokenFileIsOwned
<1>8. QED BY <1>1, <1>2, <1>3, <1>4, <1>5, <1>6, <1>7 DEF IInv

(* Once the mail has been tried the request goes into a message again.     *)
LEMMA MailEndedStep ==
    ASSUME IInv, ~undefined, NEW u \in Users, NEW sent, MailEnded(u, sent)
    PROVE  IInv'
<1>1. /\ Runs(u) /\ ~IsSet(u) /\ ~Requested(u) /\ u \notin forgotten
      /\ account[u] # NoUser /\ retry_count[u] \in 0 .. MAX_RETRY + 1
      /\ caller[u] # "waits"
  BY DEF MailEnded, IInv, TypeOK, HeldByOneTimer, CallersWait, Held
<1>2. PICK d \in Nat, h \in {"SendMail", "TimeOutHandle"} :
         /\ request' = [request EXCEPT ![u] = d]
         /\ handler' = [handler EXCEPT ![u] = h]
         /\ h = "SendMail" => retry_count'[u] <= MAX_RETRY
  BY DelayAssumption DEF MailEnded, AfterMail, TimerAdd
<1>3. /\ retry_count' \in [Users -> 0 .. MAX_RETRY + 1]
      /\ \A v \in Users : v # u => retry_count'[v] = retry_count[v]
  <2>1. CASE sent
    BY <2>1 DEF MailEnded, AfterMail, IInv, TypeOK
  <2>2. CASE ~sent
    <3>1. retry_count' = [retry_count EXCEPT ![u] = @ + 1]
      BY <2>2 DEF MailEnded, AfterMail
    <3>2. retry_count[u] <= MAX_RETRY
      BY <1>1 DEF MailEnded, IInv, RetriesLeft, Held
    <3>3. QED BY <1>1, <3>1, <3>2 DEF IInv, TypeOK, MAX_RETRY
  <2>3. QED BY <2>1, <2>2
<1>4. /\ left' = left /\ running' = running /\ running = u /\ body' = "over"
      /\ UNCHANGED << caller, account, freed, token, forgotten, undefined >>
  BY <1>1 DEF MailEnded, AfterMail, timers, Runs
<1>5. TypeOK'
  BY <1>2, <1>3, <1>4 DEF IInv, TypeOK
<1> USE <1>1, <1>2, <1>3, <1>4, <1>5, NoUserAssumption
    DEF IInv, TypeOK, Held, IsSet, Requested, Runs
<1>6. \A v \in Users : request'[v] # Unset <=> v = u \/ request[v] # Unset
  OBVIOUS
<1>7. HeldByOneTimer'
  BY <1>6 DEF HeldByOneTimer, MAX_RETRY
<1>8. RetriesLeft'
  BY <1>6 DEF RetriesLeft
<1>9. CallersWait' /\ FreedAreThere'
  BY <1>6 DEF CallersWait, FreedAreThere
<1>10. NoFileYet' /\ TokenFileIsOwned'
  BY <1>6 DEF NoFileYet, TokenFileIsOwned, MayDelete
<1>11. QED BY <1>5, <1>7, <1>8, <1>9, <1>10 DEF IInv

(* Nothing is promised once a deleted request has been used.               *)
LEMMA UseDeletedStep ==
    ASSUME IInv, NEW u \in Users, UseDeleted(u)
    PROVE  IInv'
<1>1. /\ undefined' = TRUE /\ token' \in [Accounts -> Users \cup {NoUser, OldToken}]
      /\ UNCHANGED << left, running, handler, body, request, caller, account, freed,
                      retry_count, forgotten >>
  BY DEF UseDeleted, timers, objects
<1>2. TypeOK'
  BY <1>1 DEF IInv, TypeOK
<1>3. QED
  BY <1>1, <1>2 DEF IInv, HeldByOneTimer, RetriesLeft, CallersWait, FreedAreThere,
                    NoFileYet, TokenFileIsOwned

(* Time sets no timer and removes none.                                    *)
LEMMA TickStep == ASSUME IInv, ~undefined, Tick PROVE IInv'
<1>1. /\ left' \in [Users -> Nat \cup {Unset}]
      /\ \A u \in Users : left'[u] # Unset <=> left[u] # Unset
  BY NoUserAssumption DEF Tick, Timers!Tick, IInv, TypeOK
<1>2. UNCHANGED << running, handler, body, request, caller, account, freed, retry_count,
                   token, forgotten, undefined >>
  BY DEF Tick, Timers!Tick, objects
<1>3. \A u \in Users : Held(u)' <=> Held(u)
  BY <1>1, <1>2 DEF Held, IsSet, Requested, Runs
<1>4. TypeOK'
  BY <1>1, <1>2 DEF IInv, TypeOK
<1>5. HeldByOneTimer' /\ RetriesLeft'
  BY <1>1, <1>2, <1>3 DEF IInv, HeldByOneTimer, RetriesLeft, IsSet, Requested, Runs
<1>6. CallersWait' /\ FreedAreThere' /\ NoFileYet' /\ TokenFileIsOwned'
  BY <1>2, <1>3 DEF IInv, CallersWait, FreedAreThere, NoFileYet, TokenFileIsOwned,
                    MayDelete, Requested
<1>7. QED BY <1>4, <1>5, <1>6 DEF IInv

(* Nothing has been requested in a process that has just been started.     *)
Started ==
    /\ left = [u \in Users |-> Unset]
    /\ running = NoUser
    /\ handler = [u \in Users |-> "SendMail"]
    /\ body = "over"
    /\ request = [u \in Users |-> Unset]
    /\ caller = [u \in Users |-> "none"]
    /\ account = [u \in Users |-> NoUser]
    /\ freed = {}
    /\ retry_count = [u \in Users |-> 0]
    /\ token \in [Accounts -> {NoUser, OldToken}]
    /\ forgotten = {}
    /\ undefined = FALSE

LEMMA StartedIInv == Started => IInv
<1> SUFFICES ASSUME Started PROVE IInv
  OBVIOUS
<1> USE DEF Started
<1>1. TypeOK
  <2>1. /\ handler \in [Users -> {"SendMail", "TimeOutHandle"}]
        /\ body \in {"start", "mail", "over"}
        /\ caller \in [Users -> {"none", "waits", "failed"}]
        /\ undefined \in BOOLEAN
    OBVIOUS
  <2>2. retry_count \in [Users -> 0 .. MAX_RETRY + 1]
    BY DEF MAX_RETRY
  <2>3. /\ left \in [Users -> Nat \cup {Unset}]
        /\ request \in [Users -> Nat \cup {Unset}]
        /\ running \in Users \cup {NoUser}
        /\ account \in [Users -> Accounts \cup {NoUser}]
        /\ token \in [Accounts -> Users \cup {NoUser, OldToken}]
        /\ forgotten \in SUBSET Users /\ freed \in SUBSET Users
    OBVIOUS
  <2>4. QED BY <2>1, <2>2, <2>3 DEF TypeOK
<1>2. \A u \in Users : ~Held(u) /\ ~Requested(u) /\ ~IsSet(u) /\ ~Runs(u)
  BY DEF Held, IsSet, Requested, Runs
<1>3. HeldByOneTimer /\ RetriesLeft
  BY <1>2 DEF HeldByOneTimer, RetriesLeft, MAX_RETRY
<1>4. CallersWait /\ FreedAreThere
  BY DEF CallersWait, FreedAreThere
<1>5. NoFileYet /\ TokenFileIsOwned
  BY NoUserAssumption DEF NoFileYet, TokenFileIsOwned, MayDelete
<1>6. QED BY <1>1, <1>3, <1>4, <1>5 DEF IInv

(* Nothing is requested at first; a restart leaves nothing but old files.  *)
LEMMA InitIInv == Init => IInv
BY StartedIInv DEF Init, Timers!Init, Started

LEMMA RestartStep == ASSUME IInv, Restart PROVE IInv'
<1>1. token' \in [Accounts -> {NoUser, OldToken}]
  BY DEF Restart
<1>2. Started'
  BY <1>1 DEF Restart, Started
<1>3. QED BY <1>2, StartedIInv, PTL

(* Every step keeps the invariant.                                         *)
LEMMA NextIInv == IInv /\ [Next]_vars => IInv'
<1> SUFFICES ASSUME IInv, [Next]_vars PROVE IInv'
  OBVIOUS
<1>1. CASE UNCHANGED vars
  BY <1>1 DEF vars, timers, objects, IInv, TypeOK, HeldByOneTimer, RetriesLeft, CallersWait,
              FreedAreThere, NoFileYet, MayDelete, TokenFileIsOwned, Held, IsSet, Requested,
              Runs
<1>2. CASE Next
  BY <1>2, FindPwdViaAccountStep, RequestHandledStep, RequestLostStep, RequestTimeOutStep,
     DeleteUserStep, CallHandlerStep, SendMailStep, MailEndedStep, TimeOutHandleStep,
     UseDeletedStep, HandlerReturnStep, TickStep, RestartStep DEF Next
<1>3. QED BY <1>1, <1>2

(* The inductive invariant holds whatever requests come in, whichever      *)
(* mails fail, however late timers are set and whenever the server is      *)
(* started again.                                                          *)
THEOREM Invariance == Spec => []IInv
BY InitIInv, NextIInv, PTL DEF Spec

(* Type correctness: the attempts of a request are bounded and what the    *)
(* file of an account holds is a request's token or nothing.               *)
THEOREM TypeCorrect == Spec => []TypeOK
<1>1. IInv => TypeOK
  BY DEF IInv
<1>2. QED BY <1>1, Invariance, PTL

(* SendMail and TimeOutHandle pass a request on without losing or doubling *)
(* it: a handler that meets a deleted request meets one that AddToTimerList*)
(* deleted because the answer to its timer_add did not come.               *)
THEOREM HeldCorrect == Spec => []HeldByOneTimer
<1>1. IInv => HeldByOneTimer
  BY DEF IInv
<1>2. QED BY <1>1, Invariance, PTL

(* However the requests for an account overtake each other and however late*)
(* their timers are set, a token file is that of a request that is under   *)
(* way, or for which no timer could be set, or is older than the process.  *)
THEOREM FileCorrect == Spec => []TokenFileIsOwned
<1>1. IInv => TokenFileIsOwned
  BY DEF IInv
<1>2. QED BY <1>1, Invariance, PTL
=============================================================================
