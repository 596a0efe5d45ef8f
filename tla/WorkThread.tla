----------------------------- MODULE WorkThread -----------------------------
(***************************************************************************)
(* Connections and session objects: the main thread accepts connections and*)
(* hands each over a pipe to a work thread (mainthread.cpp, thread.cpp);   *)
(* the work thread takes a UserSession from the shared pool, keeps it in   *)
(* its fdSessionMap while the connection lives, and recycles it; a signal  *)
(* makes the main thread stop the work threads one by one and free all.    *)
(*                                                                         *)
(* server.cpp starts one work thread; the code is written for any number.  *)
(* A step is what a thread does between two points where another one can   *)
(* interfere: the pool is touched under init_lock, the pipe is FIFO, and a *)
(* file descriptor is free for the kernel to reuse once it is closed.      *)
(*                                                                         *)
(* Operators named X_Fault, before X, are faulty variants of X used to show*)
(* that a property depends on it; no specification uses them.              *)
(***************************************************************************)
EXTENDS Integers, Sequences, FiniteSets, SequencesExt

CONSTANTS
    NumThreads,  \* size of threadList
    Fds,         \* descriptors accept may return
    Sessions,    \* addresses of UserSession objects
    None,        \* clifd == -1, no session, no entry in the map
    Step,        \* connectionMaxStep (10 in the code)
    PipeCap      \* messages a notify pipe holds before write blocks

ASSUME ThreadAssumption == NumThreads \in Nat \ {0} /\ PipeCap \in Nat \ {0}
ASSUME StepAssumption == Step \in Nat \ {0}
Threads == 0 .. (NumThreads - 1)
QUIT == "QUIT"  \* COMMAND_NOTIFY_QUIT_LOOP

ASSUME NoneAssumption == None \notin Fds \cup Sessions /\ QUIT \notin Fds
ASSUME SessionsAssumption == IsFiniteSet(Sessions)

VARIABLES
    phase,       \* of the main thread: "serving", "notify", "join" or "done"
    cursor,      \* the thread DestructMainThreadObj is at
    lastSelectIndex,
    wstate,      \* how far Run of a work thread is
    pipe,        \* messages in each thread's notify pipe
    fdSessionMap,
    hand,        \* a session between DestructResource and sessionList.push_front
    iter,        \* entry of the map DestrotiedSessions is at
    sessionList, \* the pool
    live,        \* sessions allocated and not deleted
    clifd,       \* UserSession::clifd
    open,        \* open descriptors of accepted connections
    lost         \* descriptors whose notification could not be written

vars == << phase, cursor, lastSelectIndex, wstate, pipe, fdSessionMap, hand,
           iter, sessionList, live, clifd, open, lost >>

Init ==
    /\ phase = "serving"
    /\ cursor = 0
    /\ lastSelectIndex = 0
    /\ wstate = [w \in Threads |-> "starting"]
    /\ pipe = [w \in Threads |-> << >>]
    /\ fdSessionMap = [w \in Threads |-> [fd \in Fds |-> None]]
    /\ hand = [w \in Threads |-> None]
    /\ iter = [w \in Threads |-> None]
    /\ sessionList = << >>
    /\ live = {}
    /\ clifd = [s \in Sessions |-> None]
    /\ open = {}
    /\ lost = {}

-----------------------------------------------------------------------------
(* SetupThread: event base and pipe.  Thread::start has already returned.  *)
SetupThread(w) ==
    /\ wstate[w] = "starting"
    /\ wstate' = [wstate EXCEPT ![w] = "connecting"]
    /\ UNCHANGED << phase, cursor, lastSelectIndex, pipe, fdSessionMap, hand,
                    iter, sessionList, live, clifd, open, lost >>

(* IniSQLConnection: without a database Run returns and nobody reads the   *)
(* pipe any more.                                                          *)
IniSQLConnection(w, ok) ==
    /\ wstate[w] = "connecting"
    /\ wstate' = [wstate EXCEPT ![w] = IF ok THEN "running" ELSE "dead"]
    /\ UNCHANGED << phase, cursor, lastSelectIndex, pipe, fdSessionMap, hand,
                    iter, sessionList, live, clifd, open, lost >>

(* GetOneThread: threads take turns.                                       *)
GetOneThread == (lastSelectIndex + 1) % NumThreads

(* AcceptHandler, GetOneThread and NotifyThread: the next thread in turn is*)
(* told.  The write fails (and is only logged) before the pipe exists, and *)
(* blocks while the pipe is full.                                          *)
AcceptHandler(fd) ==
    LET w == lastSelectIndex
    IN  /\ phase = "serving"
        /\ fd \notin open
        /\ open' = open \cup {fd}
        /\ lastSelectIndex' = GetOneThread
        /\ IF wstate[w] = "starting"
             THEN lost' = lost \cup {fd} /\ UNCHANGED pipe
             ELSE /\ Len(pipe[w]) < PipeCap
                  /\ pipe' = [pipe EXCEPT ![w] = Append(@, fd)]
                  /\ UNCHANGED lost
        /\ UNCHANGED << phase, cursor, wstate, fdSessionMap, hand, iter,
                        sessionList, live, clifd >>

(* GetOneSessionFromPool: Step new sessions are made when the pool is      *)
(* empty; the front one is taken.                                          *)
GetOneSessionFromPool_NoPop(s) ==
    IF sessionList # << >>
      THEN /\ s = Head(sessionList)
           /\ UNCHANGED << sessionList, live >>
      ELSE \E new \in kSubset(Step, Sessions \ live) :
              /\ s \in new
              /\ live' = live \cup new
              /\ sessionList' = SetToSeq(new \ {s})

GetOneSessionFromPool_NoCreate(s) ==
    /\ sessionList # << >>
    /\ s = Head(sessionList)
    /\ sessionList' = Tail(sessionList)
    /\ UNCHANGED live

GetOneSessionFromPool(s) ==
    IF sessionList # << >>
      THEN /\ s = Head(sessionList)
           /\ sessionList' = Tail(sessionList)
           /\ UNCHANGED live
      ELSE \E new \in kSubset(Step, Sessions \ live) :
              /\ s \in new
              /\ live' = live \cup new
              /\ sessionList' = SetToSeq(new \ {s})

(* NotifyReceivedProcess, COMMAND_NOTIFY_ADD_EVENT.                        *)
NotifyReceivedProcess(w) ==
    LET fd == Head(pipe[w])
    IN  /\ wstate[w] = "running"
        /\ hand[w] = None
        /\ pipe[w] # << >> /\ fd # QUIT
        /\ pipe' = [pipe EXCEPT ![w] = Tail(@)]
        /\ \E s \in Sessions :
              /\ GetOneSessionFromPool(s)
              /\ clifd' = [clifd EXCEPT ![s] = fd]
              /\ fdSessionMap' = [fdSessionMap EXCEPT ![w][fd] = IF @ = None THEN s ELSE @]
        /\ UNCHANGED << phase, cursor, lastSelectIndex, wstate, hand, iter, open,
                        lost >>

(* DestructResource: the descriptor is closed; the caller holds the session*)
(* until RecycleSession takes the lock.                                    *)
DestructResource_KeepsClifd(w, s) ==
    /\ hand' = [hand EXCEPT ![w] = s]
    /\ open' = open \ {clifd[s]}
    /\ UNCHANGED clifd

DestructResource(w, s) ==
    /\ hand' = [hand EXCEPT ![w] = s]
    /\ open' = open \ {clifd[s]}
    /\ clifd' = [clifd EXCEPT ![s] = None]

(* ClosingClientCon: end of file, error, timer or a failed handler.        *)
ClosingClientCon(w, fd) ==
    LET s == fdSessionMap[w][fd]
    IN  /\ wstate[w] = "running"
        /\ hand[w] = None
        /\ s # None
        /\ fdSessionMap' = [fdSessionMap EXCEPT ![w][fd] = None]
        /\ DestructResource(w, s)
        /\ UNCHANGED << phase, cursor, lastSelectIndex, wstate, pipe, iter,
                        sessionList, live, lost >>

(* The locked part of RecycleSession, with DestrorySessionsFromPool(Step): *)
(* a pool of 2*Step sessions loses Step of them from the back.             *)
Trimmed_Late(list) ==
    IF Len(list) > 2 * Step THEN SubSeq(list, 1, Len(list) - Step) ELSE list

Trimmed(list) ==
    IF Len(list) >= 2 * Step THEN SubSeq(list, 1, Len(list) - Step) ELSE list

RecycleSession(w) ==
    LET list == << hand[w] >> \o sessionList
    IN  /\ hand[w] # None
        /\ sessionList' = Trimmed(list)
        /\ live' = live \ (ToSet(list) \ ToSet(sessionList'))
        /\ hand' = [hand EXCEPT ![w] = None]
        /\ UNCHANGED << phase, cursor, lastSelectIndex, wstate, pipe, fdSessionMap,
                        iter, clifd, open, lost >>

(* NotifyReceivedProcess, COMMAND_NOTIFY_QUIT_LOOP: the event loop ends.   *)
NotifyQuit_NoDrain(w) ==
    /\ wstate[w] = "running"
    /\ hand[w] = None
    /\ pipe[w] # << >> /\ Head(pipe[w]) = QUIT
    /\ pipe' = [pipe EXCEPT ![w] = Tail(@)]
    /\ wstate' = [wstate EXCEPT ![w] = "stopped"]
    /\ UNCHANGED << phase, cursor, lastSelectIndex, fdSessionMap, hand, iter,
                    sessionList, live, clifd, open, lost >>

NotifyQuit_Ignored(w) ==
    /\ wstate[w] = "running"
    /\ hand[w] = None
    /\ pipe[w] # << >> /\ Head(pipe[w]) = QUIT
    /\ pipe' = [pipe EXCEPT ![w] = Tail(@)]
    /\ UNCHANGED << phase, cursor, lastSelectIndex, wstate, fdSessionMap, hand, iter,
                    sessionList, live, clifd, open, lost >>

NotifyQuit(w) ==
    /\ wstate[w] = "running"
    /\ hand[w] = None
    /\ pipe[w] # << >> /\ Head(pipe[w]) = QUIT
    /\ pipe' = [pipe EXCEPT ![w] = Tail(@)]
    /\ wstate' = [wstate EXCEPT ![w] = "draining"]
    /\ UNCHANGED << phase, cursor, lastSelectIndex, fdSessionMap, hand, iter,
                    sessionList, live, clifd, open, lost >>

(* DestrotiedSessions: session by session, recycled before it is erased    *)
(* from the map; then Run ends.                                            *)
DestrotiedSessions(w) ==
    /\ wstate[w] = "draining"
    /\ hand[w] = None
    /\ \/ \E fd \in Fds :
             /\ iter[w] = None
             /\ fdSessionMap[w][fd] # None
             /\ iter' = [iter EXCEPT ![w] = fd]
             /\ DestructResource(w, fdSessionMap[w][fd])
             /\ UNCHANGED << wstate, fdSessionMap >>
       \/ /\ iter[w] # None
          /\ fdSessionMap' = [fdSessionMap EXCEPT ![w][iter[w]] = None]
          /\ iter' = [iter EXCEPT ![w] = None]
          /\ UNCHANGED << wstate, hand, clifd, open >>
       \/ /\ \A fd \in Fds : fdSessionMap[w][fd] = None
          /\ wstate' = [wstate EXCEPT ![w] = "stopped"]
          /\ UNCHANGED << fdSessionMap, hand, iter, clifd, open >>
    /\ UNCHANGED << phase, cursor, lastSelectIndex, pipe, sessionList, live, lost >>

-----------------------------------------------------------------------------
(* A signal ends the main loop; DestructMainThreadObj begins.              *)
SignalHandle ==
    /\ phase = "serving"
    /\ phase' = "notify"
    /\ UNCHANGED << cursor, lastSelectIndex, wstate, pipe, fdSessionMap, hand,
                    iter, sessionList, live, clifd, open, lost >>

(* NotifyThread(COMMAND_NOTIFY_QUIT_LOOP), lost if there is no pipe yet.   *)
NotifyThreadQuit ==
    /\ phase = "notify"
    /\ phase' = "join"
    /\ IF wstate[cursor] = "starting"
         THEN UNCHANGED pipe
         ELSE /\ Len(pipe[cursor]) < PipeCap
              /\ pipe' = [pipe EXCEPT ![cursor] = Append(@, QUIT)]
    /\ UNCHANGED << cursor, lastSelectIndex, wstate, fdSessionMap, hand, iter,
                    sessionList, live, clifd, open, lost >>

(* join, and after the last thread DestrorySessionsFromPool(0, true).      *)
JoinThread ==
    /\ phase = "join"
    /\ wstate[cursor] \in {"stopped", "dead"}
    /\ IF cursor + 1 < NumThreads
         THEN /\ cursor' = cursor + 1
              /\ phase' = "notify"
              /\ UNCHANGED << sessionList, live >>
         ELSE /\ phase' = "done"
              /\ live' = live \ ToSet(sessionList)
              /\ sessionList' = << >>
              /\ UNCHANGED cursor
    /\ UNCHANGED << lastSelectIndex, wstate, pipe, fdSessionMap, hand, iter, clifd,
                    open, lost >>

-----------------------------------------------------------------------------
WorkStep(w) ==
    \/ SetupThread(w)
    \/ \E ok \in BOOLEAN : IniSQLConnection(w, ok)
    \/ NotifyReceivedProcess(w)
    \/ RecycleSession(w)
    \/ NotifyQuit(w)
    \/ DestrotiedSessions(w)

Next ==
    \/ \E fd \in Fds : AcceptHandler(fd)
    \/ SignalHandle
    \/ NotifyThreadQuit
    \/ JoinThread
    \/ \E w \in Threads : WorkStep(w)
    \/ \E w \in Threads, fd \in Fds : ClosingClientCon(w, fd)

(* Threads run: a work thread gets on with starting, with the messages in  *)
(* its pipe and with stopping, and the main thread with shutting down once *)
(* a signal came.  Nothing forces a client to connect or to go away.       *)
Fairness ==
    /\ \A w \in Threads : WF_vars(WorkStep(w))
    /\ WF_vars(NotifyThreadQuit)
    /\ WF_vars(JoinThread)

Spec == Init /\ [][Next]_vars /\ Fairness

-----------------------------------------------------------------------------
(* An entry of a map that its thread may still use: DestrotiedSessions has *)
(* given the session of the entry it is at back to the pool.               *)
Entry(w, fd) == IF iter[w] = fd THEN None ELSE fdSessionMap[w][fd]

InMap(s) == {e \in Threads \X Fds : Entry(e[1], e[2]) = s}
InHand(s) == {w \in Threads : hand[w] = s}
InPool(s) == {i \in 1 .. Len(sessionList) : sessionList[i] = s}
Piped(fd) == {w \in Threads : fd \in ToSet(pipe[w])}

(* Type invariant.                                                         *)
TypeOK ==
    /\ phase \in {"serving", "notify", "join", "done"}
    /\ cursor \in Threads /\ lastSelectIndex \in Threads
    /\ wstate \in [Threads -> {"starting", "connecting", "running", "dead",
                               "draining", "stopped"}]
    /\ pipe \in [Threads -> Seq(Fds \cup {QUIT})]
    /\ \A w \in Threads : Len(pipe[w]) <= PipeCap
    /\ fdSessionMap \in [Threads -> [Fds -> Sessions \cup {None}]]
    /\ hand \in [Threads -> Sessions \cup {None}]
    /\ iter \in [Threads -> Fds \cup {None}]
    /\ sessionList \in Seq(Sessions)
    /\ live \subseteq Sessions
    /\ clifd \in [Sessions -> Fds \cup {None}]
    /\ open \subseteq Fds /\ lost \subseteq Fds

(* A session that was allocated is in exactly one place, once: in the pool,*)
(* in one thread's map, or with a thread that recycles it; a deleted one is*)
(* in none.  So no two connections share a session, none is leaked, and    *)
(* trimming the pool never deletes one in use.                             *)
OneOwner ==
    \A s \in Sessions :
       Cardinality(InMap(s)) + Cardinality(InHand(s)) + Cardinality(InPool(s))
          = IF s \in live THEN 1 ELSE 0

(* The pool never keeps 2*Step sessions, however connections come and go.  *)
PoolBounded == Len(sessionList) < 2 * Step

(* An open connection waits in one pipe or has one session, found in the   *)
(* map under its own descriptor, even though the kernel reuses descriptors *)
(* as soon as DestructResource has closed them; only a connection accepted *)
(* before its thread had a pipe is lost.                                   *)
FdsAccounted ==
    \A fd \in Fds :
       LET owners == {s \in Sessions : clifd[s] = fd}
       IN  /\ Cardinality(owners) + Cardinality(Piped(fd))
                + Cardinality(lost \cap {fd}) = IF fd \in open THEN 1 ELSE 0
           /\ \A w \in Threads :
                 Entry(w, fd) # None => owners = {Entry(w, fd)}

(* After shutdown every session has been deleted and every connection has  *)
(* been closed, except those lost at start or left to a thread without a   *)
(* database.                                                               *)
ShutdownFreesAll ==
    phase = "done" =>
       /\ live = {}
       /\ \A fd \in open : fd \in lost \/ \E w \in Piped(fd) : wstate[w] = "dead"

(* A connection handed to a thread that runs gets its session, also if a   *)
(* shutdown comes before the thread has read its pipe.                     *)
AcceptedIsServed ==
    \A w \in Threads, fd \in Fds :
       (fd \in ToSet(pipe[w]) /\ wstate[w] = "running") ~> (fdSessionMap[w][fd] # None)

(* A signal that comes after all threads have their pipes stops the server,*)
(* whatever the threads are at and even if one has no database.            *)
ShutdownCompletes ==
    (phase = "notify" /\ \A w \in Threads : wstate[w] # "starting") ~> (phase = "done")
=============================================================================
