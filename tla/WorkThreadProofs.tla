-------------------------- MODULE WorkThreadProofs --------------------------
(***************************************************************************)
(* Proofs about WorkThread, for any number of work threads, any descriptors*)
(* and session addresses, any step of the pool and any length of the pipes.*)
(***************************************************************************)
EXTENDS WorkThread, FiniteSetTheorems, FunctionTheorems, TLAPS

(* No two elements of a sequence are equal.                                *)
Distinct(q) == \A i, j \in 1 .. Len(q) : q[i] = q[j] => i = j

(* The main thread has told w to quit, or has passed it over because it    *)
(* had no pipe yet.                                                        *)
Told(w) == w < cursor \/ (w = cursor /\ phase \in {"join", "done"})

(* Only a thread that runs or drains holds sessions, and only one that     *)
(* drains is at an entry of its map, which is then still there.            *)
IdleThreadsHoldNothing ==
    \A w \in Threads :
       /\ wstate[w] \notin {"running", "draining"} =>
             hand[w] = None /\ \A fd \in Fds : fdSessionMap[w][fd] = None
       /\ iter[w] # None =>
             wstate[w] = "draining" /\ fdSessionMap[w][iter[w]] # None

(* The main thread stops the work threads in order.                        *)
StoppedInOrder ==
    /\ phase = "serving" => cursor = 0
    /\ \A w \in Threads : w < cursor => wstate[w] \in {"stopped", "dead"}
    /\ phase = "done" => /\ cursor = NumThreads - 1
                         /\ wstate[cursor] \in {"stopped", "dead"}

(* A command to quit is the last message of a pipe and is sent once; a     *)
(* thread that obeyed it has read all of its pipe.                         *)
QuitIsLast ==
    \A w \in Threads :
       /\ Distinct(pipe[w])
       /\ QUIT \in ToSet(pipe[w]) => Told(w) /\ pipe[w][Len(pipe[w])] = QUIT
       /\ wstate[w] \in {"draining", "stopped"} => Told(w) /\ pipe[w] = << >>

(* A session in a map has the descriptor it is found under; one in a pool  *)
(* or being recycled has none.                                             *)
SessionsOwned ==
    /\ \A w \in Threads, fd \in Fds :
          Entry(w, fd) # None => Entry(w, fd) \in live /\ clifd[Entry(w, fd)] = fd
    /\ \A v, w \in Threads, fd \in Fds :
          Entry(v, fd) = Entry(w, fd) => v = w \/ Entry(v, fd) = None
    /\ \A w \in Threads :
          hand[w] # None => /\ hand[w] \in live
                            /\ clifd[hand[w]] = None
                            /\ hand[w] \notin ToSet(sessionList)
    /\ \A v, w \in Threads : hand[v] = hand[w] => v = w \/ hand[v] = None
    /\ \A s \in ToSet(sessionList) : s \in live /\ clifd[s] = None
    /\ Distinct(sessionList)
    /\ \A s \in Sessions :
          clifd[s] # None => \E w \in Threads : Entry(w, clifd[s]) = s
    /\ \A s \in live : \/ clifd[s] # None
                       \/ s \in ToSet(sessionList)
                       \/ \E w \in Threads : hand[w] = s

(* An open descriptor is in one place: lost, in a pipe, or with a session. *)
FdsOwned ==
    /\ lost \subseteq open
    /\ \A s \in Sessions : clifd[s] # None => clifd[s] \in open \ lost
    /\ \A s, t \in Sessions : clifd[s] = clifd[t] => s = t \/ clifd[s] = None
    /\ \A w \in Threads, fd \in Fds :
          fd \in ToSet(pipe[w]) => /\ fd \in open \ lost
                                   /\ \A s \in Sessions : clifd[s] # fd
    /\ \A v, w \in Threads, fd \in Fds :
          fd \in ToSet(pipe[v]) /\ fd \in ToSet(pipe[w]) => v = w
    /\ \A fd \in open : \/ fd \in lost
                        \/ \E s \in Sessions : clifd[s] = fd
                        \/ \E w \in Threads : fd \in ToSet(pipe[w])

(* The inductive invariant.  That a session has one owner depends on where *)
(* its descriptor is and the other way round: a connection read from a pipe*)
(* must not have an entry already, and an entry that is removed must be the*)
(* only user of its descriptor.                                            *)
IInv ==
    /\ TypeOK
    /\ IdleThreadsHoldNothing
    /\ StoppedInOrder
    /\ QuitIsLast
    /\ SessionsOwned
    /\ FdsOwned
    /\ PoolBounded

-----------------------------------------------------------------------------
(* The elements of a sequence.                                             *)
LEMMA ElementsOf ==
    ASSUME NEW T, NEW q \in Seq(T)
    PROVE  /\ Len(q) \in Nat
           /\ ToSet(q) = {q[i] : i \in 1 .. Len(q)}
           /\ ToSet(q) \subseteq T
BY DEF ToSet

(* The empty sequence.                                                     *)
LEMMA EmptySequence == ToSet(<< >>) = {} /\ Distinct(<< >>)
BY DEF ToSet, Distinct

(* Taking the first of distinct elements away.                             *)
LEMMA TailDistinct ==
    ASSUME NEW T, NEW q \in Seq(T), q # << >>, Distinct(q)
    PROVE  /\ Tail(q) \in Seq(T) /\ Head(q) \in T /\ Head(q) = q[1]
           /\ Len(q) > 0 /\ Len(Tail(q)) = Len(q) - 1
           /\ Distinct(Tail(q))
           /\ Head(q) \in ToSet(q)
           /\ ToSet(Tail(q)) = ToSet(q) \ {Head(q)}
<1>1. /\ Tail(q) \in Seq(T) /\ Head(q) \in T /\ Head(q) = q[1]
      /\ Len(q) \in Nat /\ Len(q) > 0 /\ Len(Tail(q)) = Len(q) - 1
      /\ \A i \in 1 .. Len(Tail(q)) : Tail(q)[i] = q[i + 1]
  OBVIOUS
<1>2. Distinct(Tail(q))
  BY <1>1 DEF Distinct
<1>3. ToSet(q) = {q[i] : i \in 1 .. Len(q)}
  BY ElementsOf
<1>4. ToSet(Tail(q)) = {Tail(q)[i] : i \in 1 .. Len(Tail(q))}
  BY <1>1, ElementsOf
<1>5. ASSUME NEW x \in ToSet(q), x # Head(q)
      PROVE  x \in ToSet(Tail(q))
  <2>1. PICK i \in 1 .. Len(q) : x = q[i]
    BY <1>3
  <2>2. i - 1 \in 1 .. Len(Tail(q)) /\ Tail(q)[i - 1] = x
    BY <1>1, <1>5, <2>1
  <2>3. QED BY <1>4, <2>2
<1>6. ASSUME NEW x \in ToSet(Tail(q))
      PROVE  x \in ToSet(q) /\ x # Head(q)
  <2>1. PICK i \in 1 .. Len(Tail(q)) : x = Tail(q)[i]
    BY <1>4
  <2>2. i + 1 \in 1 .. Len(q) /\ q[i + 1] = x /\ 1 \in 1 .. Len(q) /\ i + 1 # 1
    BY <1>1, <2>1
  <2>3. QED BY <1>1, <1>3, <2>2 DEF Distinct
<1>7. Head(q) \in ToSet(q)
  BY <1>1, <1>3
<1>8. QED BY <1>1, <1>2, <1>5, <1>6, <1>7

(* Adding a new element behind distinct ones.                              *)
LEMMA AppendDistinct ==
    ASSUME NEW T, NEW q \in Seq(T), NEW e \in T, e \notin ToSet(q), Distinct(q)
    PROVE  /\ Append(q, e) \in Seq(T)
           /\ Len(Append(q, e)) = Len(q) + 1
           /\ Append(q, e)[Len(Append(q, e))] = e
           /\ Distinct(Append(q, e))
           /\ ToSet(Append(q, e)) = ToSet(q) \cup {e}
<1>1. /\ Append(q, e) \in Seq(T)
      /\ Len(q) \in Nat /\ Len(Append(q, e)) = Len(q) + 1
      /\ \A i \in 1 .. Len(q) : Append(q, e)[i] = q[i]
      /\ Append(q, e)[Len(q) + 1] = e
  OBVIOUS
<1>2. /\ ToSet(q) = {q[i] : i \in 1 .. Len(q)}
      /\ ToSet(Append(q, e)) = {Append(q, e)[i] : i \in 1 .. Len(Append(q, e))}
  BY <1>1, ElementsOf
<1>3. Distinct(Append(q, e))
  BY <1>1, <1>2 DEF Distinct
<1>4. ToSet(Append(q, e)) = ToSet(q) \cup {e}
  <2>1. \A i \in 1 .. Len(q) + 1 : i \in 1 .. Len(q) \/ i = Len(q) + 1
    BY <1>1
  <2>2. QED BY <1>1, <1>2, <2>1
<1>5. QED BY <1>1, <1>3, <1>4

(* Adding a new element before distinct ones.                              *)
LEMMA PushDistinct ==
    ASSUME NEW T, NEW q \in Seq(T), NEW e \in T, e \notin ToSet(q), Distinct(q)
    PROVE  /\ << e >> \o q \in Seq(T)
           /\ Len(<< e >> \o q) = Len(q) + 1
           /\ Distinct(<< e >> \o q)
           /\ ToSet(<< e >> \o q) = ToSet(q) \cup {e}
<1> DEFINE p == << e >> \o q
<1>1. /\ p \in Seq(T) /\ Len(q) \in Nat /\ Len(p) = Len(q) + 1
      /\ p[1] = e /\ \A i \in 2 .. Len(p) : p[i] = q[i - 1]
  OBVIOUS
<1> HIDE DEF p
<1>2. /\ ToSet(q) = {q[i] : i \in 1 .. Len(q)}
      /\ ToSet(p) = {p[i] : i \in 1 .. Len(p)}
  BY <1>1, ElementsOf
<1>3. \A i \in 1 .. Len(p) : i = 1 \/ (i \in 2 .. Len(p) /\ i - 1 \in 1 .. Len(q))
  BY <1>1
<1>4. \A i \in 2 .. Len(p) : p[i] \in ToSet(q) /\ p[i] # e
  BY <1>1, <1>2, <1>3
<1>5. /\ Distinct(p)
      /\ ToSet(p) \subseteq ToSet(q) \cup {e}
  <2>1. ASSUME NEW i \in 1 .. Len(p), NEW j \in 1 .. Len(p), p[i] = p[j]
        PROVE  i = j
    <3>1. CASE i = 1 \/ j = 1
      BY <1>1, <1>3, <1>4, <2>1, <3>1
    <3>2. CASE i # 1 /\ j # 1
      <4>1. i - 1 \in 1 .. Len(q) /\ j - 1 \in 1 .. Len(q) /\ q[i - 1] = q[j - 1]
        BY <1>1, <1>3, <2>1, <3>2
      <4>2. i - 1 = j - 1
        BY <4>1 DEF Distinct
      <4>3. QED BY <1>1, <4>2
    <3>3. QED BY <3>1, <3>2
  <2>2. ToSet(p) \subseteq ToSet(q) \cup {e}
    BY <1>1, <1>2, <1>3, <1>4
  <2>3. QED BY <2>1, <2>2 DEF Distinct
<1>6. e \in ToSet(p)
  BY <1>1, <1>2
<1>7. ASSUME NEW x \in ToSet(q) PROVE x \in ToSet(p)
  <2>1. PICK i \in 1 .. Len(q) : q[i] = x
    BY <1>2
  <2>2. i + 1 \in 1 .. Len(p) /\ p[i + 1] = x
    BY <1>1, <2>1
  <2>3. QED BY <1>2, <2>2
<1>8. QED BY <1>1, <1>5, <1>6, <1>7 DEF p

(* Trimming the pool keeps its front part.                                 *)
LEMMA TrimmedDistinct ==
    ASSUME NEW q \in Seq(Sessions), Distinct(q), Len(q) <= 2 * Step
    PROVE  /\ Trimmed(q) \in Seq(Sessions)
           /\ Len(Trimmed(q)) < 2 * Step
           /\ Distinct(Trimmed(q))
           /\ ToSet(Trimmed(q)) \subseteq ToSet(q)
<1>1. Step \in Nat /\ Step > 0 /\ Len(q) \in Nat
  BY StepAssumption
<1>2. CASE Len(q) >= 2 * Step
  <2> DEFINE p == SubSeq(q, 1, Len(q) - Step)
  <2>1. Trimmed(q) = p
    BY <1>2 DEF Trimmed
  <2>2. /\ p \in Seq(Sessions) /\ Len(p) = Len(q) - Step
        /\ \A i \in 1 .. Len(p) : p[i] = q[i] /\ i \in 1 .. Len(q)
    BY <1>1, <1>2
  <2> HIDE DEF p
  <2>3. Distinct(p)
    BY <2>2 DEF Distinct
  <2>4. ToSet(p) \subseteq ToSet(q)
    BY <2>2, ElementsOf
  <2>5. QED BY <1>1, <2>1, <2>2, <2>3, <2>4
<1>3. CASE Len(q) < 2 * Step
  BY <1>1, <1>3 DEF Trimmed
<1>4. QED BY <1>1, <1>2, <1>3

(* The sequence made of a finite set holds each of its elements once.      *)
LEMMA SetToSeqDistinct ==
    ASSUME NEW S, IsFiniteSet(S)
    PROVE  /\ SetToSeq(S) \in Seq(S)
           /\ Len(SetToSeq(S)) = Cardinality(S)
           /\ Distinct(SetToSeq(S))
           /\ ToSet(SetToSeq(S)) = S
<1> DEFINE n == Cardinality(S)
           q == SetToSeq(S)
<1>1. n \in Nat /\ ExistsBijection(1 .. n, S)
  BY FS_CardinalityType
<1> HIDE DEF n
<1>2. PICK f : f \in Bijection(1 .. n, S)
  BY <1>1, Fun_ExistsBij
<1>3. f \in [1 .. n -> S] /\ IsInjective(f)
  BY <1>2 DEF Bijection, Injection
<1>4. q \in [1 .. n -> S] /\ IsInjective(q)
  BY <1>3 DEF SetToSeq, n
<1> HIDE DEF q
<1>5. q \in Injection(1 .. n, S)
  BY <1>4, Fun_IsInj DEF IsInjective
<1>6. Cardinality(1 .. n) = n
  BY <1>1, FS_Interval
<1>7. q \in Surjection(1 .. n, S)
  BY <1>5, <1>6, FS_Injection DEF n
<1>8. \A x \in S : \E i \in 1 .. n : q[i] = x
  BY <1>7 DEF Surjection
<1>9. q \in Seq(S) /\ Len(q) = n /\ DOMAIN q = 1 .. n
  BY <1>1, <1>4
<1>10. Distinct(q)
  BY <1>4, <1>9 DEF Distinct, IsInjective
<1>11. ToSet(q) = S
  BY <1>4, <1>8, <1>9 DEF ToSet
<1>12. QED BY <1>9, <1>10, <1>11 DEF q, n

-----------------------------------------------------------------------------
(* The server starts without sessions, connections and messages.           *)
LEMMA InitInv == Init => IInv
<1> SUFFICES ASSUME Init PROVE IInv
  OBVIOUS
<1> USE DEF Init
<1>1. 0 \in Threads /\ NumThreads - 1 \in Nat
  BY ThreadAssumption DEF Threads
<1>2. TypeOK
  BY <1>1, ThreadAssumption DEF TypeOK
<1>3. IdleThreadsHoldNothing
  BY DEF IdleThreadsHoldNothing
<1>4. StoppedInOrder
  BY DEF StoppedInOrder, Threads
<1>5. ToSet(<< >>) = {} /\ Distinct(<< >>)
  BY EmptySequence
<1>6. QuitIsLast
  BY <1>5 DEF QuitIsLast
<1>7. \A w \in Threads, fd \in Fds : Entry(w, fd) = None
  BY DEF Entry
<1>8. SessionsOwned
  BY <1>5, <1>7 DEF SessionsOwned
<1>9. FdsOwned
  BY <1>5 DEF FdsOwned
<1>10. PoolBounded
  BY StepAssumption DEF PoolBounded
<1>11. QED BY <1>2, <1>3, <1>4, <1>6, <1>8, <1>9, <1>10 DEF IInv

(* What a step leaves alone keeps the parts of the invariant about it.     *)
LEMMA Frames ==
    /\ SessionsOwned /\ UNCHANGED << iter, fdSessionMap, hand, live, clifd, sessionList >>
          => SessionsOwned'
    /\ FdsOwned /\ UNCHANGED << open, lost, clifd, pipe >> => FdsOwned'
    /\ PoolBounded /\ UNCHANGED sessionList => PoolBounded'
    /\ QuitIsLast /\ UNCHANGED << pipe, wstate, cursor, phase >> => QuitIsLast'
    /\ StoppedInOrder /\ UNCHANGED << phase, cursor, wstate >> => StoppedInOrder'
    /\ IdleThreadsHoldNothing /\ UNCHANGED << wstate, hand, fdSessionMap, iter >>
          => IdleThreadsHoldNothing'
<1>1. SessionsOwned /\ UNCHANGED << iter, fdSessionMap, hand, live, clifd, sessionList >>
          => SessionsOwned'
  <2> SUFFICES ASSUME SessionsOwned,
                      UNCHANGED << iter, fdSessionMap, hand, live, clifd, sessionList >>
               PROVE  SessionsOwned'
    OBVIOUS
  <2>1. /\ \A w, fd : Entry(w, fd)' = Entry(w, fd)
        /\ hand' = hand /\ live' = live /\ clifd' = clifd /\ sessionList' = sessionList
        /\ ToSet(sessionList)' = ToSet(sessionList)
        /\ Distinct(sessionList)' = Distinct(sessionList)
    BY DEF Entry
  <2>2. QED BY <2>1 DEF SessionsOwned
<1>2. FdsOwned /\ UNCHANGED << open, lost, clifd, pipe >> => FdsOwned'
  BY DEF FdsOwned
<1>3. PoolBounded /\ UNCHANGED sessionList => PoolBounded'
  BY DEF PoolBounded
<1>4. QuitIsLast /\ UNCHANGED << pipe, wstate, cursor, phase >> => QuitIsLast'
  BY DEF QuitIsLast, Told
<1>5. StoppedInOrder /\ UNCHANGED << phase, cursor, wstate >> => StoppedInOrder'
  BY DEF StoppedInOrder
<1>6. IdleThreadsHoldNothing /\ UNCHANGED << wstate, hand, fdSessionMap, iter >>
          => IdleThreadsHoldNothing'
  BY DEF IdleThreadsHoldNothing
<1>7. QED BY <1>1, <1>2, <1>3, <1>4, <1>5, <1>6

(* Starting a thread.                                                      *)
LEMMA StartInv ==
    ASSUME IInv, NEW w \in Threads,
           SetupThread(w) \/ \E ok \in BOOLEAN : IniSQLConnection(w, ok)
    PROVE  IInv'
<1> USE DEF IInv
<1>1. PICK x \in {"connecting", "running", "dead"} :
         /\ wstate[w] \in {"starting", "connecting"}
         /\ wstate' = [wstate EXCEPT ![w] = x]
         /\ UNCHANGED << phase, cursor, lastSelectIndex, pipe, fdSessionMap, hand,
                         iter, sessionList, live, clifd, open, lost >>
  <2>1. CASE SetupThread(w)
    BY <2>1 DEF SetupThread
  <2>2. CASE \E ok \in BOOLEAN : IniSQLConnection(w, ok)
    <3>1. PICK ok \in BOOLEAN : IniSQLConnection(w, ok)
      BY <2>2
    <3>2. CASE ok = TRUE
      BY <3>1, <3>2 DEF IniSQLConnection
    <3>3. CASE ok = FALSE
      BY <3>1, <3>3 DEF IniSQLConnection
    <3>4. QED BY <3>2, <3>3
  <2>3. QED BY <2>1, <2>2
<1>2. TypeOK'
  BY <1>1 DEF TypeOK
<1>3. \A v \in Threads : wstate'[v] = IF v = w THEN x ELSE wstate[v]
  BY <1>1 DEF TypeOK
<1>4. IdleThreadsHoldNothing'
  BY <1>1, <1>3 DEF IdleThreadsHoldNothing
<1>5. StoppedInOrder'
  BY <1>1, <1>3 DEF StoppedInOrder, TypeOK
<1>6. QuitIsLast'
  BY <1>1, <1>3 DEF QuitIsLast, Told
<1>7. SessionsOwned' /\ FdsOwned' /\ PoolBounded'
  BY <1>1, Frames
<1>8. QED BY <1>2, <1>4, <1>5, <1>6, <1>7

(* A connection is accepted: its descriptor is new, so nobody has it, and  *)
(* no thread has been told to quit.                                        *)
LEMMA AcceptInv ==
    ASSUME IInv, NEW fd \in Fds, AcceptHandler(fd)
    PROVE  IInv'
<1> USE DEF IInv
<1> DEFINE w == lastSelectIndex
<1>1. /\ phase = "serving" /\ fd \notin open /\ open' = open \cup {fd}
      /\ lastSelectIndex' = GetOneThread
      /\ \/ lost' = lost \cup {fd} /\ pipe' = pipe
         \/ /\ Len(pipe[w]) < PipeCap
            /\ pipe' = [pipe EXCEPT ![w] = Append(@, fd)]
            /\ lost' = lost
      /\ UNCHANGED << phase, cursor, wstate, fdSessionMap, hand, iter,
                      sessionList, live, clifd >>
  BY DEF AcceptHandler
<1>2. w \in Threads /\ lastSelectIndex' \in Threads /\ fd # QUIT /\ fd # None
  BY <1>1, ThreadAssumption, NoneAssumption DEF TypeOK, GetOneThread, Threads
<1> HIDE DEF w
<1>3. \A v \in Threads : ~Told(v)
  BY <1>1 DEF StoppedInOrder, Told, Threads
<1>4. \A v \in Threads : /\ pipe[v] \in Seq(Fds \cup {QUIT}) /\ Distinct(pipe[v])
                         /\ fd \notin ToSet(pipe[v]) /\ QUIT \notin ToSet(pipe[v])
  BY <1>1, <1>3 DEF TypeOK, QuitIsLast, FdsOwned
<1>5. \A s \in Sessions : clifd[s] # fd
  BY <1>1, <1>2 DEF FdsOwned
<1>6. IdleThreadsHoldNothing' /\ StoppedInOrder' /\ SessionsOwned' /\ PoolBounded'
  BY <1>1, Frames
<1>7. CASE lost' = lost \cup {fd} /\ pipe' = pipe
  <2>1. TypeOK'
    BY <1>1, <1>2, <1>7 DEF TypeOK
  <2>2. QuitIsLast'
    BY <1>1, <1>7, Frames
  <2>3. FdsOwned'
    BY <1>1, <1>4, <1>5, <1>7 DEF FdsOwned
  <2>4. QED BY <1>6, <2>1, <2>2, <2>3
<1>8. CASE /\ Len(pipe[w]) < PipeCap
           /\ pipe' = [pipe EXCEPT ![w] = Append(@, fd)]
           /\ lost' = lost
  <2>1. /\ Append(pipe[w], fd) \in Seq(Fds \cup {QUIT})
        /\ Len(Append(pipe[w], fd)) = Len(pipe[w]) + 1
        /\ Distinct(Append(pipe[w], fd))
        /\ ToSet(Append(pipe[w], fd)) = ToSet(pipe[w]) \cup {fd}
    BY <1>2, <1>4, AppendDistinct
  <2>2. \A v \in Threads : pipe'[v] = IF v = w THEN Append(pipe[w], fd) ELSE pipe[v]
    BY <1>8 DEF TypeOK
  <2>3. \A v \in Threads :
           /\ \A g : g \in ToSet(pipe'[v]) <=> g \in ToSet(pipe[v]) \/ (v = w /\ g = fd)
           /\ Distinct(pipe'[v])
    BY <1>4, <2>1, <2>2
  <2>4. TypeOK'
    <3>1. pipe' \in [Threads -> Seq(Fds \cup {QUIT})]
      BY <1>8, <2>1 DEF TypeOK
    <3>2. \A v \in Threads : Len(pipe'[v]) <= PipeCap
      BY <1>2, <1>4, <1>8, <2>1, <2>2, ThreadAssumption DEF TypeOK
    <3>3. QED BY <1>1, <1>2, <1>8, <3>1, <3>2 DEF TypeOK
  <2>5. QuitIsLast'
    <3>1. \A v \in Threads : QUIT \notin ToSet(pipe'[v])
      BY <1>2, <1>4, <2>3
    <3>2. \A v \in Threads : wstate'[v] \notin {"draining", "stopped"}
      BY <1>1, <1>3 DEF QuitIsLast
    <3>3. QED BY <2>3, <3>1, <3>2 DEF QuitIsLast
  <2>6. FdsOwned'
    <3>1. /\ (lost \subseteq open)'
          /\ \A s \in Sessions : clifd'[s] # None => clifd'[s] \in open' \ lost'
          /\ \A s, t \in Sessions : clifd'[s] = clifd'[t] => s = t \/ clifd'[s] = None
      BY <1>1, <1>8 DEF FdsOwned
    <3>2. \A v \in Threads, g \in Fds :
             g \in ToSet(pipe'[v]) => /\ g \in open' \ lost'
                                      /\ \A s \in Sessions : clifd'[s] # g
      BY <1>1, <1>5, <1>8, <2>3 DEF FdsOwned
    <3>3. ASSUME NEW u \in Threads, NEW v \in Threads, NEW g \in Fds,
                 g \in ToSet(pipe'[u]), g \in ToSet(pipe'[v])
          PROVE  u = v
      <4>1. CASE g = fd
        BY <1>4, <2>3, <3>3, <4>1
      <4>2. CASE g # fd
        <5>1. g \in ToSet(pipe[u]) /\ g \in ToSet(pipe[v])
          BY <2>3, <3>3, <4>2
        <5>2. QED BY <5>1 DEF FdsOwned
      <4>3. QED BY <4>1, <4>2
    <3>4. ASSUME NEW g \in open'
          PROVE  \/ g \in lost'
                 \/ \E s \in Sessions : clifd'[s] = g
                 \/ \E v \in Threads : g \in ToSet(pipe'[v])
      <4>1. CASE g = fd
        BY <1>2, <2>3, <4>1
      <4>2. CASE g # fd
        <5>1. \/ g \in lost
              \/ \E s \in Sessions : clifd[s] = g
              \/ \E v \in Threads : g \in ToSet(pipe[v])
          BY <1>1, <4>2 DEF FdsOwned
        <5>2. QED BY <1>1, <1>8, <2>3, <5>1
      <4>3. QED BY <4>1, <4>2
    <3>5. QED BY <3>1, <3>2, <3>3, <3>4 DEF FdsOwned
  <2>7. QED BY <1>6, <2>4, <2>5, <2>6
<1>9. QED BY <1>1, <1>7, <1>8

-----------------------------------------------------------------------------
(* A session nobody uses: in the pool or not allocated.                    *)
Free(s) == s \in ToSet(sessionList) \/ s \notin live

(* A free session has no descriptor and nobody holds it.                   *)
LEMMA FreeIsUnused ==
    ASSUME SessionsOwned, TypeOK, NEW s \in Sessions, Free(s)
    PROVE  /\ clifd[s] = None
           /\ \A w \in Threads : hand[w] # s
           /\ \A w \in Threads, fd \in Fds : Entry(w, fd) # s
<1>1. s # None
  BY NoneAssumption
<1>2. clifd[s] = None
  <2>1. CASE s \in ToSet(sessionList)
    BY <2>1 DEF SessionsOwned
  <2>2. ASSUME s \notin live, clifd[s] # None PROVE FALSE
    <3>1. PICK w \in Threads : Entry(w, clifd[s]) = s
      BY <2>2 DEF SessionsOwned
    <3>2. clifd[s] \in Fds
      BY <2>2 DEF TypeOK
    <3>3. QED BY <1>1, <2>2, <3>1, <3>2 DEF SessionsOwned
  <2>3. QED BY <2>1, <2>2 DEF Free
<1>3. ASSUME NEW w \in Threads, hand[w] = s PROVE FALSE
  BY <1>1, <1>3 DEF SessionsOwned, Free
<1>4. ASSUME NEW w \in Threads, NEW fd \in Fds, Entry(w, fd) = s PROVE FALSE
  BY <1>1, <1>2, <1>4, NoneAssumption DEF SessionsOwned
<1>5. QED BY <1>2, <1>3, <1>4

(* GetOneSessionFromPool gives a free session and keeps the others.        *)
LEMMA Taken ==
    ASSUME IInv, NEW s \in Sessions, GetOneSessionFromPool(s)
    PROVE  /\ sessionList' \in Seq(Sessions) /\ Distinct(sessionList')
           /\ Len(sessionList') < 2 * Step
           /\ Free(s) /\ s \notin ToSet(sessionList') /\ s \in live'
           /\ live \subseteq live' /\ live' \subseteq Sessions
           /\ \A t \in live' : t \in live \/ t = s \/ t \in ToSet(sessionList')
           /\ \A t \in ToSet(sessionList) : t = s \/ t \in ToSet(sessionList')
           /\ \A t \in ToSet(sessionList') : t \in Sessions /\ t \in live' /\ Free(t)
<1> USE DEF IInv
<1>1. /\ sessionList \in Seq(Sessions) /\ Distinct(sessionList) /\ live \subseteq Sessions
      /\ Len(sessionList) < 2 * Step /\ Len(sessionList) \in Nat /\ Step \in Nat /\ Step > 0
      /\ ToSet(sessionList) \subseteq live
  BY StepAssumption DEF TypeOK, SessionsOwned, PoolBounded
<1>2. CASE sessionList # << >>
  <2>1. s = Head(sessionList) /\ sessionList' = Tail(sessionList) /\ live' = live
    BY <1>2 DEF GetOneSessionFromPool
  <2>2. /\ Tail(sessionList) \in Seq(Sessions) /\ Distinct(Tail(sessionList))
        /\ Len(Tail(sessionList)) = Len(sessionList) - 1
        /\ s \in ToSet(sessionList)
        /\ ToSet(Tail(sessionList)) = ToSet(sessionList) \ {s}
    BY <1>1, <1>2, <2>1, TailDistinct
  <2>3. QED BY <1>1, <2>1, <2>2 DEF Free
<1>3. CASE sessionList = << >>
  <2>1. PICK new \in kSubset(Step, Sessions \ live) :
           s \in new /\ live' = live \cup new /\ sessionList' = SetToSeq(new \ {s})
    BY <1>3 DEF GetOneSessionFromPool
  <2>2. new \subseteq Sessions /\ new \cap live = {} /\ Cardinality(new) = Step
    BY <2>1 DEF kSubset
  <2>3. /\ IsFiniteSet(new \ {s})
        /\ Cardinality(new \ {s}) = Step - 1
    BY <2>1, <2>2, SessionsAssumption, FS_Subset, FS_RemoveElement
  <2>4. /\ sessionList' \in Seq(new \ {s}) /\ Len(sessionList') = Step - 1
        /\ Distinct(sessionList') /\ ToSet(sessionList') = new \ {s}
    BY <2>1, <2>3, SetToSeqDistinct
  <2>5. sessionList' \in Seq(Sessions)
    BY <2>2, <2>4
  <2>6. ToSet(sessionList) = {}
    BY <1>3 DEF ToSet
  <2>7. \A t \in new : t \in Sessions /\ t \in live' /\ Free(t)
    BY <2>1, <2>2 DEF Free
  <2>8. Len(sessionList') < 2 * Step
    BY <1>1, <2>4
  <2>9. QED BY <1>1, <2>1, <2>2, <2>4, <2>5, <2>6, <2>7, <2>8
<1>4. QED BY <1>2, <1>3

(* A connection is read from the pipe and given a session.                 *)
LEMMA NotifyInv ==
    ASSUME IInv, NEW w \in Threads, NotifyReceivedProcess(w)
    PROVE  IInv'
<1> USE DEF IInv
<1> DEFINE fd == Head(pipe[w])
<1>1. /\ wstate[w] = "running" /\ pipe[w] # << >> /\ fd # QUIT
      /\ pipe' = [pipe EXCEPT ![w] = Tail(@)]
      /\ UNCHANGED << phase, cursor, lastSelectIndex, wstate, hand, iter, open, lost >>
  BY DEF NotifyReceivedProcess
<1>2. PICK s \in Sessions :
         /\ GetOneSessionFromPool(s)
         /\ clifd' = [clifd EXCEPT ![s] = fd]
         /\ fdSessionMap' = [fdSessionMap EXCEPT ![w][fd] = IF @ = None THEN s ELSE @]
  BY DEF NotifyReceivedProcess
<1>3. pipe[w] \in Seq(Fds \cup {QUIT}) /\ Distinct(pipe[w])
  BY DEF TypeOK, QuitIsLast
<1>4. /\ Tail(pipe[w]) \in Seq(Fds \cup {QUIT}) /\ fd \in Fds /\ fd \in ToSet(pipe[w])
      /\ Len(pipe[w]) \in Nat /\ Len(Tail(pipe[w])) = Len(pipe[w]) - 1
      /\ Distinct(Tail(pipe[w])) /\ ToSet(Tail(pipe[w])) = ToSet(pipe[w]) \ {fd}
  BY <1>1, <1>3, TailDistinct
<1>5. \A v \in Threads : pipe'[v] = IF v = w THEN Tail(pipe[w]) ELSE pipe[v]
  BY <1>1 DEF TypeOK
<1>6. \A v \in Threads :
           /\ \A g : g \in ToSet(pipe'[v]) <=> g \in ToSet(pipe[v]) /\ ~(v = w /\ g = fd)
           /\ Distinct(pipe'[v])
  BY <1>4, <1>5 DEF QuitIsLast
<1> HIDE DEF fd
<1>7. fd # None /\ s # None
  BY <1>4, NoneAssumption
<1>8. iter[w] = None /\ fdSessionMap[w][fd] = None
  <2>1. iter[w] = None
    BY <1>1 DEF IdleThreadsHoldNothing
  <2>2. Entry(w, fd) = fdSessionMap[w][fd]
    BY <1>7, <2>1 DEF Entry
  <2>3. Entry(w, fd) \in Sessions \cup {None}
    BY <1>4, <2>2 DEF TypeOK
  <2>4. QED BY <1>4, <2>1, <2>2, <2>3 DEF SessionsOwned, FdsOwned
<1>9. /\ fdSessionMap' \in [Threads -> [Fds -> Sessions \cup {None}]]
      /\ \A v \in Threads, g \in Fds :
            fdSessionMap'[v][g] = IF v = w /\ g = fd THEN s ELSE fdSessionMap[v][g]
  BY <1>2, <1>4, <1>8 DEF TypeOK
<1>10. \A v \in Threads, g \in Fds :
            Entry(v, g)' = IF v = w /\ g = fd THEN s ELSE Entry(v, g)
  BY <1>1, <1>7, <1>8, <1>9 DEF Entry
<1>11. /\ clifd' \in [Sessions -> Fds \cup {None}]
       /\ \A t \in Sessions : clifd'[t] = IF t = s THEN fd ELSE clifd[t]
  BY <1>2, <1>4 DEF TypeOK
<1>12. /\ sessionList' \in Seq(Sessions) /\ Distinct(sessionList')
       /\ Len(sessionList') < 2 * Step
       /\ Free(s) /\ s \notin ToSet(sessionList') /\ s \in live'
       /\ live \subseteq live' /\ live' \subseteq Sessions
       /\ \A t \in live' : t \in live \/ t = s \/ t \in ToSet(sessionList')
       /\ \A t \in ToSet(sessionList) : t = s \/ t \in ToSet(sessionList')
       /\ \A t \in ToSet(sessionList') : t \in Sessions /\ t \in live' /\ Free(t)
  BY <1>2, Taken
<1>13. /\ clifd[s] = None
       /\ \A v \in Threads : hand[v] # s
       /\ \A v \in Threads, g \in Fds : Entry(v, g) # s
  BY <1>12, FreeIsUnused
<1>14. TypeOK'
  <2>1. pipe' \in [Threads -> Seq(Fds \cup {QUIT})]
    BY <1>1, <1>4 DEF TypeOK, fd
  <2>2. \A v \in Threads : Len(pipe'[v]) <= PipeCap
    <3>1. \A v \in Threads : Len(pipe[v]) \in Nat /\ Len(pipe[v]) <= PipeCap
      BY DEF TypeOK
    <3>2. Len(Tail(pipe[w])) <= PipeCap
      BY <1>4, <3>1, ThreadAssumption
    <3>3. QED BY <1>5, <3>1, <3>2
  <2>3. QED BY <1>1, <1>9, <1>11, <1>12, <2>1, <2>2 DEF TypeOK
<1>15. IdleThreadsHoldNothing'
  <2>1. ASSUME NEW v \in Threads
        PROVE  /\ wstate'[v] \notin {"running", "draining"} =>
                     hand'[v] = None /\ \A g \in Fds : fdSessionMap'[v][g] = None
               /\ iter'[v] # None =>
                     wstate'[v] = "draining" /\ fdSessionMap'[v][iter'[v]] # None
    <3>1. CASE v = w
      BY <1>1, <1>8, <3>1
    <3>2. CASE v # w
      BY <1>1, <1>9, <3>2 DEF IdleThreadsHoldNothing, TypeOK
    <3>3. QED BY <3>1, <3>2
  <2>2. QED BY <2>1 DEF IdleThreadsHoldNothing
<1>16. StoppedInOrder'
  BY <1>1, Frames
<1>17. QuitIsLast'
  <2>1. ASSUME NEW v \in Threads, QUIT \in ToSet(pipe'[v])
        PROVE  Told(v)' /\ pipe'[v][Len(pipe'[v])] = QUIT
    <3>1. Told(v) /\ pipe[v][Len(pipe[v])] = QUIT
      BY <1>6, <2>1 DEF QuitIsLast
    <3>2. CASE v # w
      BY <1>1, <1>5, <3>1, <3>2 DEF Told
    <3>3. CASE v = w
      <4>1. Tail(pipe[w]) # << >>
        BY <1>5, <2>1, <3>3, EmptySequence
      <4>2. Tail(pipe[w])[Len(Tail(pipe[w]))] = pipe[w][Len(pipe[w])]
        BY <1>1, <1>3, <1>4, <4>1
      <4>3. QED BY <1>1, <1>5, <3>1, <3>3, <4>2 DEF Told
    <3>4. QED BY <3>2, <3>3
  <2>2. ASSUME NEW v \in Threads, wstate'[v] \in {"draining", "stopped"}
        PROVE  Told(v)' /\ pipe'[v] = << >>
    BY <1>1, <1>5, <2>2 DEF QuitIsLast, Told
  <2>3. QED BY <1>6, <2>1, <2>2 DEF QuitIsLast
<1>18. PoolBounded'
  BY <1>12 DEF PoolBounded
<1>19. SessionsOwned'
  <2>1. ASSUME NEW v \in Threads, NEW g \in Fds, Entry(v, g)' # None
        PROVE  Entry(v, g)' \in live' /\ clifd'[Entry(v, g)'] = g
    <3>1. CASE v = w /\ g = fd
      BY <1>10, <1>11, <1>12, <3>1
    <3>2. CASE ~(v = w /\ g = fd)
      <4>1. Entry(v, g)' = Entry(v, g)
        BY <1>10, <3>2
      <4>2. Entry(v, g) \in live /\ clifd[Entry(v, g)] = g /\ Entry(v, g) # s
        BY <1>13, <2>1, <4>1 DEF SessionsOwned
      <4>3. QED BY <1>11, <1>12, <4>1, <4>2
    <3>3. QED BY <3>1, <3>2
  <2>2. ASSUME NEW u \in Threads, NEW v \in Threads, NEW g \in Fds,
               Entry(u, g)' = Entry(v, g)'
        PROVE  u = v \/ Entry(u, g)' = None
    BY <1>10, <1>13, <2>2 DEF SessionsOwned
  <2>3. ASSUME NEW v \in Threads, hand'[v] # None
        PROVE  /\ hand'[v] \in live'
               /\ clifd'[hand'[v]] = None
               /\ hand'[v] \notin ToSet(sessionList')
    <3>1. /\ hand[v] \in live /\ clifd[hand[v]] = None
          /\ hand[v] \notin ToSet(sessionList)
      BY <1>1, <2>3 DEF SessionsOwned
    <3>2. hand[v] \in Sessions /\ hand[v] # s /\ ~Free(hand[v])
      BY <1>13, <3>1 DEF Free, TypeOK
    <3>3. QED BY <1>1, <1>11, <1>12, <3>1, <3>2
  <2>4. \A u, v \in Threads : hand'[u] = hand'[v] => u = v \/ hand'[u] = None
    BY <1>1 DEF SessionsOwned
  <2>5. ASSUME NEW t \in ToSet(sessionList') PROVE t \in live' /\ clifd'[t] = None
    <3>1. t \in Sessions /\ t \in live' /\ Free(t) /\ t # s
      BY <1>12
    <3>2. clifd[t] = None
      BY <3>1, FreeIsUnused
    <3>3. QED BY <1>11, <3>1, <3>2
  <2>6. ASSUME NEW t \in Sessions, clifd'[t] # None
        PROVE  \E v \in Threads : Entry(v, clifd[t])' = t
    <3>1. CASE t = s
      <4>1. clifd'[t] = fd /\ clifd'[t] \in Fds
        BY <1>4, <1>11, <3>1
      <4>2. \A g \in Fds : g = fd => Entry(w, g)' = t
        BY <1>10, <3>1
      <4>3. QED BY <4>1, <4>2
    <3>2. CASE t # s
      <4>1. clifd'[t] = clifd[t] /\ clifd[t] \in Fds
        BY <1>11, <2>6, <3>2
      <4>2. PICK v \in Threads : Entry(v, clifd[t]) = t
        BY <2>6, <4>1 DEF SessionsOwned
      <4>3. clifd[t] # fd
        BY <1>4 DEF FdsOwned
      <4>4. Entry(v, clifd[t])' = t
        <5>1. \A g \in Fds : g = clifd[t] => Entry(v, g)' = t
          BY <1>10, <4>2, <4>3
        <5>2. QED BY <4>1, <5>1
      <4>5. QED BY <4>4
    <3>3. QED BY <3>1, <3>2
  <2>7. ASSUME NEW t \in live'
        PROVE  \/ clifd'[t] # None
               \/ t \in ToSet(sessionList')
               \/ \E v \in Threads : hand'[v] = t
    <3>1. CASE t = s
      BY <1>7, <1>11, <3>1
    <3>2. CASE t \in live /\ t # s
      BY <1>1, <1>11, <1>12, <3>2 DEF SessionsOwned
    <3>3. QED BY <1>12, <3>1, <3>2
  <2>8. QED BY <1>12, <2>1, <2>2, <2>3, <2>4, <2>5, <2>6, <2>7 DEF SessionsOwned
<1>20. FdsOwned'
  <2>1. fd \in open \ lost /\ \A t \in Sessions : clifd[t] # fd
    BY <1>4 DEF FdsOwned
  <2>2. (lost \subseteq open)'
    BY <1>1 DEF FdsOwned
  <2>3. \A t \in Sessions : clifd'[t] # None => clifd'[t] \in open' \ lost'
    BY <1>1, <1>11, <2>1 DEF FdsOwned
  <2>4. \A t, u \in Sessions : clifd'[t] = clifd'[u] => t = u \/ clifd'[t] = None
    BY <1>11, <2>1 DEF FdsOwned
  <2>5. ASSUME NEW v \in Threads, NEW g \in Fds, g \in ToSet(pipe'[v])
        PROVE  /\ g \in open' \ lost'
               /\ \A t \in Sessions : clifd'[t] # g
    <3>1. g \in ToSet(pipe[v]) /\ ~(v = w /\ g = fd)
      BY <1>6, <2>5
    <3>2. g # fd
      BY <1>4, <3>1 DEF FdsOwned
    <3>3. QED BY <1>1, <1>11, <3>1, <3>2 DEF FdsOwned
  <2>6. ASSUME NEW u \in Threads, NEW v \in Threads, NEW g \in Fds,
               g \in ToSet(pipe'[u]), g \in ToSet(pipe'[v])
        PROVE  u = v
    <3>1. g \in ToSet(pipe[u]) /\ g \in ToSet(pipe[v])
      BY <1>6, <2>6
    <3>2. QED BY <3>1 DEF FdsOwned
  <2>7. ASSUME NEW g \in open'
        PROVE  \/ g \in lost'
               \/ \E t \in Sessions : clifd'[t] = g
               \/ \E v \in Threads : g \in ToSet(pipe'[v])
    <3>1. CASE g = fd
      BY <1>11, <3>1
    <3>2. CASE g # fd
      <4>1. \/ g \in lost
            \/ \E t \in Sessions : clifd[t] = g
            \/ \E v \in Threads : g \in ToSet(pipe[v])
        BY <1>1 DEF FdsOwned
      <4>2. ASSUME NEW t \in Sessions, clifd[t] = g
            PROVE  clifd'[t] = g
        <5>1. g # None
          BY <1>1, NoneAssumption DEF TypeOK
        <5>2. QED BY <1>11, <1>13, <4>2, <5>1
      <4>3. ASSUME NEW v \in Threads, g \in ToSet(pipe[v])
            PROVE  g \in ToSet(pipe'[v])
        BY <1>6, <3>2, <4>3
      <4>4. QED BY <1>1, <4>1, <4>2, <4>3
    <3>3. QED BY <3>1, <3>2
  <2>8. QED BY <2>2, <2>3, <2>4, <2>5, <2>6, <2>7 DEF FdsOwned
<1>21. QED BY <1>14, <1>15, <1>16, <1>17, <1>18, <1>19, <1>20

-----------------------------------------------------------------------------
(* DestructResource moves a session from the entry of its descriptor to the*)
(* hand of its thread, and closes the descriptor.                          *)
LEMMA Released ==
    ASSUME TypeOK, SessionsOwned, FdsOwned,
           NEW w \in Threads, NEW fd \in Fds, NEW s \in Sessions,
           Entry(w, fd) = s, hand[w] = None, DestructResource(w, s),
           \A v \in Threads, g \in Fds :
              Entry(v, g)' = IF v = w /\ g = fd THEN None ELSE Entry(v, g),
           UNCHANGED << pipe, lost, live, sessionList >>
    PROVE  /\ SessionsOwned' /\ FdsOwned'
           /\ hand' \in [Threads -> Sessions \cup {None}]
           /\ clifd' \in [Sessions -> Fds \cup {None}] /\ open' \subseteq Fds
<1>1. fd # None /\ s # None
  BY NoneAssumption
<1>2. clifd[s] = fd /\ s \in live /\ fd \in open \ lost
  BY <1>1 DEF SessionsOwned, FdsOwned
<1>3. /\ hand' = [hand EXCEPT ![w] = s]
      /\ open' = open \ {fd}
      /\ clifd' = [clifd EXCEPT ![s] = None]
      /\ pipe' = pipe /\ lost' = lost /\ live' = live /\ sessionList' = sessionList
  BY <1>2 DEF DestructResource
<1>4. /\ hand' \in [Threads -> Sessions \cup {None}]
      /\ clifd' \in [Sessions -> Fds \cup {None}] /\ open' \subseteq Fds
      /\ \A v \in Threads : hand'[v] = IF v = w THEN s ELSE hand[v]
      /\ \A t \in Sessions : clifd'[t] = IF t = s THEN None ELSE clifd[t]
  BY <1>3 DEF TypeOK
<1>5. /\ s \notin ToSet(sessionList)
      /\ \A v \in Threads : hand[v] # s
  BY <1>1, <1>2 DEF SessionsOwned
<1>6. SessionsOwned'
  <2>1. ASSUME NEW v \in Threads, NEW g \in Fds, Entry(v, g)' # None
        PROVE  Entry(v, g)' \in live' /\ clifd'[Entry(v, g)'] = g
    <3>1. ~(v = w /\ g = fd) /\ Entry(v, g)' = Entry(v, g)
      BY <2>1
    <3>2. Entry(v, g) \in live /\ clifd[Entry(v, g)] = g
      BY <2>1, <3>1 DEF SessionsOwned
    <3>3. Entry(v, g) # s
      BY <1>1, <1>2, <3>1, <3>2 DEF SessionsOwned
    <3>4. Entry(v, g) \in Sessions
      BY <3>2 DEF TypeOK
    <3>5. QED BY <1>3, <1>4, <3>1, <3>2, <3>3, <3>4
  <2>2. ASSUME NEW u \in Threads, NEW v \in Threads, NEW g \in Fds,
               Entry(u, g)' = Entry(v, g)'
        PROVE  u = v \/ Entry(u, g)' = None
    BY <2>2 DEF SessionsOwned
  <2>3. ASSUME NEW v \in Threads, hand'[v] # None
        PROVE  /\ hand'[v] \in live'
               /\ clifd'[hand'[v]] = None
               /\ hand'[v] \notin ToSet(sessionList')
    <3>1. CASE v = w
      BY <1>2, <1>3, <1>4, <1>5, <3>1
    <3>2. CASE v # w
      BY <1>3, <1>4, <1>5, <2>3, <3>2 DEF SessionsOwned, TypeOK
    <3>3. QED BY <3>1, <3>2
  <2>4. \A u, v \in Threads : hand'[u] = hand'[v] => u = v \/ hand'[u] = None
    BY <1>4, <1>5 DEF SessionsOwned
  <2>5. \A t \in ToSet(sessionList') : t \in live' /\ clifd'[t] = None
    BY <1>3, <1>4, <1>5 DEF SessionsOwned, TypeOK
  <2>6. ASSUME NEW t \in Sessions, clifd'[t] # None
        PROVE  \E v \in Threads : Entry(v, clifd[t])' = t
    <3>1. t # s /\ clifd'[t] = clifd[t] /\ clifd[t] \in Fds
      BY <1>4, <2>6
    <3>2. PICK v \in Threads : Entry(v, clifd[t]) = t
      BY <2>6, <3>1 DEF SessionsOwned
    <3>3. \A g \in Fds : g = clifd[t] => Entry(v, g)' = t
      BY <3>1, <3>2
    <3>4. QED BY <3>1, <3>3
  <2>7. ASSUME NEW t \in live'
        PROVE  \/ clifd'[t] # None
               \/ t \in ToSet(sessionList')
               \/ \E v \in Threads : hand'[v] = t
    <3>1. CASE t = s
      BY <1>4, <3>1
    <3>2. CASE t # s
      <4>1. t \in Sessions /\ clifd'[t] = clifd[t]
        BY <1>3, <1>4, <3>2 DEF TypeOK
      <4>2. ASSUME NEW v \in Threads, hand[v] = t PROVE hand'[v] = t
        BY <1>4, <4>1, <4>2, NoneAssumption
      <4>3. \/ clifd[t] # None
            \/ t \in ToSet(sessionList)
            \/ \E v \in Threads : hand[v] = t
        BY <1>3 DEF SessionsOwned
      <4>4. QED BY <1>3, <4>1, <4>2, <4>3
    <3>3. QED BY <3>1, <3>2
  <2>8. Distinct(sessionList')
    BY <1>3 DEF SessionsOwned
  <2>9. QED BY <2>1, <2>2, <2>3, <2>4, <2>5, <2>6, <2>7, <2>8 DEF SessionsOwned
<1>7. FdsOwned'
  <2>1. (lost \subseteq open)'
    BY <1>2, <1>3 DEF FdsOwned
  <2>2. \A t \in Sessions : t # s => clifd[t] # fd
    BY <1>1, <1>2 DEF FdsOwned
  <2>3. \A t \in Sessions : clifd'[t] # None => clifd'[t] \in open' \ lost'
    BY <1>3, <1>4, <2>2 DEF FdsOwned
  <2>4. \A t, u \in Sessions : clifd'[t] = clifd'[u] => t = u \/ clifd'[t] = None
    BY <1>4 DEF FdsOwned
  <2>5. ASSUME NEW v \in Threads, NEW g \in Fds, g \in ToSet(pipe'[v])
        PROVE  /\ g \in open' \ lost'
               /\ \A t \in Sessions : clifd'[t] # g
    <3>1. g \in open \ lost /\ \A t \in Sessions : clifd[t] # g
      BY <1>3, <2>5 DEF FdsOwned
    <3>2. g # None
      BY NoneAssumption
    <3>3. QED BY <1>2, <1>3, <1>4, <3>1, <3>2
  <2>6. \A u, v \in Threads, g \in Fds :
           g \in ToSet(pipe'[u]) /\ g \in ToSet(pipe'[v]) => u = v
    BY <1>3 DEF FdsOwned
  <2>7. ASSUME NEW g \in open'
        PROVE  \/ g \in lost'
               \/ \E t \in Sessions : clifd'[t] = g
               \/ \E v \in Threads : g \in ToSet(pipe'[v])
    <3>1. g \in open /\ g # fd
      BY <1>3
    <3>2. QED BY <1>2, <1>3, <1>4, <3>1 DEF FdsOwned
  <2>8. QED BY <2>1, <2>3, <2>4, <2>5, <2>6, <2>7 DEF FdsOwned
<1>8. QED BY <1>4, <1>6, <1>7

(* A connection ends.                                                      *)
LEMMA ClosingInv ==
    ASSUME IInv, NEW w \in Threads, NEW fd \in Fds, ClosingClientCon(w, fd)
    PROVE  IInv'
<1> USE DEF IInv
<1>1. /\ wstate[w] = "running" /\ hand[w] = None /\ fdSessionMap[w][fd] # None
      /\ fdSessionMap' = [fdSessionMap EXCEPT ![w][fd] = None]
      /\ DestructResource(w, fdSessionMap[w][fd])
      /\ UNCHANGED << phase, cursor, lastSelectIndex, wstate, pipe, iter,
                      sessionList, live, lost >>
  BY DEF ClosingClientCon
<1>2. PICK s \in Sessions : s = fdSessionMap[w][fd]
  BY <1>1 DEF TypeOK
<1>3. iter[w] = None /\ fd # None
  BY <1>1, NoneAssumption DEF IdleThreadsHoldNothing
<1>4. Entry(w, fd) = s
  BY <1>2, <1>3 DEF Entry
<1>5. /\ fdSessionMap' \in [Threads -> [Fds -> Sessions \cup {None}]]
      /\ \A v \in Threads, g \in Fds :
            fdSessionMap'[v][g] = IF v = w /\ g = fd THEN None ELSE fdSessionMap[v][g]
  BY <1>1 DEF TypeOK
<1>6. \A v \in Threads, g \in Fds :
            Entry(v, g)' = IF v = w /\ g = fd THEN None ELSE Entry(v, g)
  BY <1>1, <1>5 DEF Entry
<1>7. /\ SessionsOwned' /\ FdsOwned'
      /\ hand' \in [Threads -> Sessions \cup {None}]
      /\ clifd' \in [Sessions -> Fds \cup {None}] /\ open' \subseteq Fds
  BY <1>1, <1>2, <1>4, <1>6, Released
<1>8. TypeOK'
  BY <1>1, <1>5, <1>7 DEF TypeOK
<1>9. StoppedInOrder' /\ QuitIsLast' /\ PoolBounded'
  BY <1>1, Frames
<1>10. IdleThreadsHoldNothing'
  <2>1. ASSUME NEW v \in Threads
        PROVE  /\ wstate'[v] \notin {"running", "draining"} =>
                     hand'[v] = None /\ \A g \in Fds : fdSessionMap'[v][g] = None
               /\ iter'[v] # None =>
                     wstate'[v] = "draining" /\ fdSessionMap'[v][iter'[v]] # None
    <3>1. CASE v = w
      BY <1>1, <1>3, <3>1
    <3>2. CASE v # w
      <4>1. hand'[v] = hand[v]
        BY <1>1, <3>2 DEF DestructResource, TypeOK
      <4>2. QED BY <1>1, <1>5, <3>2, <4>1 DEF IdleThreadsHoldNothing, TypeOK
    <3>3. QED BY <3>1, <3>2
  <2>2. QED BY <2>1 DEF IdleThreadsHoldNothing
<1>11. QED BY <1>7, <1>8, <1>9, <1>10

-----------------------------------------------------------------------------
(* A session goes back to the pool, and the pool may lose its last ones.   *)
LEMMA RecycleInv ==
    ASSUME IInv, NEW w \in Threads, RecycleSession(w)
    PROVE  IInv'
<1> USE DEF IInv
<1> DEFINE list == << hand[w] >> \o sessionList
<1>1. /\ hand[w] # None
      /\ sessionList' = Trimmed(list)
      /\ live' = live \ (ToSet(list) \ ToSet(sessionList'))
      /\ hand' = [hand EXCEPT ![w] = None]
      /\ UNCHANGED << phase, cursor, lastSelectIndex, wstate, pipe, fdSessionMap,
                      iter, clifd, open, lost >>
  BY DEF RecycleSession
<1>2. PICK s \in Sessions : s = hand[w]
  BY <1>1 DEF TypeOK
<1>3. /\ s # None /\ s \in live /\ clifd[s] = None /\ s \notin ToSet(sessionList)
      /\ sessionList \in Seq(Sessions) /\ Distinct(sessionList)
      /\ Len(sessionList) < 2 * Step /\ Len(sessionList) \in Nat
  BY <1>1, <1>2 DEF SessionsOwned, TypeOK, PoolBounded
<1>4. /\ list \in Seq(Sessions) /\ Len(list) = Len(sessionList) + 1
      /\ Distinct(list) /\ ToSet(list) = ToSet(sessionList) \cup {s}
  BY <1>2, <1>3, PushDistinct
<1> HIDE DEF list
<1>5. Len(list) <= 2 * Step
  BY <1>3, <1>4, StepAssumption
<1>6. /\ sessionList' \in Seq(Sessions) /\ Len(sessionList') < 2 * Step
      /\ Distinct(sessionList')
      /\ ToSet(sessionList') \subseteq ToSet(sessionList) \cup {s}
  BY <1>1, <1>4, <1>5, TrimmedDistinct
<1>7. /\ live' \subseteq live
      /\ \A t \in live : t \in live' \/ t \in ToSet(sessionList) \cup {s}
      /\ \A t \in live' : t \in ToSet(sessionList) \cup {s} => t \in ToSet(sessionList')
      /\ \A t \in ToSet(sessionList') : t \in live'
      /\ \A t \in live : t \notin ToSet(sessionList) \cup {s} => t \in live'
  BY <1>1, <1>3, <1>4, <1>6 DEF SessionsOwned
<1>8. /\ hand' \in [Threads -> Sessions \cup {None}]
      /\ \A v \in Threads : hand'[v] = IF v = w THEN None ELSE hand[v]
  BY <1>1 DEF TypeOK
<1>9. TypeOK'
  BY <1>1, <1>6, <1>7, <1>8 DEF TypeOK
<1>10. IdleThreadsHoldNothing'
  BY <1>1, <1>8 DEF IdleThreadsHoldNothing
<1>11. StoppedInOrder' /\ QuitIsLast' /\ FdsOwned'
  BY <1>1, Frames
<1>12. PoolBounded'
  BY <1>6 DEF PoolBounded
<1>13. SessionsOwned'
  <2>1. \A v \in Threads, g \in Fds : Entry(v, g)' = Entry(v, g)
    BY <1>1 DEF Entry
  <2>2. ASSUME NEW v \in Threads, NEW g \in Fds, Entry(v, g)' # None
        PROVE  Entry(v, g)' \in live' /\ clifd'[Entry(v, g)'] = g
    <3>1. Entry(v, g) \in live /\ clifd[Entry(v, g)] = g
      BY <2>1, <2>2 DEF SessionsOwned
    <3>2. Entry(v, g) \notin ToSet(sessionList) \cup {s}
      BY <1>3, <3>1, NoneAssumption DEF SessionsOwned
    <3>3. QED BY <1>1, <1>7, <2>1, <3>1, <3>2
  <2>3. \A u, v \in Threads, g \in Fds :
           Entry(u, g)' = Entry(v, g)' => u = v \/ Entry(u, g)' = None
    BY <2>1 DEF SessionsOwned
  <2>4. ASSUME NEW v \in Threads, hand'[v] # None
        PROVE  /\ hand'[v] \in live'
               /\ clifd'[hand'[v]] = None
               /\ hand'[v] \notin ToSet(sessionList')
    <3>1. v # w /\ hand'[v] = hand[v]
      BY <1>8, <2>4
    <3>2. /\ hand[v] \in live /\ clifd[hand[v]] = None
          /\ hand[v] \notin ToSet(sessionList)
      BY <2>4, <3>1 DEF SessionsOwned
    <3>3. hand[v] # s
      BY <1>2, <1>3, <3>1 DEF SessionsOwned
    <3>4. QED BY <1>1, <1>6, <1>7, <3>1, <3>2, <3>3
  <2>5. \A u, v \in Threads : hand'[u] = hand'[v] => u = v \/ hand'[u] = None
    BY <1>8 DEF SessionsOwned
  <2>6. \A t \in ToSet(sessionList') : t \in live' /\ clifd'[t] = None
    BY <1>1, <1>3, <1>6, <1>7 DEF SessionsOwned
  <2>7. ASSUME NEW t \in Sessions, clifd'[t] # None
        PROVE  \E v \in Threads : Entry(v, clifd[t])' = t
    <3>1. clifd'[t] = clifd[t] /\ clifd[t] \in Fds
      BY <1>1, <2>7 DEF TypeOK
    <3>2. PICK v \in Threads : Entry(v, clifd[t]) = t
      BY <2>7, <3>1 DEF SessionsOwned
    <3>3. \A g \in Fds : g = clifd[t] => Entry(v, g)' = t
      BY <2>1, <3>2
    <3>4. QED BY <3>1, <3>3
  <2>8. ASSUME NEW t \in live'
        PROVE  \/ clifd'[t] # None
               \/ t \in ToSet(sessionList')
               \/ \E v \in Threads : hand'[v] = t
    <3>1. CASE t \in ToSet(sessionList) \cup {s}
      BY <1>7, <3>1
    <3>2. CASE t \notin ToSet(sessionList) \cup {s}
      <4>1. clifd[t] # None \/ \E v \in Threads : hand[v] = t
        BY <1>7, <3>2 DEF SessionsOwned
      <4>2. ASSUME NEW v \in Threads, hand[v] = t PROVE hand'[v] = t
        BY <1>2, <1>8, <3>2, <4>2
      <4>3. QED BY <1>1, <4>1, <4>2
    <3>3. QED BY <3>1, <3>2
  <2>9. QED BY <1>6, <2>2, <2>3, <2>4, <2>5, <2>6, <2>7, <2>8 DEF SessionsOwned
<1>14. QED BY <1>9, <1>10, <1>11, <1>12, <1>13

(* A thread reads the command to quit: it was the last message.            *)
LEMMA QuitInv ==
    ASSUME IInv, NEW w \in Threads, NotifyQuit(w)
    PROVE  IInv'
<1> USE DEF IInv
<1>1. /\ wstate[w] = "running" /\ pipe[w] # << >> /\ Head(pipe[w]) = QUIT
      /\ pipe' = [pipe EXCEPT ![w] = Tail(@)]
      /\ wstate' = [wstate EXCEPT ![w] = "draining"]
      /\ UNCHANGED << phase, cursor, lastSelectIndex, fdSessionMap, hand, iter,
                      sessionList, live, clifd, open, lost >>
  BY DEF NotifyQuit
<1>2. pipe[w] \in Seq(Fds \cup {QUIT}) /\ Distinct(pipe[w])
  BY DEF TypeOK, QuitIsLast
<1>3. /\ QUIT \in ToSet(pipe[w]) /\ pipe[w][1] = QUIT /\ Len(pipe[w]) > 0
      /\ Tail(pipe[w]) \in Seq(Fds \cup {QUIT}) /\ Len(Tail(pipe[w])) = Len(pipe[w]) - 1
      /\ ToSet(Tail(pipe[w])) = ToSet(pipe[w]) \ {QUIT}
  BY <1>1, <1>2, TailDistinct
<1>4. Told(w) /\ pipe[w][Len(pipe[w])] = QUIT
  BY <1>3 DEF QuitIsLast
<1>5. Len(pipe[w]) = 1
  <2>1. Len(pipe[w]) \in Nat /\ 1 \in 1 .. Len(pipe[w]) /\ Len(pipe[w]) \in 1 .. Len(pipe[w])
    BY <1>2, <1>3
  <2>2. QED BY <1>2, <1>3, <1>4, <2>1 DEF Distinct
<1>6. Tail(pipe[w]) = << >>
  <2>1. Len(Tail(pipe[w])) = 0
    BY <1>3, <1>5
  <2>2. \A q \in Seq(Fds \cup {QUIT}) : Len(q) = 0 => q = << >>
    OBVIOUS
  <2>3. QED BY <1>3, <2>1, <2>2
<1>7. /\ \A v \in Threads : pipe'[v] = IF v = w THEN << >> ELSE pipe[v]
      /\ \A v \in Threads : wstate'[v] = IF v = w THEN "draining" ELSE wstate[v]
  BY <1>1, <1>6 DEF TypeOK
<1>8. TypeOK'
  <2>1. pipe' \in [Threads -> Seq(Fds \cup {QUIT})]
    BY <1>1, <1>3 DEF TypeOK
  <2>2. \A v \in Threads : Len(pipe'[v]) <= PipeCap
    BY <1>7, ThreadAssumption DEF TypeOK
  <2>3. QED BY <1>1, <2>1, <2>2 DEF TypeOK
<1>9. IdleThreadsHoldNothing'
  BY <1>1, <1>7 DEF IdleThreadsHoldNothing
<1>10. StoppedInOrder'
  BY <1>1, <1>7 DEF StoppedInOrder, TypeOK
<1>11. QuitIsLast'
  BY <1>1, <1>4, <1>7, EmptySequence DEF QuitIsLast, Told
<1>12. SessionsOwned' /\ PoolBounded'
  BY <1>1, Frames
<1>13. FdsOwned'
  <2>1. \A v \in Threads, g \in Fds : g \in ToSet(pipe'[v]) <=> g \in ToSet(pipe[v])
    <3>1. \A g \in Fds : g \notin ToSet(pipe[w])
      BY <1>3, <1>6, EmptySequence, NoneAssumption
    <3>2. QED BY <1>7, <3>1, EmptySequence
  <2>2. open' \subseteq Fds
    BY <1>8 DEF TypeOK
  <2>3. QED BY <1>1, <2>1, <2>2 DEF FdsOwned
<1>14. QED BY <1>8, <1>9, <1>10, <1>11, <1>12, <1>13

(* A stopping thread gives its sessions back one by one.                   *)
LEMMA DrainInv ==
    ASSUME IInv, NEW w \in Threads, DestrotiedSessions(w)
    PROVE  IInv'
<1> USE DEF IInv
<1>1. /\ wstate[w] = "draining" /\ hand[w] = None
      /\ UNCHANGED << phase, cursor, lastSelectIndex, pipe, sessionList, live, lost >>
  BY DEF DestrotiedSessions
<1>2. CASE \E fd \in Fds :
              /\ iter[w] = None
              /\ fdSessionMap[w][fd] # None
              /\ iter' = [iter EXCEPT ![w] = fd]
              /\ DestructResource(w, fdSessionMap[w][fd])
              /\ UNCHANGED << wstate, fdSessionMap >>
  <2>1. PICK fd \in Fds :
           /\ iter[w] = None
           /\ fdSessionMap[w][fd] # None
           /\ iter' = [iter EXCEPT ![w] = fd]
           /\ DestructResource(w, fdSessionMap[w][fd])
           /\ UNCHANGED << wstate, fdSessionMap >>
    BY <1>2
  <2>2. PICK s \in Sessions : s = fdSessionMap[w][fd]
    BY <2>1 DEF TypeOK
  <2>3. fd # None /\ Entry(w, fd) = s
    BY <2>1, <2>2, NoneAssumption DEF Entry
  <2>4. /\ iter' \in [Threads -> Fds \cup {None}]
        /\ \A v \in Threads : iter'[v] = IF v = w THEN fd ELSE iter[v]
    BY <2>1 DEF TypeOK
  <2>5. \A v \in Threads, g \in Fds :
            Entry(v, g)' = IF v = w /\ g = fd THEN None ELSE Entry(v, g)
    BY <2>1, <2>4, NoneAssumption DEF Entry
  <2>6. /\ SessionsOwned' /\ FdsOwned'
        /\ hand' \in [Threads -> Sessions \cup {None}]
        /\ clifd' \in [Sessions -> Fds \cup {None}] /\ open' \subseteq Fds
    BY <1>1, <2>1, <2>2, <2>3, <2>5, Released
  <2>7. TypeOK'
    BY <1>1, <2>1, <2>4, <2>6 DEF TypeOK
  <2>8. StoppedInOrder' /\ QuitIsLast' /\ PoolBounded'
    BY <1>1, <2>1, Frames
  <2>9. IdleThreadsHoldNothing'
    <3>1. \A v \in Threads : v # w => hand'[v] = hand[v]
      BY <2>1 DEF DestructResource, TypeOK
    <3>2. QED BY <1>1, <2>1, <2>4, <3>1 DEF IdleThreadsHoldNothing
  <2>10. QED BY <2>6, <2>7, <2>8, <2>9
<1>3. CASE /\ iter[w] # None
           /\ fdSessionMap' = [fdSessionMap EXCEPT ![w][iter[w]] = None]
           /\ iter' = [iter EXCEPT ![w] = None]
           /\ UNCHANGED << wstate, hand, clifd, open >>
  <2>1. PICK fd \in Fds : fd = iter[w]
    BY <1>3 DEF TypeOK
  <2>2. fd # None
    BY NoneAssumption
  <2>3. /\ iter' \in [Threads -> Fds \cup {None}]
        /\ \A v \in Threads : iter'[v] = IF v = w THEN None ELSE iter[v]
    BY <1>3 DEF TypeOK
  <2>4. /\ fdSessionMap' \in [Threads -> [Fds -> Sessions \cup {None}]]
        /\ \A v \in Threads, g \in Fds :
            fdSessionMap'[v][g] = IF v = w /\ g = fd THEN None ELSE fdSessionMap[v][g]
    BY <1>3, <2>1 DEF TypeOK
  <2>5. \A v \in Threads, g \in Fds : Entry(v, g)' = Entry(v, g)
    BY <2>1, <2>2, <2>3, <2>4, NoneAssumption DEF Entry
  <2>6. SessionsOwned'
    <3>1. /\ hand' = hand /\ live' = live /\ clifd' = clifd /\ sessionList' = sessionList
      BY <1>1, <1>3
    <3>2. ASSUME NEW t \in Sessions, clifd'[t] # None
          PROVE  \E v \in Threads : Entry(v, clifd[t])' = t
      <4>1. clifd[t] \in Fds
        BY <3>1, <3>2 DEF TypeOK
      <4>2. PICK v \in Threads : Entry(v, clifd[t]) = t
        BY <3>1, <3>2 DEF SessionsOwned
      <4>3. \A g \in Fds : g = clifd[t] => Entry(v, g)' = t
        BY <2>5, <4>2
      <4>4. QED BY <3>1, <4>1, <4>3
    <3>3. /\ \A v \in Threads, g \in Fds :
                Entry(v, g)' # None => Entry(v, g)' \in live' /\ clifd'[Entry(v, g)'] = g
          /\ \A u, v \in Threads, g \in Fds :
                Entry(u, g)' = Entry(v, g)' => u = v \/ Entry(u, g)' = None
      BY <2>5, <3>1 DEF SessionsOwned
    <3>4. QED BY <3>1, <3>2, <3>3 DEF SessionsOwned
  <2>7. FdsOwned' /\ StoppedInOrder' /\ QuitIsLast' /\ PoolBounded'
    BY <1>1, <1>3, Frames
  <2>8. TypeOK'
    BY <1>1, <1>3, <2>3, <2>4 DEF TypeOK
  <2>9. IdleThreadsHoldNothing'
    <3>1. ASSUME NEW v \in Threads
          PROVE  /\ wstate'[v] \notin {"running", "draining"} =>
                       hand'[v] = None /\ \A g \in Fds : fdSessionMap'[v][g] = None
                 /\ iter'[v] # None =>
                       wstate'[v] = "draining" /\ fdSessionMap'[v][iter'[v]] # None
      <4>1. CASE v = w
        BY <1>1, <1>3, <2>3, <4>1
      <4>2. CASE v # w
        BY <1>3, <2>3, <2>4, <4>2 DEF IdleThreadsHoldNothing, TypeOK
      <4>3. QED BY <4>1, <4>2
    <3>2. QED BY <3>1 DEF IdleThreadsHoldNothing
  <2>10. QED BY <2>6, <2>7, <2>8, <2>9
<1>4. CASE /\ \A fd \in Fds : fdSessionMap[w][fd] = None
           /\ wstate' = [wstate EXCEPT ![w] = "stopped"]
           /\ UNCHANGED << fdSessionMap, hand, iter, clifd, open >>
  <2>1. \A v \in Threads : wstate'[v] = IF v = w THEN "stopped" ELSE wstate[v]
    BY <1>4 DEF TypeOK
  <2>2. iter[w] = None
    BY <1>4 DEF IdleThreadsHoldNothing, TypeOK
  <2>3. TypeOK'
    BY <1>1, <1>4 DEF TypeOK
  <2>4. IdleThreadsHoldNothing'
    BY <1>1, <1>4, <2>1, <2>2 DEF IdleThreadsHoldNothing
  <2>5. StoppedInOrder'
    BY <1>1, <1>4, <2>1 DEF StoppedInOrder, TypeOK
  <2>6. QuitIsLast'
    BY <1>1, <2>1 DEF QuitIsLast, Told
  <2>7. SessionsOwned' /\ FdsOwned' /\ PoolBounded'
    BY <1>1, <1>4, Frames
  <2>8. QED BY <2>3, <2>4, <2>5, <2>6, <2>7
<1>5. QED BY <1>2, <1>3, <1>4 DEF DestrotiedSessions

-----------------------------------------------------------------------------
(* The main thread stops serving and tells a thread to quit.               *)
LEMMA SignalInv ==
    ASSUME IInv, SignalHandle \/ NotifyThreadQuit
    PROVE  IInv'
<1> USE DEF IInv
<1>1. CASE SignalHandle
  <2>1. /\ phase = "serving" /\ phase' = "notify"
        /\ UNCHANGED << cursor, lastSelectIndex, wstate, pipe, fdSessionMap, hand,
                        iter, sessionList, live, clifd, open, lost >>
    BY <1>1 DEF SignalHandle
  <2>2. TypeOK'
    BY <2>1 DEF TypeOK
  <2>3. IdleThreadsHoldNothing' /\ SessionsOwned' /\ FdsOwned' /\ PoolBounded'
    BY <2>1, Frames
  <2>4. StoppedInOrder'
    BY <2>1 DEF StoppedInOrder
  <2>5. QuitIsLast'
    BY <2>1 DEF QuitIsLast, Told
  <2>6. QED BY <2>2, <2>3, <2>4, <2>5
<1>2. CASE NotifyThreadQuit
  <2> DEFINE w == cursor
  <2>1. /\ phase = "notify" /\ phase' = "join"
        /\ \/ pipe' = pipe
           \/ /\ Len(pipe[w]) < PipeCap
              /\ pipe' = [pipe EXCEPT ![w] = Append(@, QUIT)]
        /\ UNCHANGED << cursor, lastSelectIndex, wstate, fdSessionMap, hand, iter,
                        sessionList, live, clifd, open, lost >>
    BY <1>2 DEF NotifyThreadQuit
  <2>2. IdleThreadsHoldNothing' /\ SessionsOwned' /\ PoolBounded'
    BY <2>1, Frames
  <2>3. StoppedInOrder'
    BY <2>1 DEF StoppedInOrder
  <2>4. \A v \in Threads : /\ Told(v) => Told(v)'
                           /\ v = w => Told(v)' /\ ~Told(v)
    BY <2>1 DEF Told, TypeOK, Threads
  <2>5. CASE pipe' = pipe
    <3>1. TypeOK'
      BY <2>1, <2>5 DEF TypeOK
    <3>2. QuitIsLast'
      BY <2>1, <2>4, <2>5 DEF QuitIsLast
    <3>3. FdsOwned'
      BY <2>1, <2>5, Frames
    <3>4. QED BY <2>2, <2>3, <3>1, <3>2, <3>3
  <2>6. CASE Len(pipe[w]) < PipeCap /\ pipe' = [pipe EXCEPT ![w] = Append(@, QUIT)]
    <3>1. /\ w \in Threads /\ pipe[w] \in Seq(Fds \cup {QUIT}) /\ Distinct(pipe[w])
          /\ QUIT \notin ToSet(pipe[w]) /\ wstate[w] \notin {"draining", "stopped"}
      BY <2>4 DEF TypeOK, QuitIsLast
    <3> HIDE DEF w
    <3>2. /\ Append(pipe[w], QUIT) \in Seq(Fds \cup {QUIT})
          /\ Len(Append(pipe[w], QUIT)) = Len(pipe[w]) + 1
          /\ Append(pipe[w], QUIT)[Len(Append(pipe[w], QUIT))] = QUIT
          /\ Distinct(Append(pipe[w], QUIT))
          /\ ToSet(Append(pipe[w], QUIT)) = ToSet(pipe[w]) \cup {QUIT}
      BY <3>1, AppendDistinct
    <3>3. \A v \in Threads : pipe'[v] = IF v = w THEN Append(pipe[w], QUIT) ELSE pipe[v]
      BY <2>6, <3>1 DEF TypeOK
    <3>4. TypeOK'
      <4>1. pipe' \in [Threads -> Seq(Fds \cup {QUIT})]
        BY <2>6, <3>2 DEF TypeOK
      <4>2. \A v \in Threads : Len(pipe'[v]) <= PipeCap
        <5>1. Len(Append(pipe[w], QUIT)) <= PipeCap
          BY <2>6, <3>1, <3>2, ThreadAssumption
        <5>2. QED BY <3>3, <5>1 DEF TypeOK
      <4>3. QED BY <2>1, <4>1, <4>2 DEF TypeOK
    <3>5. QuitIsLast'
      <4>1. ASSUME NEW v \in Threads
            PROVE  /\ Distinct(pipe'[v])
                   /\ QUIT \in ToSet(pipe'[v]) => Told(v)' /\ pipe'[v][Len(pipe'[v])] = QUIT
                   /\ wstate'[v] \in {"draining", "stopped"} => Told(v)' /\ pipe'[v] = << >>
        <5>1. CASE v = w
          BY <2>1, <2>4, <3>1, <3>2, <3>3, <5>1
        <5>2. CASE v # w
          BY <2>1, <2>4, <3>3, <5>2 DEF QuitIsLast
        <5>3. QED BY <5>1, <5>2
      <4>2. QED BY <4>1 DEF QuitIsLast
    <3>6. FdsOwned'
      <4>1. \A v \in Threads, g \in Fds : g \in ToSet(pipe'[v]) <=> g \in ToSet(pipe[v])
        BY <3>2, <3>3, NoneAssumption
      <4>2. open' \subseteq Fds
        BY <3>4 DEF TypeOK
      <4>3. QED BY <2>1, <4>1, <4>2 DEF FdsOwned
    <3>7. QED BY <2>2, <2>3, <3>4, <3>5, <3>6
  <2>7. QED BY <2>1, <2>5, <2>6
<1>3. QED BY <1>1, <1>2

(* A thread has ended; after the last one the pool is emptied.             *)
LEMMA JoinInv ==
    ASSUME IInv, JoinThread
    PROVE  IInv'
<1> USE DEF IInv
<1>1. /\ phase = "join" /\ wstate[cursor] \in {"stopped", "dead"}
      /\ UNCHANGED << lastSelectIndex, wstate, pipe, fdSessionMap, hand, iter, clifd,
                      open, lost >>
  BY DEF JoinThread
<1>2. IdleThreadsHoldNothing' /\ FdsOwned'
  BY <1>1, Frames
<1>3. cursor \in Nat /\ cursor <= NumThreads - 1 /\ NumThreads \in Nat
  BY ThreadAssumption DEF TypeOK, Threads
<1>4. CASE /\ cursor + 1 < NumThreads
           /\ cursor' = cursor + 1 /\ phase' = "notify" /\ UNCHANGED << sessionList, live >>
  <2>1. \A v \in Threads : Told(v) <=> Told(v)'
    BY <1>1, <1>3, <1>4 DEF Told, Threads
  <2>2. TypeOK'
    <3>1. cursor' \in Threads
      BY <1>3, <1>4 DEF Threads
    <3>2. QED BY <1>1, <1>4, <3>1 DEF TypeOK
  <2>3. StoppedInOrder'
    BY <1>1, <1>3, <1>4 DEF StoppedInOrder, Threads
  <2>4. QuitIsLast'
    BY <1>1, <2>1 DEF QuitIsLast
  <2>5. SessionsOwned' /\ PoolBounded'
    BY <1>1, <1>4, Frames
  <2>6. QED BY <1>2, <2>2, <2>3, <2>4, <2>5
<1>5. CASE /\ ~(cursor + 1 < NumThreads)
           /\ phase' = "done" /\ live' = live \ ToSet(sessionList) /\ sessionList' = << >>
           /\ UNCHANGED cursor
  <2>1. \A v \in Threads : Told(v) <=> Told(v)'
    BY <1>1, <1>5 DEF Told
  <2>2. TypeOK'
    BY <1>1, <1>5 DEF TypeOK
  <2>3. StoppedInOrder'
    BY <1>1, <1>3, <1>5 DEF StoppedInOrder
  <2>4. QuitIsLast'
    BY <1>1, <2>1 DEF QuitIsLast
  <2>5. PoolBounded'
    BY <1>5, StepAssumption DEF PoolBounded
  <2>6. SessionsOwned'
    <3>1. ToSet(sessionList') = {} /\ Distinct(sessionList')
      BY <1>5, EmptySequence
    <3>2. \A v \in Threads, g \in Fds : Entry(v, g)' = Entry(v, g)
      BY <1>1 DEF Entry
    <3>3. ASSUME NEW t \in Sessions, clifd'[t] # None
          PROVE  \E v \in Threads : Entry(v, clifd[t])' = t
      <4>1. clifd' = clifd /\ clifd[t] \in Fds
        BY <1>1, <3>3 DEF TypeOK
      <4>2. PICK v \in Threads : Entry(v, clifd[t]) = t
        BY <3>3, <4>1 DEF SessionsOwned
      <4>3. \A g \in Fds : g = clifd[t] => Entry(v, g)' = t
        BY <3>2, <4>2
      <4>4. QED BY <4>1, <4>3
    <3>4. ASSUME NEW v \in Threads, NEW g \in Fds, Entry(v, g)' # None
          PROVE  Entry(v, g)' \in live' /\ clifd'[Entry(v, g)'] = g
      BY <1>1, <1>5, <3>2, <3>4, NoneAssumption DEF SessionsOwned
    <3>5. \A u, v \in Threads, g \in Fds :
             Entry(u, g)' = Entry(v, g)' => u = v \/ Entry(u, g)' = None
      BY <3>2 DEF SessionsOwned
    <3>6. \A v \in Threads :
             hand'[v] # None => /\ hand'[v] \in live'
                                /\ clifd'[hand'[v]] = None
                                /\ hand'[v] \notin ToSet(sessionList')
      BY <1>1, <1>5, <3>1 DEF SessionsOwned
    <3>7. \A u, v \in Threads : hand'[u] = hand'[v] => u = v \/ hand'[u] = None
      BY <1>1 DEF SessionsOwned
    <3>8. \A t \in live' : \/ clifd'[t] # None
                           \/ t \in ToSet(sessionList')
                           \/ \E v \in Threads : hand'[v] = t
      BY <1>1, <1>5 DEF SessionsOwned
    <3>9. QED BY <3>1, <3>3, <3>4, <3>5, <3>6, <3>7, <3>8 DEF SessionsOwned
  <2>7. QED BY <1>2, <2>2, <2>3, <2>4, <2>5, <2>6
<1>6. QED BY <1>4, <1>5 DEF JoinThread

-----------------------------------------------------------------------------
(* The inductive invariant always holds.                                   *)
THEOREM Invariance == Spec => []IInv
<1>1. ASSUME IInv, [Next]_vars PROVE IInv'
  <2>1. ASSUME NEW fd \in Fds, AcceptHandler(fd) PROVE IInv'
    BY <1>1, <2>1, AcceptInv
  <2>2. CASE SignalHandle \/ NotifyThreadQuit
    BY <1>1, <2>2, SignalInv
  <2>3. CASE JoinThread
    BY <1>1, <2>3, JoinInv
  <2>4. ASSUME NEW w \in Threads, WorkStep(w) PROVE IInv'
    <3>1. CASE SetupThread(w) \/ \E ok \in BOOLEAN : IniSQLConnection(w, ok)
      BY <1>1, <3>1, StartInv
    <3>2. CASE NotifyReceivedProcess(w)
      BY <1>1, <3>2, NotifyInv
    <3>3. CASE RecycleSession(w)
      BY <1>1, <3>3, RecycleInv
    <3>4. CASE NotifyQuit(w)
      BY <1>1, <3>4, QuitInv
    <3>5. CASE DestrotiedSessions(w)
      BY <1>1, <3>5, DrainInv
    <3>6. QED BY <2>4, <3>1, <3>2, <3>3, <3>4, <3>5 DEF WorkStep
  <2>5. ASSUME NEW w \in Threads, NEW fd \in Fds, ClosingClientCon(w, fd) PROVE IInv'
    BY <1>1, <2>5, ClosingInv
  <2>6. CASE UNCHANGED vars
    <3>1. TypeOK'
      BY <1>1, <2>6 DEF IInv, TypeOK, vars
    <3>2. /\ IdleThreadsHoldNothing' /\ StoppedInOrder' /\ QuitIsLast'
          /\ SessionsOwned' /\ FdsOwned' /\ PoolBounded'
      BY <1>1, <2>6, Frames DEF IInv, vars
    <3>3. QED BY <3>1, <3>2 DEF IInv
  <2>7. QED BY <1>1, <2>1, <2>2, <2>3, <2>4, <2>5, <2>6 DEF Next
<1>2. QED BY <1>1, InitInv, PTL DEF Spec

(* Types, the length of the pipes included.                                *)
THEOREM TypeCorrect == Spec => []TypeOK
<1>1. IInv => TypeOK
  BY DEF IInv
<1>2. QED BY <1>1, Invariance, PTL

(* RecycleSession and DestrorySessionsFromPool: the pool stays below twice *)
(* the step.                                                               *)
THEOREM PoolCorrect == Spec => []PoolBounded
<1>1. IInv => PoolBounded
  BY DEF IInv
<1>2. QED BY <1>1, Invariance, PTL

(* A set with exactly one element, and one with none.                      *)
LEMMA OneOrNone ==
    /\ Cardinality({}) = 0
    /\ \A S, x : (x \in S /\ \A y \in S : y = x) => Cardinality(S) = 1
<1>1. \A S, x : (x \in S /\ \A y \in S : y = x) => S = {x}
  OBVIOUS
<1>2. QED BY <1>1, FS_EmptySet, FS_Singleton

(* GetOneSessionFromPool, DestructResource, RecycleSession, and the        *)
(* deletions: every allocated session is in one place, once.               *)
THEOREM OwnerCorrect == Spec => []OneOwner
<1>1. ASSUME IInv, NEW s \in Sessions
      PROVE  Cardinality(InMap(s)) + Cardinality(InHand(s)) + Cardinality(InPool(s))
               = IF s \in live THEN 1 ELSE 0
  <2> USE <1>1 DEF IInv
  <2>1. s # None
    BY NoneAssumption
  <2>2. ASSUME NEW w \in Threads, hand[w] = s
        PROVE  s \in live /\ clifd[s] = None /\ s \notin ToSet(sessionList)
    BY <2>1, <2>2 DEF SessionsOwned
  <2>3. ASSUME NEW w \in Threads, NEW fd \in Fds, Entry(w, fd) = s
        PROVE  s \in live /\ clifd[s] = fd
    BY <2>1, <2>3 DEF SessionsOwned
  <2>4. /\ sessionList \in Seq(Sessions) /\ Distinct(sessionList)
        /\ ToSet(sessionList) = {sessionList[i] : i \in 1 .. Len(sessionList)}
    BY ElementsOf DEF SessionsOwned, TypeOK
  <2>5. s \in ToSet(sessionList) => s \in live /\ clifd[s] = None
    BY DEF SessionsOwned
  <2>6. s \notin ToSet(sessionList) => InPool(s) = {}
    BY <2>4 DEF InPool
  <2>7. CASE s \notin live
    <3>1. InMap(s) = {}
      BY <2>3, <2>7 DEF InMap
    <3>2. InHand(s) = {}
      BY <2>2, <2>7 DEF InHand
    <3>3. InPool(s) = {}
      BY <2>5, <2>6, <2>7
    <3>4. QED BY <2>7, <3>1, <3>2, <3>3, OneOrNone
  <2>8. CASE s \in live /\ clifd[s] # None
    <3>1. InHand(s) = {}
      BY <2>2, <2>8 DEF InHand
    <3>2. InPool(s) = {}
      BY <2>5, <2>6, <2>8
    <3>3. Cardinality(InMap(s)) = 1
      <4>1. PICK fd \in Fds : fd = clifd[s]
        BY <2>8 DEF TypeOK
      <4>2. PICK w \in Threads : Entry(w, fd) = s
        BY <2>8, <4>1 DEF SessionsOwned
      <4>3. << w, fd >> \in InMap(s)
        BY <4>2 DEF InMap
      <4>4. ASSUME NEW e \in InMap(s) PROVE e = << w, fd >>
        <5>1. PICK v \in Threads, g \in Fds : e = << v, g >> /\ Entry(v, g) = s
          BY <4>4 DEF InMap
        <5>2. g = fd
          BY <2>3, <4>1, <5>1
        <5>3. v = w
          BY <2>1, <4>2, <5>1, <5>2 DEF SessionsOwned
        <5>4. QED BY <5>1, <5>2, <5>3
      <4>5. QED BY <4>3, <4>4, OneOrNone
    <3>4. QED BY <2>8, <3>1, <3>2, <3>3, OneOrNone
  <2>9. CASE s \in live /\ clifd[s] = None
    <3>1. InMap(s) = {}
      <4>1. ASSUME NEW w \in Threads, NEW fd \in Fds PROVE Entry(w, fd) # s
        BY <2>3, <2>9, NoneAssumption
      <4>2. QED BY <4>1 DEF InMap
    <3>2. CASE s \in ToSet(sessionList)
      <4>1. InHand(s) = {}
        BY <2>2, <3>2 DEF InHand
      <4>2. PICK i \in 1 .. Len(sessionList) : sessionList[i] = s
        BY <2>4, <3>2
      <4>3. i \in InPool(s) /\ \A j \in InPool(s) : j = i
        BY <2>4, <4>2 DEF InPool, Distinct
      <4>4. Cardinality(InPool(s)) = 1
        BY <4>3, OneOrNone
      <4>5. QED BY <2>9, <3>1, <4>1, <4>4, OneOrNone
    <3>3. CASE s \notin ToSet(sessionList)
      <4>1. PICK w \in Threads : hand[w] = s
        BY <2>9, <3>3 DEF SessionsOwned
      <4>2. w \in InHand(s) /\ \A v \in InHand(s) : v = w
        BY <2>1, <4>1 DEF InHand, SessionsOwned
      <4>3. Cardinality(InHand(s)) = 1
        BY <4>2, OneOrNone
      <4>4. InPool(s) = {}
        BY <2>6, <3>3
      <4>5. QED BY <2>9, <3>1, <4>3, <4>4, OneOrNone
    <3>4. QED BY <3>2, <3>3
  <2>10. QED BY <2>7, <2>8, <2>9
<1>2. IInv => OneOwner
  BY <1>1 DEF OneOwner
<1>3. QED BY <1>2, Invariance, PTL

(* AcceptHandler, NotifyThread and DestructResource: an open connection is *)
(* in one place, and its session is found under its own descriptor although*)
(* descriptors are reused as soon as they are closed.                      *)
THEOREM FdsCorrect == Spec => []FdsAccounted
<1>1. ASSUME IInv, NEW fd \in Fds
      PROVE  LET owners == {s \in Sessions : clifd[s] = fd}
             IN  /\ Cardinality(owners) + Cardinality(Piped(fd))
                      + Cardinality(lost \cap {fd}) = IF fd \in open THEN 1 ELSE 0
                 /\ \A w \in Threads :
                       Entry(w, fd) # None => owners = {Entry(w, fd)}
  <2> USE <1>1 DEF IInv
  <2> DEFINE owners == {s \in Sessions : clifd[s] = fd}
  <2>1. fd # None
    BY NoneAssumption
  <2>2. \A s \in owners : fd \in open \ lost
    BY <2>1 DEF FdsOwned
  <2>3. \A w \in Piped(fd) : fd \in open \ lost /\ owners = {}
    BY DEF FdsOwned, Piped
  <2>4. \A s \in owners : \A t \in owners : t = s
    BY <2>1 DEF FdsOwned
  <2>5. \A w \in Piped(fd) : \A v \in Piped(fd) : v = w
    BY DEF FdsOwned, Piped
  <2>6. ASSUME NEW w \in Threads, Entry(w, fd) # None
        PROVE  owners = {Entry(w, fd)}
    <3>1. Entry(w, fd) \in owners
      BY <2>6 DEF SessionsOwned, TypeOK
    <3>2. QED BY <2>4, <3>1
  <2>7. fd \in open => fd \in lost \/ owners # {} \/ Piped(fd) # {}
    BY DEF FdsOwned, Piped
  <2>8. lost \subseteq open
    BY DEF FdsOwned
  <2> HIDE DEF owners
  <2>9. SUFFICES Cardinality(owners) + Cardinality(Piped(fd))
                   + Cardinality(lost \cap {fd}) = IF fd \in open THEN 1 ELSE 0
    BY <2>6 DEF owners
  <2>10. CASE fd \notin open
    <3>1. owners = {} /\ Piped(fd) = {} /\ lost \cap {fd} = {}
      BY <2>2, <2>3, <2>8, <2>10
    <3>2. QED BY <2>10, <3>1, OneOrNone
  <2>11. CASE fd \in lost
    <3>1. owners = {} /\ Piped(fd) = {} /\ fd \in lost \cap {fd}
      BY <2>2, <2>3, <2>11
    <3>2. Cardinality(lost \cap {fd}) = 1
      BY <3>1, OneOrNone
    <3>3. fd \in open
      BY <2>8, <2>11
    <3>4. QED BY <3>1, <3>2, <3>3, OneOrNone
  <2>12. CASE fd \in open /\ fd \notin lost /\ owners # {}
    <3>1. Piped(fd) = {} /\ lost \cap {fd} = {}
      BY <2>3, <2>12
    <3>2. Cardinality(owners) = 1
      <4>1. PICK s : s \in owners
        BY <2>12
      <4>2. QED BY <2>4, <4>1, OneOrNone
    <3>3. QED BY <2>12, <3>1, <3>2, OneOrNone
  <2>13. CASE fd \in open /\ fd \notin lost /\ owners = {}
    <3>1. lost \cap {fd} = {}
      BY <2>13
    <3>2. Cardinality(Piped(fd)) = 1
      <4>1. PICK w : w \in Piped(fd)
        BY <2>7, <2>13
      <4>2. QED BY <2>5, <4>1, OneOrNone
    <3>3. QED BY <2>13, <3>1, <3>2, OneOrNone
  <2>14. QED BY <2>11, <2>12, <2>13, <2>10
<1>2. IInv => FdsAccounted
  BY <1>1 DEF FdsAccounted
<1>3. QED BY <1>2, Invariance, PTL

(* DestructMainThreadObj: when the last thread has been joined and the pool*)
(* emptied, no session is left, and no connection but the ones no thread   *)
(* could serve.                                                            *)
THEOREM ShutdownCorrect == Spec => []ShutdownFreesAll
<1> DEFINE Emptied == phase = "done" => sessionList = << >>
<1>1. Spec => []Emptied
  <2>1. Init => Emptied
    BY DEF Init
  <2>2. ASSUME Emptied, IInv, [Next]_vars PROVE Emptied'
    <3>1. CASE JoinThread
      BY <3>1 DEF JoinThread
    <3>2. ASSUME NEW w \in Threads, wstate[w] \in {"running", "draining"}
          PROVE  phase # "done"
      <4>1. ASSUME phase = "done" PROVE FALSE
        <5>1. w < cursor \/ w = cursor
          BY <2>2, <4>1 DEF IInv, StoppedInOrder, Threads, TypeOK
        <5>2. QED BY <2>2, <3>2, <4>1, <5>1 DEF IInv, StoppedInOrder
      <4>2. QED BY <4>1
    <3>3. ASSUME NEW w \in Threads, NotifyReceivedProcess(w) \/ RecycleSession(w)
          PROVE  Emptied'
      <4>1. phase' = phase /\ wstate[w] \in {"running", "draining"}
        BY <2>2, <3>3 DEF NotifyReceivedProcess, RecycleSession, IInv, IdleThreadsHoldNothing
      <4>2. QED BY <3>2, <4>1
    <3>4. CASE SignalHandle \/ NotifyThreadQuit
      BY <2>2, <3>4 DEF SignalHandle, NotifyThreadQuit
    <3>5. CASE UNCHANGED << phase, sessionList >>
      BY <2>2, <3>5
    <3>6. QED BY <2>2, <3>1, <3>3, <3>4, <3>5
             DEF Next, WorkStep, AcceptHandler, SetupThread, IniSQLConnection, NotifyQuit,
                 DestrotiedSessions, ClosingClientCon, vars
  <2>3. QED BY <2>1, <2>2, Invariance, PTL DEF Spec
<1>2. ASSUME IInv, Emptied PROVE ShutdownFreesAll
  <2> USE <1>2 DEF IInv
  <2>1. SUFFICES ASSUME phase = "done"
                 PROVE  /\ live = {}
                        /\ \A fd \in open :
                              fd \in lost \/ \E w \in Piped(fd) : wstate[w] = "dead"
    BY DEF ShutdownFreesAll
  <2>2. \A w \in Threads : wstate[w] \in {"stopped", "dead"}
    BY <2>1, ThreadAssumption DEF StoppedInOrder, Threads
  <2>3. \A w \in Threads : hand[w] = None /\ \A fd \in Fds : Entry(w, fd) = None
    BY <2>2 DEF IdleThreadsHoldNothing, Entry
  <2>4. \A s \in Sessions : clifd[s] = None
    <3>1. ASSUME NEW s \in Sessions, clifd[s] # None PROVE FALSE
      <4>1. clifd[s] \in Fds
        BY <3>1 DEF TypeOK
      <4>2. PICK w \in Threads : Entry(w, clifd[s]) = s
        BY <3>1 DEF SessionsOwned
      <4>3. QED BY <2>3, <4>1, <4>2, NoneAssumption
    <3>2. QED BY <3>1
  <2>5. live = {}
    <3>1. ASSUME NEW s \in live PROVE FALSE
      <4>1. s \in Sessions
        BY DEF TypeOK
      <4>2. s \notin ToSet(sessionList)
        BY <2>1, EmptySequence
      <4>3. QED BY <2>3, <2>4, <4>1, <4>2, NoneAssumption DEF SessionsOwned
    <3>2. QED BY <3>1
  <2>6. ASSUME NEW fd \in open, fd \notin lost
        PROVE  \E w \in Piped(fd) : wstate[w] = "dead"
    <3>1. fd \in Fds /\ fd # None
      BY NoneAssumption DEF TypeOK
    <3>2. PICK w \in Threads : fd \in ToSet(pipe[w])
      BY <2>4, <2>6, <3>1 DEF FdsOwned
    <3>3. wstate[w] # "stopped"
      BY <3>2, EmptySequence DEF QuitIsLast
    <3>4. QED BY <2>2, <3>2, <3>3 DEF Piped
  <2>7. QED BY <2>5, <2>6
<1>3. QED BY <1>1, <1>2, Invariance, PTL
=============================================================================
