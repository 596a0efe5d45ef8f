--------------------------- MODULE LibTimerProofs ---------------------------
(***************************************************************************)
(* Proofs about LibTimer, for any number of timers and callers, any delays *)
(* and a backlog of any length.                                            *)
(***************************************************************************)
EXTENDS LibTimer, WellFoundedInduction, TLAPS

(* The queue is in the order in which its timers are due, and an argument  *)
(* is there once.                                                          *)
Sorted(q) == \A i, j \in 1 .. Len(q) : i <= j => q[i].left <= q[j].left
Distinct(q) == \A i, j \in 1 .. Len(q) : q[i].arg = q[j].arg => i = j

(* An argument is once on the list of expired timers.                      *)
Once(l) == \A i, j \in 1 .. Len(l) : l[i] = l[j] => i = j

(* Where an argument is, as functions of the queue, the list and the       *)
(* requests.                                                               *)
InQueue(q, a) == \E i \in DOMAIN q : q[i].arg = a
InList(l, a) == \E i \in DOMAIN l : l[i] = a
Asked(r, a) == \E i \in DOMAIN r : r[i].action = "ADD" /\ r[i].arg = a

LeftOf(q, l, a) ==
    IF InQueue(q, a) THEN q[CHOOSE i \in DOMAIN q : q[i].arg = a].left
    ELSE IF InList(l, a) THEN 0 ELSE Unset

(* An argument is asked to be timed once, for one of the delays.           *)
AskedOnce(r) ==
    /\ \A i, j \in 1 .. Len(r) :
          r[i].action = "ADD" /\ r[j].action = "ADD" /\ r[i].arg = r[j].arg => i = j
    /\ \A i \in 1 .. Len(r) : r[i].action = "ADD" => r[i].delay \in Delays

(* An argument is in one place at a time.                                  *)
Apart(q, l, r) ==
    \A a \in Args : /\ ~(InQueue(q, a) /\ InList(l, a))
                    /\ ~(InQueue(q, a) /\ Asked(r, a))
                    /\ ~(InList(l, a) /\ Asked(r, a))

(* The deadline of select, also of the first one.                          *)
RestIsFirst == server \in {"off", "select"} => rest = get_rest_time(timerq)

(* There is one time_out_task, and it takes from a list that is not empty. *)
OneTask ==
    /\ task = "handler" => running \in Args
    /\ task # "handler" => running = NoArg
    /\ task = "take" => timeout_list # << >>
    /\ timeout_thread_is_on = FALSE => task = "none"

(* The inductive invariant.                                                *)
IInv ==
    /\ TypeOK
    /\ Sorted(timerq)
    /\ Distinct(timerq)
    /\ Once(timeout_list)
    /\ AskedOnce(requests)
    /\ Apart(timerq, timeout_list, requests)
    /\ RestIsFirst
    /\ OneTask

-----------------------------------------------------------------------------
(* A set of numbers that is not empty has a least one.                     *)
LEMMA Least ==
    ASSUME NEW S, S \subseteq Nat, S # {}
    PROVE  \E x \in S : \A y \in S : x <= y
<1>1. IsWellFoundedOn(OpToRel(<, Nat), Nat)
  BY NatLessThanWellFounded
<1>2. PICK x \in S : \A y \in S : ~ (<< y, x >> \in OpToRel(<, Nat))
  BY <1>1, WFMin
<1>3. \A y \in S : ~(y < x)
  BY <1>2 DEF OpToRel
<1>4. QED BY <1>3

(* Min is that one.                                                        *)
LEMMA MinIs ==
    ASSUME NEW S, S \subseteq Nat, S # {}
    PROVE  Min(S) \in S /\ \A y \in S : Min(S) <= y
BY Least DEF Min

-----------------------------------------------------------------------------
(* r is q with t put at place p, behind what is due no later and in front  *)
(* of what is due no earlier.                                              *)
Inserted(r, q, t, p) ==
    /\ p \in 1 .. (Len(q) + 1)
    /\ r \in Seq(Timer)
    /\ Len(r) = Len(q) + 1
    /\ r[p] = t
    /\ \A j \in 1 .. (p - 1) : r[j] = q[j]
    /\ \A j \in p .. Len(q) : r[j + 1] = q[j]

(* r is q without what was at place p.                                     *)
Removed(r, q, p) ==
    /\ p \in 1 .. Len(q)
    /\ r \in Seq(Timer)
    /\ Len(r) = Len(q) - 1
    /\ \A j \in 1 .. (p - 1) : r[j] = q[j]
    /\ \A j \in p .. (Len(q) - 1) : r[j] = q[j + 1]

(* The timers of a queue.                                                  *)
LEMMA TimersOf ==
    ASSUME NEW q \in Seq(Timer)
    PROVE  \A j \in 1 .. Len(q) : q[j] \in Timer /\ q[j].left \in Nat /\ q[j].arg \in Args
<1>1. \A j \in 1 .. Len(q) : q[j] \in Timer
  OBVIOUS
<1>2. \A t \in Timer : t.left \in Nat /\ t.arg \in Args
  BY DEF Timer
<1>3. QED BY <1>1, <1>2

(* What InsertAt does.                                                     *)
LEMMA InsertAtIs ==
    ASSUME NEW q \in Seq(Timer), NEW t \in Timer, NEW p \in 1 .. (Len(q) + 1)
    PROVE  Inserted(InsertAt(q, p, t), q, t, p)
<1> DEFINE x == SubSeq(q, 1, p - 1)
           y == SubSeq(q, p, Len(q))
           w == x \o << t >>
           r == w \o y
<1>1. /\ x \in Seq(Timer) /\ Len(x) = p - 1
      /\ \A j \in 1 .. (p - 1) : x[j] = q[j]
  OBVIOUS
<1>2. /\ y \in Seq(Timer) /\ Len(y) = (Len(q) - p) + 1
      /\ \A j \in 1 .. Len(y) : y[j] = q[(p - 1) + j]
  OBVIOUS
<1> HIDE DEF x, y
<1>3. /\ w \in Seq(Timer) /\ Len(w) = p /\ w[p] = t
      /\ \A j \in 1 .. (p - 1) : w[j] = q[j]
  BY <1>1
<1> HIDE DEF w
<1>4. r \in Seq(Timer) /\ Len(r) = Len(q) + 1
  BY <1>2, <1>3
<1>5. r[p] = t
  BY <1>2, <1>3
<1>6. \A j \in 1 .. (p - 1) : r[j] = q[j]
  BY <1>2, <1>3
<1>7. ASSUME NEW j \in p .. Len(q) PROVE r[j + 1] = q[j]
  <2>1. (j + 1) - p \in 1 .. Len(y) /\ (p - 1) + ((j + 1) - p) = j
    BY <1>2
  <2>2. r[j + 1] = y[(j + 1) - p]
    BY <1>2, <1>3, <2>1
  <2>3. y[(j + 1) - p] = q[(p - 1) + ((j + 1) - p)]
    BY <1>2, <2>1
  <2>4. QED BY <2>1, <2>2, <2>3
<1>8. QED BY <1>4, <1>5, <1>6, <1>7 DEF Inserted, InsertAt, w, x, y

(* What RemoveAt does.                                                     *)
LEMMA RemoveAtIs ==
    ASSUME NEW q \in Seq(Timer), NEW p \in 1 .. Len(q)
    PROVE  Removed(RemoveAt(q, p), q, p)
<1> DEFINE x == SubSeq(q, 1, p - 1)
           y == SubSeq(q, p + 1, Len(q))
           r == x \o y
<1>1. /\ x \in Seq(Timer) /\ Len(x) = p - 1
      /\ \A j \in 1 .. (p - 1) : x[j] = q[j]
  OBVIOUS
<1>2. /\ y \in Seq(Timer) /\ Len(y) = Len(q) - p
      /\ \A j \in 1 .. Len(y) : y[j] = q[p + j]
  OBVIOUS
<1> HIDE DEF x, y
<1>3. r \in Seq(Timer) /\ Len(r) = Len(q) - 1
  BY <1>1, <1>2
<1>4. \A j \in 1 .. (p - 1) : r[j] = q[j]
  BY <1>1, <1>2
<1>5. ASSUME NEW j \in p .. (Len(q) - 1) PROVE r[j] = q[j + 1]
  <2>1. (j + 1) - p \in 1 .. Len(y) /\ p + ((j + 1) - p) = j + 1
    BY <1>2
  <2>2. r[j] = y[(j + 1) - p]
    BY <1>1, <1>2, <2>1
  <2>3. y[(j + 1) - p] = q[p + ((j + 1) - p)]
    BY <1>2, <2>1
  <2>4. QED BY <2>1, <2>2, <2>3
<1>6. QED BY <1>3, <1>4, <1>5 DEF Removed, RemoveAt, x, y

(* add_timernode_to_list puts a timer behind those due no later and in     *)
(* front of those due later.                                               *)
LEMMA InsertTimerIs ==
    ASSUME NEW q \in Seq(Timer), NEW t \in Timer, Sorted(q)
    PROVE  \E p \in 1 .. (Len(q) + 1) :
              /\ Inserted(InsertTimer(q, t), q, t, p)
              /\ \A j \in 1 .. (p - 1) : q[j].left <= t.left
              /\ \A j \in p .. Len(q) : t.left <= q[j].left
<1> DEFINE later == {i \in DOMAIN q : t.left < q[i].left}
<1>0. DOMAIN q = 1 .. Len(q) /\ Len(q) \in Nat
  OBVIOUS
<1>1. \A j \in 1 .. Len(q) : q[j].left \in Nat
  BY TimersOf
<1>2. t.left \in Nat
  BY DEF Timer
<1>3. CASE later = {}
  <2>1. InsertTimer(q, t) = InsertAt(q, Len(q) + 1, t)
    BY <1>3 DEF InsertTimer
  <2>2. Len(q) + 1 \in 1 .. (Len(q) + 1)
    BY <1>0
  <2>3. Inserted(InsertTimer(q, t), q, t, Len(q) + 1)
    BY <2>1, <2>2, InsertAtIs
  <2>4. \A j \in 1 .. Len(q) : q[j].left <= t.left
    BY <1>0, <1>1, <1>2, <1>3
  <2>5. (Len(q) + 1) - 1 = Len(q) /\ \A j \in (Len(q) + 1) .. Len(q) : FALSE
    BY <1>0
  <2>6. QED BY <2>2, <2>3, <2>4, <2>5
<1>4. CASE later # {}
  <2>1. later \subseteq Nat
    BY <1>0
  <2>2. Min(later) \in later /\ \A y \in later : Min(later) <= y
    BY <1>4, <2>1, MinIs
  <2>3. InsertTimer(q, t) = InsertAt(q, Min(later), t)
    BY <1>4 DEF InsertTimer
  <2>4. PICK p \in 1 .. Len(q) : /\ p = Min(later) /\ t.left < q[p].left
    BY <1>0, <2>2
  <2>5. p \in 1 .. (Len(q) + 1)
    BY <1>0
  <2>6. Inserted(InsertTimer(q, t), q, t, p)
    BY <2>3, <2>4, <2>5, InsertAtIs
  <2>7. ASSUME NEW j \in 1 .. (p - 1) PROVE q[j].left <= t.left
    <3>1. j \in 1 .. Len(q) /\ ~(p <= j)
      BY <1>0
    <3>2. j \notin later
      BY <2>2, <2>4, <3>1
    <3>3. ~(t.left < q[j].left)
      BY <1>0, <3>1, <3>2
    <3>4. QED BY <1>1, <1>2, <3>1, <3>3
  <2>8. ASSUME NEW j \in p .. Len(q) PROVE t.left <= q[j].left
    <3>1. j \in 1 .. Len(q) /\ p <= j
      BY <1>0
    <3>2. q[p].left <= q[j].left
      BY <3>1 DEF Sorted
    <3>3. QED BY <1>1, <1>2, <2>4, <3>1, <3>2
  <2>9. QED BY <2>5, <2>6, <2>7, <2>8
<1>5. QED BY <1>3, <1>4

(* del_timernode_from_list takes the timer of a out, if there is one.      *)
LEMMA RemoveTimerIs ==
    ASSUME NEW q \in Seq(Timer), NEW a
    PROVE  \/ ~InQueue(q, a) /\ RemoveTimer(q, a) = q
           \/ \E p \in 1 .. Len(q) : q[p].arg = a /\ Removed(RemoveTimer(q, a), q, p)
<1> DEFINE found == {i \in DOMAIN q : q[i].arg = a}
<1>0. DOMAIN q = 1 .. Len(q) /\ Len(q) \in Nat
  OBVIOUS
<1>1. CASE found = {}
  BY <1>1 DEF RemoveTimer, InQueue
<1>2. CASE found # {}
  <2>1. found \subseteq Nat
    BY <1>0
  <2>2. Min(found) \in found
    BY <1>2, <2>1, MinIs
  <2>3. RemoveTimer(q, a) = RemoveAt(q, Min(found))
    BY <1>2 DEF RemoveTimer
  <2>4. PICK p \in 1 .. Len(q) : p = Min(found) /\ q[p].arg = a
    BY <1>0, <2>2
  <2>5. QED BY <2>3, <2>4, RemoveAtIs
<1>3. QED BY <1>1, <1>2

-----------------------------------------------------------------------------
(* What is left of the timer of an argument that is in the queue.          *)
LEMMA LeftOfQueued ==
    ASSUME NEW q \in Seq(Timer), Distinct(q), NEW l, NEW i \in 1 .. Len(q)
    PROVE  InQueue(q, q[i].arg) /\ LeftOf(q, l, q[i].arg) = q[i].left
<1>1. DOMAIN q = 1 .. Len(q)
  OBVIOUS
<1>2. InQueue(q, q[i].arg)
  BY <1>1 DEF InQueue
<1>3. PICK k \in 1 .. Len(q) : k = CHOOSE j \in DOMAIN q : q[j].arg = q[i].arg
  BY <1>1
<1>4. q[k].arg = q[i].arg
  BY <1>1, <1>3
<1>5. k = i
  BY <1>4 DEF Distinct
<1>6. QED BY <1>2, <1>3, <1>5 DEF LeftOf

(* A queue that holds the same timers as another, but for argument b, says *)
(* the same of every other argument.                                       *)
SameBut(q, r, b) ==
    /\ \A i \in 1 .. Len(q) : q[i].arg # b => \E k \in 1 .. Len(r) : r[k] = q[i]
    /\ \A k \in 1 .. Len(r) : r[k].arg # b => \E i \in 1 .. Len(q) : q[i] = r[k]

(* It does.                                                                *)
LEMMA SameLeft ==
    ASSUME NEW q \in Seq(Timer), NEW r \in Seq(Timer), Distinct(q), Distinct(r),
           NEW b, SameBut(q, r, b), NEW l, NEW a, a # b
    PROVE  (InQueue(r, a) <=> InQueue(q, a)) /\ LeftOf(r, l, a) = LeftOf(q, l, a)
<1>1. DOMAIN q = 1 .. Len(q) /\ DOMAIN r = 1 .. Len(r)
  OBVIOUS
<1>2. CASE InQueue(q, a)
  <2>1. PICK i \in 1 .. Len(q) : q[i].arg = a
    BY <1>1, <1>2 DEF InQueue
  <2>2. PICK k \in 1 .. Len(r) : r[k] = q[i]
    BY <2>1 DEF SameBut
  <2>3. InQueue(q, a) /\ LeftOf(q, l, a) = q[i].left
    BY <2>1, LeftOfQueued
  <2>4. InQueue(r, a) /\ LeftOf(r, l, a) = r[k].left
    BY <2>1, <2>2, LeftOfQueued
  <2>5. QED BY <2>2, <2>3, <2>4
<1>3. CASE ~InQueue(q, a)
  <2>1. ~InQueue(r, a)
    <3>1. SUFFICES ASSUME NEW k \in 1 .. Len(r), r[k].arg = a PROVE FALSE
      BY <1>1 DEF InQueue
    <3>2. PICK i \in 1 .. Len(q) : q[i] = r[k]
      BY <3>1 DEF SameBut
    <3>3. QED BY <1>1, <1>3, <3>1, <3>2 DEF InQueue
  <2>2. QED BY <1>3, <2>1 DEF LeftOf
<1>4. QED BY <1>2, <1>3

(* A timer is inserted.                                                    *)
LEMMA InsertKeeps ==
    ASSUME NEW q \in Seq(Timer), Sorted(q), Distinct(q),
           NEW t \in Timer, ~InQueue(q, t.arg),
           NEW r, r = InsertTimer(q, t)
    PROVE  /\ r \in Seq(Timer) /\ Sorted(r) /\ Distinct(r)
           /\ SameBut(q, r, t.arg)
           /\ \E k \in 1 .. Len(r) : r[k] = t
<1>1. PICK p \in 1 .. (Len(q) + 1) :
         /\ Inserted(r, q, t, p)
         /\ \A j \in 1 .. (p - 1) : q[j].left <= t.left
         /\ \A j \in p .. Len(q) : t.left <= q[j].left
  BY InsertTimerIs
<1>2. PICK n \in Nat : n = Len(q)
  OBVIOUS
<1>3. /\ r \in Seq(Timer) /\ Len(r) = n + 1 /\ p \in 1 .. (n + 1)
      /\ r[p] = t
      /\ \A j \in 1 .. (p - 1) : r[j] = q[j]
      /\ \A j \in p .. n : r[j + 1] = q[j]
  BY <1>1, <1>2 DEF Inserted
<1>4. ASSUME NEW k \in 1 .. (n + 1), k # p
      PROVE  \E i \in 1 .. n : /\ r[k] = q[i]
                               /\ k < p => i = k /\ i \in 1 .. (p - 1)
                               /\ k > p => i = k - 1 /\ i \in p .. n
  <2>1. CASE k < p
    <3>1. k \in 1 .. n /\ k \in 1 .. (p - 1) /\ ~(k > p)
      BY <1>3, <2>1
    <3>2. QED BY <1>3, <3>1
  <2>2. CASE k > p
    <3>1. k - 1 \in 1 .. n /\ k - 1 \in p .. n /\ (k - 1) + 1 = k /\ ~(k < p)
      BY <1>3, <2>2
    <3>2. r[k] = q[k - 1]
      BY <1>3, <3>1
    <3>3. QED BY <3>1, <3>2
  <2>3. k < p \/ k > p
    BY <1>3, <1>4
  <2>4. QED BY <2>1, <2>2, <2>3
<1>5. t.left \in Nat /\ \A i \in 1 .. n : q[i].left \in Nat
  BY <1>2, TimersOf DEF Timer
<1>6. Sorted(r)
  <2>1. SUFFICES ASSUME NEW i \in 1 .. (n + 1), NEW j \in 1 .. (n + 1), i < j
                 PROVE  r[i].left <= r[j].left
    <3>1. \A i \in 1 .. (n + 1) : r[i].left \in Nat
      BY <1>3, TimersOf
    <3>2. \A i \in 1 .. (n + 1) : r[i].left <= r[i].left
      BY <3>1
    <3>3. \A i, j \in 1 .. (n + 1) : i <= j => i < j \/ i = j
      OBVIOUS
    <3>4. QED BY <1>3, <3>2, <3>3 DEF Sorted
  <2>2. CASE i = p
    <3>1. j # p /\ j > p
      BY <2>1, <2>2
    <3>2. PICK v \in 1 .. n : r[j] = q[v] /\ v \in p .. n
      BY <1>4, <3>1
    <3>3. QED BY <1>1, <1>2, <1>3, <2>2, <3>2
  <2>3. CASE j = p
    <3>1. i # p /\ i < p
      BY <2>1, <2>3
    <3>2. PICK u \in 1 .. n : r[i] = q[u] /\ u \in 1 .. (p - 1)
      BY <1>4, <3>1
    <3>3. QED BY <1>1, <1>3, <2>3, <3>2
  <2>4. CASE i # p /\ j # p
    <3>1. PICK u \in 1 .. n : /\ r[i] = q[u]
                              /\ i < p => u = i
                              /\ i > p => u = i - 1
      BY <1>4, <2>4
    <3>2. PICK v \in 1 .. n : /\ r[j] = q[v]
                              /\ j < p => v = j
                              /\ j > p => v = j - 1
      BY <1>4, <2>4
    <3>3. u <= v
      BY <1>3, <2>1, <2>4, <3>1, <3>2
    <3>4. q[u].left <= q[v].left
      BY <1>2, <3>3 DEF Sorted
    <3>5. QED BY <3>1, <3>2, <3>4
  <2>5. QED BY <2>2, <2>3, <2>4
<1>7. \A i \in 1 .. n : q[i].arg # t.arg
  BY <1>2 DEF InQueue
<1>8. Distinct(r)
  <2>1. SUFFICES ASSUME NEW i \in 1 .. (n + 1), NEW j \in 1 .. (n + 1),
                        r[i].arg = r[j].arg
                 PROVE  i = j
    BY <1>3 DEF Distinct
  <2>2. CASE i = p
    <3>1. j # p => \E v \in 1 .. n : r[j] = q[v]
      BY <1>4
    <3>2. QED BY <1>3, <1>7, <2>1, <2>2, <3>1
  <2>3. CASE j = p
    <3>1. i # p => \E v \in 1 .. n : r[i] = q[v]
      BY <1>4
    <3>2. QED BY <1>3, <1>7, <2>1, <2>3, <3>1
  <2>4. CASE i # p /\ j # p
    <3>1. PICK u \in 1 .. n : /\ r[i] = q[u]
                              /\ i < p => u = i /\ u \in 1 .. (p - 1)
                              /\ i > p => u = i - 1 /\ u \in p .. n
      BY <1>4, <2>4
    <3>2. PICK v \in 1 .. n : /\ r[j] = q[v]
                              /\ j < p => v = j /\ v \in 1 .. (p - 1)
                              /\ j > p => v = j - 1 /\ v \in p .. n
      BY <1>4, <2>4
    <3>3. u = v
      BY <1>2, <2>1, <3>1, <3>2 DEF Distinct
    <3>4. QED BY <1>3, <2>4, <3>1, <3>2, <3>3
  <2>5. QED BY <2>2, <2>3, <2>4
<1>9. SameBut(q, r, t.arg)
  <2>1. ASSUME NEW i \in 1 .. n PROVE \E k \in 1 .. (n + 1) : r[k] = q[i]
    <3>1. CASE i < p
      <4>1. i \in 1 .. (p - 1) /\ i \in 1 .. (n + 1)
        BY <1>3, <3>1
      <4>2. QED BY <1>3, <4>1
    <3>2. CASE ~(i < p)
      <4>1. i \in p .. n /\ i + 1 \in 1 .. (n + 1)
        BY <1>3, <3>2
      <4>2. QED BY <1>3, <4>1
    <3>3. QED BY <3>1, <3>2
  <2>2. ASSUME NEW k \in 1 .. (n + 1), r[k].arg # t.arg PROVE \E i \in 1 .. n : q[i] = r[k]
    <3>1. k # p
      BY <1>3, <2>2
    <3>2. QED BY <1>4, <3>1
  <2>3. QED BY <1>2, <1>3, <2>1, <2>2 DEF SameBut
<1>10. QED BY <1>3, <1>6, <1>8, <1>9

(* A timer is taken out.                                                   *)
LEMMA RemoveKeeps ==
    ASSUME NEW q \in Seq(Timer), Sorted(q), Distinct(q),
           NEW r, NEW p, Removed(r, q, p)
    PROVE  /\ r \in Seq(Timer) /\ Sorted(r) /\ Distinct(r)
           /\ SameBut(q, r, q[p].arg)
           /\ ~InQueue(r, q[p].arg)
<1>1. PICK n \in Nat : n = Len(q)
  OBVIOUS
<1>2. /\ r \in Seq(Timer) /\ Len(r) = n - 1 /\ p \in 1 .. n
      /\ \A j \in 1 .. (p - 1) : r[j] = q[j]
      /\ \A j \in p .. (n - 1) : r[j] = q[j + 1]
  BY <1>1 DEF Removed
<1>3. ASSUME NEW k \in 1 .. (n - 1)
      PROVE  \E i \in 1 .. n : /\ r[k] = q[i] /\ i # p
                               /\ k < p => i = k
                               /\ ~(k < p) => i = k + 1
  <2>1. CASE k < p
    <3>1. k \in 1 .. n /\ k \in 1 .. (p - 1) /\ k # p
      BY <1>2, <2>1
    <3>2. QED BY <1>2, <2>1, <3>1
  <2>2. CASE ~(k < p)
    <3>1. k + 1 \in 1 .. n /\ k \in p .. (n - 1) /\ k + 1 # p
      BY <1>2, <2>2
    <3>2. QED BY <1>2, <2>2, <3>1
  <2>3. QED BY <2>1, <2>2
<1>4. Sorted(r)
  <2>1. SUFFICES ASSUME NEW i \in 1 .. (n - 1), NEW j \in 1 .. (n - 1), i <= j
                 PROVE  r[i].left <= r[j].left
    BY <1>2 DEF Sorted
  <2>2. PICK u \in 1 .. n : r[i] = q[u] /\ (i < p => u = i) /\ (~(i < p) => u = i + 1)
    BY <1>3
  <2>3. PICK v \in 1 .. n : r[j] = q[v] /\ (j < p => v = j) /\ (~(j < p) => v = j + 1)
    BY <1>3
  <2>4. u <= v
    BY <1>2, <2>1, <2>2, <2>3
  <2>5. q[u].left <= q[v].left
    BY <1>1, <2>4 DEF Sorted
  <2>6. QED BY <2>2, <2>3, <2>5
<1>5. Distinct(r)
  <2>1. SUFFICES ASSUME NEW i \in 1 .. (n - 1), NEW j \in 1 .. (n - 1),
                        r[i].arg = r[j].arg
                 PROVE  i = j
    BY <1>2 DEF Distinct
  <2>2. PICK u \in 1 .. n : r[i] = q[u] /\ (i < p => u = i) /\ (~(i < p) => u = i + 1)
    BY <1>3
  <2>3. PICK v \in 1 .. n : r[j] = q[v] /\ (j < p => v = j) /\ (~(j < p) => v = j + 1)
    BY <1>3
  <2>4. u = v
    BY <1>1, <2>1, <2>2, <2>3 DEF Distinct
  <2>5. QED BY <1>2, <2>2, <2>3, <2>4
<1>6. ASSUME NEW i \in 1 .. n, q[i].arg # q[p].arg
      PROVE  \E k \in 1 .. (n - 1) : r[k] = q[i]
  <2>1. i # p
    BY <1>6
  <2>2. CASE i < p
    <3>1. i \in 1 .. (p - 1) /\ i \in 1 .. (n - 1)
      BY <1>2, <2>2
    <3>2. QED BY <1>2, <3>1
  <2>3. CASE ~(i < p)
    <3>1. i - 1 \in p .. (n - 1) /\ i - 1 \in 1 .. (n - 1) /\ (i - 1) + 1 = i
      BY <1>2, <2>1, <2>3
    <3>2. r[i - 1] = q[i]
      BY <1>2, <3>1
    <3>3. QED BY <3>1, <3>2
  <2>4. QED BY <2>2, <2>3
<1>7. \A k \in 1 .. (n - 1) : \E i \in 1 .. n : q[i] = r[k]
  BY <1>3
<1>8. SameBut(q, r, q[p].arg)
  BY <1>1, <1>2, <1>6, <1>7 DEF SameBut
<1>9. ~InQueue(r, q[p].arg)
  <2>1. SUFFICES ASSUME NEW k \in 1 .. (n - 1), r[k].arg = q[p].arg PROVE FALSE
    BY <1>2 DEF InQueue
  <2>2. PICK i \in 1 .. n : r[k] = q[i] /\ i # p
    BY <1>3
  <2>3. QED BY <1>1, <1>2, <2>1, <2>2 DEF Distinct
<1>10. QED BY <1>2, <1>4, <1>5, <1>8, <1>9

(* The first timer is taken out.                                           *)
LEMMA TailRemoves ==
    ASSUME NEW q \in Seq(Timer), q # << >>
    PROVE  Removed(Tail(q), q, 1) /\ Head(q) = q[1] /\ 1 \in 1 .. Len(q)
BY DEF Removed

(* A queue without timers.                                                 *)
LEMMA EmptyQueue ==
    /\ << >> \in Seq(Timer) /\ Sorted(<< >>) /\ Distinct(<< >>)
    /\ \A a : ~InQueue(<< >>, a)
BY DEF Sorted, Distinct, InQueue

OneTickLater(q) == [i \in DOMAIN q |-> [q[i] EXCEPT !.left = OneTickLess(q[i].left)]]

(* A tick more or less does not change which of two times is earlier.      *)
LEMMA TickIsMonotone ==
    /\ \A x \in Nat : OneTickLess(x) \in Nat
    /\ \A x, y \in Nat : x <= y => OneTickLess(x) <= OneTickLess(y)
    /\ OneTickLess(Unset) = Unset /\ OneTickLess(0) = 0
BY UnsetAssumption DEF OneTickLess

(* Time passes for the queue.                                              *)
LEMMA TickKeeps ==
    ASSUME NEW q \in Seq(Timer), Sorted(q), Distinct(q), NEW r, r = OneTickLater(q)
    PROVE  /\ r \in Seq(Timer) /\ Sorted(r) /\ Distinct(r)
           /\ get_rest_time(r) = OneTickLess(get_rest_time(q))
           /\ \A a : InQueue(r, a) <=> InQueue(q, a)
           /\ \A a, l : LeftOf(r, l, a) = OneTickLess(LeftOf(q, l, a))
<1>1. PICK n \in Nat : n = Len(q) /\ DOMAIN q = 1 .. n
  OBVIOUS
<1>2. ASSUME NEW i \in 1 .. n
      PROVE  /\ q[i] \in Timer /\ q[i].left \in Nat /\ q[i].arg \in Args
             /\ r[i] \in Timer
             /\ r[i].arg = q[i].arg /\ r[i].left = OneTickLess(q[i].left)
  <2>1. q[i] \in Timer /\ q[i].left \in Nat /\ q[i].arg \in Args
    BY <1>1, TimersOf
  <2>2. OneTickLess(q[i].left) \in Nat
    BY <2>1, TickIsMonotone
  <2>3. r[i] = [q[i] EXCEPT !.left = OneTickLess(q[i].left)]
    BY <1>1 DEF OneTickLater
  <2>4. QED BY <2>1, <2>2, <2>3 DEF Timer
<1>3. DOMAIN r = 1 .. n /\ r = [i \in 1 .. n |-> r[i]]
  BY <1>1 DEF OneTickLater
<1>4. r \in Seq(Timer) /\ Len(r) = n
  BY <1>2, <1>3
<1>5. Sorted(r)
  <2>1. SUFFICES ASSUME NEW i \in 1 .. n, NEW j \in 1 .. n, i <= j
                 PROVE  r[i].left <= r[j].left
    BY <1>4 DEF Sorted
  <2>2. q[i].left <= q[j].left
    BY <1>1, <2>1 DEF Sorted
  <2>3. OneTickLess(q[i].left) <= OneTickLess(q[j].left)
    BY <1>2, <2>2, TickIsMonotone
  <2>4. QED BY <1>2, <2>3
<1>6. Distinct(r)
  BY <1>1, <1>2, <1>4 DEF Distinct
<1>7. get_rest_time(r) = OneTickLess(get_rest_time(q))
  <2>1. CASE n = 0
    <3>1. q = << >> /\ r = << >>
      BY <1>1, <1>4, <2>1
    <3>2. QED BY <3>1, TickIsMonotone DEF get_rest_time
  <2>2. CASE n # 0
    <3>1. q # << >> /\ r # << >> /\ 1 \in 1 .. n
      BY <1>1, <1>4, <2>2
    <3>2. QED BY <1>2, <3>1 DEF get_rest_time
  <2>3. QED BY <2>1, <2>2
<1>8. ASSUME NEW a PROVE InQueue(r, a) <=> InQueue(q, a)
  BY <1>1, <1>2, <1>3 DEF InQueue
<1>9. ASSUME NEW a, NEW l PROVE LeftOf(r, l, a) = OneTickLess(LeftOf(q, l, a))
  <2>1. CASE InQueue(q, a)
    <3>1. PICK i \in 1 .. n : q[i].arg = a /\ r[i].arg = a
      BY <1>1, <1>2, <2>1 DEF InQueue
    <3>2. LeftOf(q, l, a) = q[i].left
      BY <1>1, <3>1, LeftOfQueued
    <3>3. LeftOf(r, l, a) = r[i].left
      BY <1>4, <1>6, <3>1, LeftOfQueued
    <3>4. QED BY <1>2, <3>2, <3>3
  <2>2. CASE ~InQueue(q, a)
    BY <1>8, <2>2, TickIsMonotone DEF LeftOf
  <2>3. QED BY <2>1, <2>2
<1>10. QED BY <1>4, <1>5, <1>6, <1>7, <1>8, <1>9

-----------------------------------------------------------------------------
(* An expired timer goes to the end of the list.                           *)
LEMMA ListGrows ==
    ASSUME NEW l \in Seq(Args), Once(l), NEW a \in Args, ~InList(l, a)
    PROVE  /\ Append(l, a) \in Seq(Args) /\ Once(Append(l, a)) /\ Append(l, a) # << >>
           /\ \A b : InList(Append(l, a), b) <=> InList(l, b) \/ b = a
<1>1. PICK n \in Nat : n = Len(l) /\ DOMAIN l = 1 .. n
  OBVIOUS
<1>2. PICK m : m = Append(l, a)
  OBVIOUS
<1>3. /\ m \in Seq(Args) /\ Len(m) = n + 1 /\ DOMAIN m = 1 .. (n + 1)
      /\ m[n + 1] = a /\ \A i \in 1 .. n : m[i] = l[i]
  BY <1>1, <1>2
<1>4. \A i \in 1 .. (n + 1) : i = n + 1 \/ i \in 1 .. n
  OBVIOUS
<1>5. \A i \in 1 .. n : l[i] # a
  BY <1>1 DEF InList
<1>6. Once(m)
  BY <1>1, <1>3, <1>4, <1>5 DEF Once
<1>7. ASSUME NEW b PROVE InList(m, b) <=> InList(l, b) \/ b = a
  <2>1. n + 1 \in 1 .. (n + 1) /\ \A i \in 1 .. n : i \in 1 .. (n + 1)
    OBVIOUS
  <2>2. QED BY <1>1, <1>3, <1>4, <2>1 DEF InList
<1>8. m # << >>
  BY <1>3
<1>9. QED BY <1>2, <1>3, <1>6, <1>7, <1>8

(* The oldest is taken from it.                                            *)
LEMMA ListShrinks ==
    ASSUME NEW l \in Seq(Args), Once(l), l # << >>
    PROVE  /\ Tail(l) \in Seq(Args) /\ Once(Tail(l)) /\ Head(l) \in Args
           /\ InList(l, Head(l)) /\ ~InList(Tail(l), Head(l))
           /\ \A b : b # Head(l) => (InList(Tail(l), b) <=> InList(l, b))
<1>1. PICK n \in Nat : n = Len(l) /\ DOMAIN l = 1 .. n /\ n > 0
  OBVIOUS
<1>2. PICK m : m = Tail(l)
  OBVIOUS
<1>3. /\ m \in Seq(Args) /\ Len(m) = n - 1 /\ DOMAIN m = 1 .. (n - 1)
      /\ \A i \in 1 .. (n - 1) : m[i] = l[i + 1]
  BY <1>1, <1>2
<1>4. Head(l) = l[1] /\ 1 \in 1 .. n /\ Head(l) \in Args
  BY <1>1
<1>5. \A i \in 1 .. (n - 1) : i + 1 \in 1 .. n /\ i + 1 # 1
  BY <1>1
<1>6. Once(m)
  <2>1. SUFFICES ASSUME NEW i \in 1 .. (n - 1), NEW j \in 1 .. (n - 1), m[i] = m[j]
                 PROVE  i = j
    BY <1>3 DEF Once
  <2>2. i + 1 = j + 1
    BY <1>1, <1>3, <1>5, <2>1 DEF Once
  <2>3. QED BY <2>2
<1>7. InList(l, Head(l))
  BY <1>1, <1>4 DEF InList
<1>8. ~InList(m, Head(l))
  BY <1>1, <1>3, <1>4, <1>5 DEF InList, Once
<1>9. ASSUME NEW b, b # Head(l) PROVE InList(m, b) <=> InList(l, b)
  <2>1. InList(m, b) => InList(l, b)
    BY <1>1, <1>3, <1>5 DEF InList
  <2>2. ASSUME NEW i \in 1 .. n, l[i] = b PROVE InList(m, b)
    <3>1. i - 1 \in 1 .. (n - 1) /\ (i - 1) + 1 = i
      BY <1>4, <1>9, <2>2
    <3>2. m[i - 1] = b
      BY <1>3, <2>2, <3>1
    <3>3. QED BY <1>3, <3>1, <3>2 DEF InList
  <2>3. QED BY <1>1, <2>1, <2>2 DEF InList
<1>10. QED BY <1>2, <1>3, <1>4, <1>6, <1>7, <1>8, <1>9

(* A caller sends a request.                                               *)
LEMMA RequestsGrow ==
    ASSUME NEW r \in Seq(Request), AskedOnce(r), NEW m \in Request,
           m.action = "ADD" => ~Asked(r, m.arg) /\ m.delay \in Delays
    PROVE  /\ Append(r, m) \in Seq(Request) /\ AskedOnce(Append(r, m))
           /\ \A b : Asked(Append(r, m), b) <=>
                        Asked(r, b) \/ (m.action = "ADD" /\ b = m.arg)
<1>1. PICK n \in Nat : n = Len(r) /\ DOMAIN r = 1 .. n
  OBVIOUS
<1>2. PICK s : s = Append(r, m)
  OBVIOUS
<1>3. /\ s \in Seq(Request) /\ Len(s) = n + 1 /\ DOMAIN s = 1 .. (n + 1)
      /\ s[n + 1] = m /\ \A i \in 1 .. n : s[i] = r[i]
  BY <1>1, <1>2
<1>4. \A i \in 1 .. (n + 1) : i = n + 1 \/ i \in 1 .. n
  OBVIOUS
<1>5. m.action = "ADD" => \A i \in 1 .. n : ~(r[i].action = "ADD" /\ r[i].arg = m.arg)
  BY <1>1 DEF Asked
<1>6. AskedOnce(s)
  <2>1. ASSUME NEW i \in 1 .. (n + 1), NEW j \in 1 .. (n + 1),
               s[i].action = "ADD", s[j].action = "ADD", s[i].arg = s[j].arg
        PROVE  i = j
    BY <1>1, <1>3, <1>4, <1>5, <2>1 DEF AskedOnce
  <2>2. ASSUME NEW i \in 1 .. (n + 1), s[i].action = "ADD" PROVE s[i].delay \in Delays
    BY <1>1, <1>3, <1>4, <2>2 DEF AskedOnce
  <2>3. QED BY <1>3, <2>1, <2>2 DEF AskedOnce
<1>7. ASSUME NEW b PROVE Asked(s, b) <=> Asked(r, b) \/ (m.action = "ADD" /\ b = m.arg)
  <2>1. n + 1 \in 1 .. (n + 1) /\ \A i \in 1 .. n : i \in 1 .. (n + 1)
    OBVIOUS
  <2>2. QED BY <1>1, <1>3, <1>4, <2>1 DEF Asked
<1>8. QED BY <1>2, <1>3, <1>6, <1>7

(* The server takes the first one.                                         *)
LEMMA RequestsShrink ==
    ASSUME NEW r \in Seq(Request), AskedOnce(r), r # << >>
    PROVE  /\ Tail(r) \in Seq(Request) /\ AskedOnce(Tail(r)) /\ Head(r) \in Request
           /\ \A b : Asked(Tail(r), b) => Asked(r, b)
           /\ Head(r).action = "ADD" =>
                 /\ Asked(r, Head(r).arg) /\ ~Asked(Tail(r), Head(r).arg)
                 /\ Head(r).delay \in Delays
<1>1. PICK n \in Nat : n = Len(r) /\ DOMAIN r = 1 .. n /\ n > 0
  OBVIOUS
<1>2. PICK s : s = Tail(r)
  OBVIOUS
<1>3. /\ s \in Seq(Request) /\ Len(s) = n - 1 /\ DOMAIN s = 1 .. (n - 1)
      /\ \A i \in 1 .. (n - 1) : s[i] = r[i + 1]
  BY <1>1, <1>2
<1>4. Head(r) = r[1] /\ 1 \in 1 .. n /\ Head(r) \in Request
  BY <1>1
<1>5. \A i \in 1 .. (n - 1) : i + 1 \in 1 .. n /\ i + 1 # 1
  BY <1>1
<1>6. AskedOnce(s)
  <2>1. ASSUME NEW i \in 1 .. (n - 1), NEW j \in 1 .. (n - 1),
               s[i].action = "ADD", s[j].action = "ADD", s[i].arg = s[j].arg
        PROVE  i = j
    <3>1. i + 1 = j + 1
      BY <1>1, <1>3, <1>5, <2>1 DEF AskedOnce
    <3>2. QED BY <3>1
  <2>2. ASSUME NEW i \in 1 .. (n - 1), s[i].action = "ADD" PROVE s[i].delay \in Delays
    BY <1>1, <1>3, <1>5, <2>2 DEF AskedOnce
  <2>3. QED BY <1>3, <2>1, <2>2 DEF AskedOnce
<1>7. \A b : Asked(s, b) => Asked(r, b)
  BY <1>1, <1>3, <1>5 DEF Asked
<1>8. ASSUME Head(r).action = "ADD"
      PROVE  /\ Asked(r, Head(r).arg) /\ ~Asked(s, Head(r).arg)
             /\ Head(r).delay \in Delays
  <2>1. Asked(r, Head(r).arg)
    BY <1>1, <1>4, <1>8 DEF Asked
  <2>2. ~Asked(s, Head(r).arg)
    BY <1>1, <1>3, <1>4, <1>5, <1>8 DEF Asked, AskedOnce
  <2>3. QED BY <1>1, <1>4, <1>8, <2>1, <2>2 DEF AskedOnce
<1>9. QED BY <1>2, <1>3, <1>4, <1>6, <1>7, <1>8

(* A caller gives up.                                                      *)
LEMMA RequestsUnheeded ==
    ASSUME NEW r \in Seq(Request), AskedOnce(r), NEW a, NEW s,
           s = [i \in DOMAIN r |->
                  IF r[i].arg = a THEN [r[i] EXCEPT !.waited = FALSE] ELSE r[i]]
    PROVE  s \in Seq(Request) /\ AskedOnce(s) /\ \A b : Asked(s, b) <=> Asked(r, b)
<1>1. PICK n \in Nat : n = Len(r) /\ DOMAIN r = 1 .. n
  OBVIOUS
<1>2. ASSUME NEW i \in 1 .. n
      PROVE  /\ s[i] \in Request /\ s[i].action = r[i].action /\ s[i].arg = r[i].arg
             /\ s[i].delay = r[i].delay
  <2>1. PICK m \in Request : m = r[i]
    BY <1>1
  <2>2. s[i] = IF m.arg = a THEN [m EXCEPT !.waited = FALSE] ELSE m
    BY <1>1, <2>1
  <2>3. PICK u : u = [m EXCEPT !.waited = FALSE]
    OBVIOUS
  <2>4. u \in Request /\ u.action = m.action /\ u.arg = m.arg /\ u.delay = m.delay
    BY <2>3 DEF Request
  <2>5. s[i] = u \/ s[i] = m
    BY <2>2, <2>3
  <2>6. QED BY <2>1, <2>4, <2>5
<1>3. DOMAIN s = 1 .. n /\ s = [i \in 1 .. n |-> s[i]]
  BY <1>1
<1>4. s \in Seq(Request) /\ Len(s) = n
  BY <1>2, <1>3
<1>5. AskedOnce(s)
  BY <1>1, <1>2, <1>4 DEF AskedOnce
<1>6. \A b : Asked(s, b) <=> Asked(r, b)
  BY <1>1, <1>2, <1>3 DEF Asked
<1>7. QED BY <1>4, <1>5, <1>6

-----------------------------------------------------------------------------
(* What select is given is a time or no time.                              *)
LEMMA RestType ==
    ASSUME NEW q \in Seq(Timer)
    PROVE  get_rest_time(q) \in Nat \cup {Unset}
<1>1. CASE q = << >>
  BY <1>1 DEF get_rest_time
<1>2. CASE q # << >>
  <2>1. 1 \in 1 .. Len(q)
    BY <1>2
  <2>2. q[1].left \in Nat
    BY <2>1, TimersOf
  <2>3. QED BY <1>2, <2>2 DEF get_rest_time
<1>3. QED BY <1>1, <1>2

(* The parts of the invariant that speak of the queue, the list and the    *)
(* requests.                                                               *)
Tidy(q, l, r) ==
    /\ q \in Seq(Timer) /\ Sorted(q) /\ Distinct(q)
    /\ l \in Seq(Args) /\ Once(l)
    /\ r \in Seq(Request) /\ AskedOnce(r)
    /\ Apart(q, l, r)

(* The parts that speak of the threads.                                    *)
Threads ==
    /\ server \in {"off", "failed", "select", "notify", "gone"}
    /\ rest \in Nat \cup {Unset}
    /\ timeout_thread_is_on \in BOOLEAN
    /\ task \in {"none", "count", "idle", "wait", "leave", "take", "handler"}
    /\ call \in [Args -> {"none", "init", "wait"}]
    /\ RestIsFirst
    /\ OneTask

(* Together they are the invariant.                                        *)
LEMMA InTwoParts == IInv <=> Tidy(timerq, timeout_list, requests) /\ Threads
<1>1. IInv => Tidy(timerq, timeout_list, requests) /\ Threads
  BY DEF IInv, Tidy, Threads, TypeOK
<1>2. ASSUME Tidy(timerq, timeout_list, requests), Threads PROVE IInv
  <2>1. running \in Args \cup {NoArg}
    BY <1>2 DEF Threads, OneTask
  <2>2. TypeOK
    BY <1>2, <2>1 DEF Tidy, Threads, TypeOK
  <2>3. QED BY <1>2, <2>2 DEF IInv, Tidy, Threads
<1>3. QED BY <1>1, <1>2

(* A request more.                                                         *)
LEMMA TidySend ==
    ASSUME NEW q, NEW l, NEW r, Tidy(q, l, r), NEW m \in Request,
           m.action = "ADD" => /\ ~InQueue(q, m.arg) /\ ~InList(l, m.arg)
                               /\ ~Asked(r, m.arg) /\ m.delay \in Delays
    PROVE  Tidy(q, l, Append(r, m))
<1>1. /\ Append(r, m) \in Seq(Request) /\ AskedOnce(Append(r, m))
      /\ \A b : Asked(Append(r, m), b) <=>
                   Asked(r, b) \/ (m.action = "ADD" /\ b = m.arg)
  BY RequestsGrow DEF Tidy
<1>2. Apart(q, l, Append(r, m))
  BY <1>1 DEF Tidy, Apart
<1>3. QED BY <1>1, <1>2 DEF Tidy

(* A request less.                                                         *)
LEMMA TidyServe ==
    ASSUME NEW q, NEW l, NEW r, Tidy(q, l, r), r # << >>
    PROVE  Tidy(q, l, Tail(r))
<1>1. /\ Tail(r) \in Seq(Request) /\ AskedOnce(Tail(r))
      /\ \A b : Asked(Tail(r), b) => Asked(r, b)
  BY RequestsShrink DEF Tidy
<1>2. Apart(q, l, Tail(r))
  BY <1>1 DEF Tidy, Apart
<1>3. QED BY <1>1, <1>2 DEF Tidy

(* What handle_msg makes of the queue.                                     *)
LEMMA AddIs ==
    ASSUME NEW q, NEW l, NEW r, Tidy(q, l, r), r # << >>, Head(r).action = "ADD"
    PROVE  /\ Head(r).arg \in Args /\ Head(r).delay \in Delays
           /\ ~InQueue(q, Head(r).arg) /\ ~InList(l, Head(r).arg)
           /\ handle_msg(q, Head(r)) \in Seq(Timer)
           /\ Sorted(handle_msg(q, Head(r))) /\ Distinct(handle_msg(q, Head(r)))
           /\ SameBut(q, handle_msg(q, Head(r)), Head(r).arg)
           /\ \E k \in 1 .. Len(handle_msg(q, Head(r))) :
                 handle_msg(q, Head(r))[k] = [arg |-> Head(r).arg, left |-> Head(r).delay]
<1>1. PICK m \in Request : m = Head(r)
  BY RequestsShrink DEF Tidy
<1>2. m.arg \in Args /\ m.action = "ADD"
  BY <1>1 DEF Request
<1>3. Asked(r, m.arg) /\ m.delay \in Delays
  BY <1>1, RequestsShrink DEF Tidy
<1>4. ~InQueue(q, m.arg) /\ ~InList(l, m.arg)
  BY <1>2, <1>3 DEF Tidy, Apart
<1>5. PICK t \in Timer : t = [arg |-> m.arg, left |-> m.delay]
  BY <1>2, <1>3, DelayAssumption DEF Timer
<1>6. handle_msg(q, m) = InsertTimer(q, t)
  BY <1>2, <1>5 DEF handle_msg
<1>7. t.arg = m.arg
  BY <1>5
<1>8. q \in Seq(Timer) /\ Sorted(q) /\ Distinct(q)
  BY DEF Tidy
<1>9. PICK s : s = InsertTimer(q, t)
  OBVIOUS
<1>10. /\ s \in Seq(Timer) /\ Sorted(s) /\ Distinct(s)
       /\ SameBut(q, s, m.arg)
       /\ \E k \in 1 .. Len(s) : s[k] = t
  BY <1>4, <1>7, <1>8, <1>9, InsertKeeps
<1>11. QED BY <1>1, <1>2, <1>3, <1>4, <1>5, <1>6, <1>9, <1>10

(* What the abstract specification sees of a change of the queue and the   *)
(* list: a timer is set, or some are removed.                              *)
Sets(q, l, q2, l2, a, d) ==
    /\ LeftOf(q, l, a) = Unset
    /\ \A b \in Args : LeftOf(q2, l2, b) = IF b = a THEN d ELSE LeftOf(q, l, b)

Drops(q, l, q2, l2, S) ==
    /\ \A b \in S : LeftOf(q, l, b) # Unset
    /\ \A b \in Args : LeftOf(q2, l2, b) = IF b \in S THEN Unset ELSE LeftOf(q, l, b)

(* A request to add.                                                       *)
LEMMA ServeAdd ==
    ASSUME NEW q, NEW l, NEW r, Tidy(q, l, r), r # << >>, Head(r).action = "ADD"
    PROVE  /\ Tidy(handle_msg(q, Head(r)), l, Tail(r))
           /\ \E a \in Args, d \in Delays : Sets(q, l, handle_msg(q, Head(r)), l, a, d)
<1>1. PICK a : a = Head(r).arg
  OBVIOUS
<1>2. PICK s : s = handle_msg(q, Head(r))
  OBVIOUS
<1>3. PICK d : d = Head(r).delay
  OBVIOUS
<1>4. /\ a \in Args /\ d \in Delays
      /\ ~InQueue(q, a) /\ ~InList(l, a)
      /\ s \in Seq(Timer) /\ Sorted(s) /\ Distinct(s)
      /\ SameBut(q, s, a)
      /\ \E k \in 1 .. Len(s) : s[k] = [arg |-> a, left |-> d]
  BY <1>1, <1>2, <1>3, AddIs
<1>5. q \in Seq(Timer) /\ Distinct(q) /\ Apart(q, l, r)
  BY DEF Tidy
<1>6. \A b \in Args : b # a => /\ InQueue(s, b) <=> InQueue(q, b)
                               /\ LeftOf(s, l, b) = LeftOf(q, l, b)
  BY <1>4, <1>5, SameLeft
<1>7. LeftOf(s, l, a) = d /\ LeftOf(q, l, a) = Unset
  <2>1. PICK k \in 1 .. Len(s) : s[k] = [arg |-> a, left |-> d]
    BY <1>4
  <2>2. s[k].arg = a /\ s[k].left = d
    BY <2>1
  <2>3. LeftOf(s, l, a) = d
    BY <1>4, <2>2, LeftOfQueued
  <2>4. QED BY <1>4, <2>3 DEF LeftOf
<1>8. Sets(q, l, s, l, a, d)
  BY <1>6, <1>7 DEF Sets
<1>9. ~Asked(Tail(r), a) /\ \A b : Asked(Tail(r), b) => Asked(r, b)
  BY <1>1, RequestsShrink DEF Tidy
<1>10. Apart(s, l, Tail(r))
  BY <1>4, <1>5, <1>6, <1>9 DEF Apart
<1>11. Tidy(s, l, Tail(r))
  BY <1>4, <1>10, TidyServe DEF Tidy
<1>12. QED BY <1>2, <1>4, <1>8, <1>11

(* A request to remove one.                                                *)
LEMMA ServeDel ==
    ASSUME NEW q, NEW l, NEW r, Tidy(q, l, r), r # << >>, Head(r).action = "DEL"
    PROVE  /\ Tidy(handle_msg(q, Head(r)), l, Tail(r))
           /\ \E S \in SUBSET Args : Drops(q, l, handle_msg(q, Head(r)), l, S)
<1>1. PICK a : a = Head(r).arg
  OBVIOUS
<1>2. PICK s : s = handle_msg(q, Head(r))
  OBVIOUS
<1>3. s = RemoveTimer(q, a)
  BY <1>1, <1>2 DEF handle_msg
<1>4. q \in Seq(Timer) /\ Sorted(q) /\ Distinct(q) /\ Apart(q, l, r)
  BY DEF Tidy
<1>5. Tidy(q, l, Tail(r))
  BY TidyServe
<1>6. CASE s = q
  <2>1. Drops(q, l, s, l, {})
    BY <1>6 DEF Drops
  <2>2. {} \in SUBSET Args
    OBVIOUS
  <2>3. QED BY <1>2, <1>5, <1>6, <2>1, <2>2
<1>7. CASE s # q
  <2>1. PICK p \in 1 .. Len(q) : q[p].arg = a /\ Removed(s, q, p)
    BY <1>3, <1>4, <1>7, RemoveTimerIs
  <2>2. /\ s \in Seq(Timer) /\ Sorted(s) /\ Distinct(s)
        /\ SameBut(q, s, a) /\ ~InQueue(s, a)
    BY <1>4, <2>1, RemoveKeeps
  <2>3. a \in Args /\ InQueue(q, a) /\ LeftOf(q, l, a) \in Nat
    BY <1>4, <2>1, LeftOfQueued, TimersOf
  <2>4. \A b \in Args : b # a => /\ InQueue(s, b) <=> InQueue(q, b)
                                 /\ LeftOf(s, l, b) = LeftOf(q, l, b)
    BY <1>4, <2>2, SameLeft
  <2>5. ~InList(l, a)
    BY <1>4, <2>3 DEF Apart
  <2>6. LeftOf(s, l, a) = Unset /\ LeftOf(q, l, a) # Unset
    BY <2>2, <2>3, <2>5, UnsetAssumption DEF LeftOf
  <2>7. Drops(q, l, s, l, {a})
    BY <2>4, <2>6 DEF Drops
  <2>8. Apart(s, l, Tail(r))
    BY <1>5, <2>2, <2>4 DEF Apart, Tidy
  <2>9. Tidy(s, l, Tail(r))
    BY <1>5, <2>2, <2>8 DEF Tidy
  <2>10. {a} \in SUBSET Args
    BY <2>3
  <2>11. QED BY <1>2, <2>7, <2>9, <2>10
<1>8. QED BY <1>6, <1>7

(* A request to remove all.                                                *)
LEMMA ServeAll ==
    ASSUME NEW q, NEW l, NEW r, Tidy(q, l, r), r # << >>,
           Head(r).action \notin {"ADD", "DEL"}
    PROVE  /\ Tidy(handle_msg(q, Head(r)), l, Tail(r))
           /\ \E S \in SUBSET Args : Drops(q, l, handle_msg(q, Head(r)), l, S)
<1>1. PICK s : s = << >>
  OBVIOUS
<1>2. handle_msg(q, Head(r)) = s
  BY <1>1 DEF handle_msg
<1>3. q \in Seq(Timer) /\ Distinct(q) /\ Apart(q, l, r)
  BY DEF Tidy
<1>4. s \in Seq(Timer) /\ Sorted(s) /\ Distinct(s) /\ \A a : ~InQueue(s, a)
  BY <1>1, EmptyQueue
<1>5. Tidy(q, l, Tail(r))
  BY TidyServe
<1>6. Tidy(s, l, Tail(r))
  BY <1>4, <1>5 DEF Tidy, Apart
<1>7. PICK S \in SUBSET Args : S = {a \in Args : InQueue(q, a)}
  OBVIOUS
<1>8. ASSUME NEW b \in S PROVE LeftOf(q, l, b) # Unset /\ LeftOf(s, l, b) = Unset
  <2>1. InQueue(q, b) /\ b \in Args
    BY <1>7
  <2>2. PICK i \in 1 .. Len(q) : q[i].arg = b
    BY <1>3, <2>1 DEF InQueue
  <2>3. LeftOf(q, l, b) \in Nat
    BY <1>3, <2>2, LeftOfQueued, TimersOf
  <2>4. ~InList(l, b)
    BY <1>3, <2>1 DEF Apart
  <2>5. QED BY <1>4, <2>3, <2>4, UnsetAssumption DEF LeftOf
<1>9. ASSUME NEW b \in Args, b \notin S PROVE LeftOf(s, l, b) = LeftOf(q, l, b)
  BY <1>4, <1>7, <1>9 DEF LeftOf
<1>10. Drops(q, l, s, l, S)
  BY <1>8, <1>9 DEF Drops
<1>11. QED BY <1>2, <1>6, <1>10

(* Any request.                                                            *)
LEMMA Serve ==
    ASSUME NEW q, NEW l, NEW r, Tidy(q, l, r), r # << >>
    PROVE  /\ Tidy(handle_msg(q, Head(r)), l, Tail(r))
           /\ \/ \E a \in Args, d \in Delays : Sets(q, l, handle_msg(q, Head(r)), l, a, d)
              \/ \E S \in SUBSET Args : Drops(q, l, handle_msg(q, Head(r)), l, S)
BY ServeAdd, ServeDel, ServeAll

(* The first timer of the queue goes to the list.  It is due, so what is   *)
(* left of it does not change.                                             *)
LEMMA Expire ==
    ASSUME NEW q, NEW l, NEW r, Tidy(q, l, r), q # << >>, get_rest_time(q) = 0
    PROVE  /\ Tidy(Tail(q), Append(l, Head(q).arg), r)
           /\ Append(l, Head(q).arg) # << >>
           /\ \A b \in Args : LeftOf(Tail(q), Append(l, Head(q).arg), b) = LeftOf(q, l, b)
<1>1. q \in Seq(Timer) /\ Sorted(q) /\ Distinct(q) /\ Apart(q, l, r)
  BY DEF Tidy
<1>2. Removed(Tail(q), q, 1) /\ Head(q) = q[1] /\ 1 \in 1 .. Len(q)
  BY <1>1, TailRemoves
<1>3. PICK a : a = q[1].arg /\ a = Head(q).arg
  BY <1>2
<1>4. PICK s : s = Tail(q)
  OBVIOUS
<1>5. /\ s \in Seq(Timer) /\ Sorted(s) /\ Distinct(s)
      /\ SameBut(q, s, a) /\ ~InQueue(s, a)
  BY <1>1, <1>2, <1>3, <1>4, RemoveKeeps
<1>6. a \in Args /\ InQueue(q, a) /\ LeftOf(q, l, a) = q[1].left
  BY <1>1, <1>2, <1>3, LeftOfQueued, TimersOf
<1>7. q[1].left = 0
  BY DEF get_rest_time
<1>8. ~InList(l, a) /\ ~Asked(r, a)
  BY <1>1, <1>6 DEF Apart
<1>9. PICK m : m = Append(l, a)
  OBVIOUS
<1>10. /\ m \in Seq(Args) /\ Once(m) /\ m # << >>
       /\ \A b : InList(m, b) <=> InList(l, b) \/ b = a
  BY <1>6, <1>8, <1>9, ListGrows DEF Tidy
<1>11. ASSUME NEW b \in Args, b # a
       PROVE  (InQueue(s, b) <=> InQueue(q, b)) /\ LeftOf(s, m, b) = LeftOf(q, l, b)
  <2>1. (InQueue(s, b) <=> InQueue(q, b)) /\ LeftOf(s, l, b) = LeftOf(q, l, b)
    BY <1>1, <1>5, <1>11, SameLeft
  <2>2. LeftOf(s, m, b) = LeftOf(s, l, b)
    BY <1>10, <1>11 DEF LeftOf
  <2>3. QED BY <2>1, <2>2
<1>12. LeftOf(s, m, a) = LeftOf(q, l, a)
  BY <1>5, <1>6, <1>7, <1>10 DEF LeftOf
<1>13. Apart(s, m, r)
  BY <1>1, <1>5, <1>8, <1>10, <1>11 DEF Apart
<1>14. Tidy(s, m, r)
  BY <1>5, <1>10, <1>13 DEF Tidy
<1>15. QED BY <1>3, <1>4, <1>9, <1>10, <1>11, <1>12, <1>14

(* The oldest timer leaves the list.                                       *)
LEMMA Take ==
    ASSUME NEW q, NEW l, NEW r, Tidy(q, l, r), l # << >>
    PROVE  /\ Tidy(q, Tail(l), r)
           /\ Head(l) \in Args
           /\ LeftOf(q, l, Head(l)) = 0
           /\ Drops(q, l, q, Tail(l), {Head(l)})
<1>1. PICK a : a = Head(l)
  OBVIOUS
<1>2. PICK m : m = Tail(l)
  OBVIOUS
<1>3. /\ m \in Seq(Args) /\ Once(m) /\ a \in Args
      /\ InList(l, a) /\ ~InList(m, a)
      /\ \A b : b # a => (InList(m, b) <=> InList(l, b))
  BY <1>1, <1>2, ListShrinks DEF Tidy
<1>4. ~InQueue(q, a)
  BY <1>3 DEF Tidy, Apart
<1>5. LeftOf(q, l, a) = 0 /\ LeftOf(q, m, a) = Unset
  BY <1>3, <1>4 DEF LeftOf
<1>6. ASSUME NEW b \in Args, b # a PROVE LeftOf(q, m, b) = LeftOf(q, l, b)
  BY <1>3, <1>6 DEF LeftOf
<1>7. Drops(q, l, q, m, {a})
  BY <1>5, <1>6, UnsetAssumption DEF Drops
<1>8. Apart(q, m, r)
  BY <1>3 DEF Tidy, Apart
<1>9. Tidy(q, m, r)
  BY <1>3, <1>8 DEF Tidy
<1>10. QED BY <1>1, <1>2, <1>3, <1>5, <1>7, <1>9

-----------------------------------------------------------------------------
(* The invariant after a step, from its two parts.                         *)
LEMMA FromTwoParts ==
    ASSUME Tidy(timerq', timeout_list', requests'), Threads'
    PROVE  IInv'
<1>1. (running \in Args \cup {NoArg})'
  BY DEF Threads, OneTask
<1>2. TypeOK'
  BY <1>1 DEF Tidy, Threads, TypeOK
<1>3. QED BY <1>2 DEF IInv, Tidy, Threads

(* What the abstract specification sees of a step.                         *)
SeenSame == \A b \in Args : LeftOf(timerq', timeout_list', b) = LeftOf(timerq, timeout_list, b)

Seen ==
    \/ \E a \in Args, d \in Delays :
          Sets(timerq, timeout_list, timerq', timeout_list', a, d) /\ running' = running
    \/ \E S \in SUBSET Args :
          Drops(timerq, timeout_list, timerq', timeout_list', S) /\ running' = running
    \/ \E a \in Args :
          /\ LeftOf(timerq, timeout_list, a) = 0
          /\ Drops(timerq, timeout_list, timerq', timeout_list', {a})
          /\ running = NoArg /\ running' = a
    \/ running # NoArg /\ running' = NoArg /\ SeenSame
    \/ /\ \A b \in Args : LeftOf(timerq', timeout_list', b)
                             = OneTickLess(LeftOf(timerq, timeout_list, b))
       /\ running' = running
    \/ SeenSame /\ running' = running

(* timer_init.                                                             *)
LEMMA InitStep ==
    ASSUME IInv, NEW a \in Args, timer_init(a)
    PROVE  IInv' /\ Seen
<1>1. Tidy(timerq, timeout_list, requests) /\ Threads
  BY InTwoParts
<1>2. UNCHANGED << rest, timerq, timeout_list, timeout_thread_is_on, task, running, requests >>
  BY DEF timer_init
<1>3. server = "off" /\ server' \in {"select", "failed"}
  BY DEF timer_init
<1>4. call' \in [Args -> {"none", "init", "wait"}]
  BY <1>1 DEF timer_init, Threads
<1>5. Threads'
  <2>1. RestIsFirst'
    BY <1>1, <1>2, <1>3 DEF Threads, RestIsFirst
  <2>2. OneTask'
    BY <1>1, <1>2 DEF Threads, OneTask
  <2>3. QED BY <1>1, <1>2, <1>3, <1>4, <2>1, <2>2 DEF Threads
<1>6. Tidy(timerq', timeout_list', requests')
  BY <1>1, <1>2
<1>7. Seen
  BY <1>2 DEF Seen, SeenSame
<1>8. QED BY <1>5, <1>6, <1>7, FromTwoParts

(* The calls that send a request.                                          *)
LEMMA SendStep ==
    ASSUME IInv, NEW a \in Args, NEW d \in Delays \cup {0},
           NEW action \in {"ADD", "DEL", "DEL_ALL", "DESTROY"},
           send_msg(a, action, d),
           action = "ADD" => d \in Delays /\ ~Queued(a) /\ ~Pending(a) /\ ~Requested(a)
    PROVE  IInv' /\ Seen
<1>1. Tidy(timerq, timeout_list, requests) /\ Threads
  BY InTwoParts
<1>2. UNCHANGED << server, rest, timerq, timeout_list, timeout_thread_is_on, task, running >>
  BY DEF send_msg
<1>3. PICK m : m = [action |-> action, arg |-> a, delay |-> d, waited |-> action # "DESTROY"]
  OBVIOUS
<1>4. m \in Request /\ m.action = action /\ m.arg = a /\ m.delay = d
  BY <1>3 DEF Request
<1>5. requests' = Append(requests, m)
  BY <1>3 DEF send_msg
<1>6. action = "ADD" => /\ ~InQueue(timerq, a) /\ ~InList(timeout_list, a)
                        /\ ~Asked(requests, a) /\ d \in Delays
  BY DEF Queued, Pending, Requested, InQueue, InList, Asked
<1>7. Tidy(timerq, timeout_list, Append(requests, m))
  BY <1>1, <1>4, <1>6, TidySend
<1>8. call' \in [Args -> {"none", "init", "wait"}]
  BY <1>1 DEF send_msg, Threads
<1>9. Threads'
  <2>1. RestIsFirst'
    BY <1>1, <1>2 DEF Threads, RestIsFirst
  <2>2. OneTask'
    BY <1>1, <1>2 DEF Threads, OneTask
  <2>3. QED BY <1>1, <1>2, <1>8, <2>1, <2>2 DEF Threads
<1>10. Seen
  BY <1>2 DEF Seen, SeenSame
<1>11. QED BY <1>2, <1>5, <1>7, <1>9, <1>10, FromTwoParts

(* A caller gives up.                                                      *)
LEMMA GiveUpStep ==
    ASSUME IInv, NEW a \in Args, recv_timeout(a)
    PROVE  IInv' /\ Seen
<1>1. Tidy(timerq, timeout_list, requests) /\ Threads
  BY InTwoParts
<1>2. UNCHANGED << server, rest, timerq, timeout_list, timeout_thread_is_on, task, running >>
  BY DEF recv_timeout
<1>3. /\ requests' \in Seq(Request) /\ AskedOnce(requests')
      /\ \A b : Asked(requests', b) <=> Asked(requests, b)
  <2>1. PICK s : s = [i \in DOMAIN requests |->
                        IF requests[i].arg = a
                          THEN [requests[i] EXCEPT !.waited = FALSE] ELSE requests[i]]
    OBVIOUS
  <2>2. requests \in Seq(Request) /\ AskedOnce(requests)
    BY <1>1 DEF Tidy
  <2>3. s \in Seq(Request) /\ AskedOnce(s) /\ \A b : Asked(s, b) <=> Asked(requests, b)
    BY <2>1, <2>2, RequestsUnheeded
  <2>4. requests' = s
    BY <2>1 DEF recv_timeout
  <2>5. QED BY <2>3, <2>4
<1>4. Tidy(timerq, timeout_list, requests')
  BY <1>1, <1>3 DEF Tidy, Apart
<1>5. call' \in [Args -> {"none", "init", "wait"}]
  BY <1>1 DEF recv_timeout, Threads
<1>6. Threads'
  <2>1. RestIsFirst'
    BY <1>1, <1>2 DEF Threads, RestIsFirst
  <2>2. OneTask'
    BY <1>1, <1>2 DEF Threads, OneTask
  <2>3. QED BY <1>1, <1>2, <1>5, <2>1, <2>2 DEF Threads
<1>7. Seen
  BY <1>2 DEF Seen, SeenSame
<1>8. QED BY <1>2, <1>4, <1>6, <1>7, FromTwoParts

(* The answer to a caller.                                                 *)
LEMMA AnswerType ==
    ASSUME NEW m \in Request, call \in [Args -> {"none", "init", "wait"}]
    PROVE  Answer(m) \in [Args -> {"none", "init", "wait"}]
BY DEF Answer

(* The server handles a request.                                           *)
LEMMA ServeStep ==
    ASSUME IInv, handle_proc_req
    PROVE  IInv' /\ Seen
<1>1. Tidy(timerq, timeout_list, requests) /\ Threads
  BY InTwoParts
<1>2. /\ requests # << >> /\ requests' = Tail(requests)
      /\ timerq' = handle_msg(timerq, Head(requests))
      /\ call' = Answer(Head(requests))
      /\ rest' = get_rest_time(timerq')
      /\ server' \in {"gone", "select"}
      /\ UNCHANGED << timeout_list, timeout_thread_is_on, task, running >>
  BY DEF handle_proc_req
<1>3. /\ Tidy(timerq', timeout_list, requests')
      /\ \/ \E a \in Args, d \in Delays :
               Sets(timerq, timeout_list, timerq', timeout_list, a, d)
         \/ \E S \in SUBSET Args : Drops(timerq, timeout_list, timerq', timeout_list, S)
  BY <1>1, <1>2, Serve
<1>4. Tidy(timerq', timeout_list', requests')
  BY <1>2, <1>3
<1>5. Seen
  BY <1>2, <1>3 DEF Seen
<1>6. call' \in [Args -> {"none", "init", "wait"}]
  <2>1. Head(requests) \in Request
    BY <1>1, <1>2, RequestsShrink DEF Tidy
  <2>2. QED BY <1>1, <1>2, <2>1, AnswerType DEF Threads
<1>7. rest' \in Nat \cup {Unset}
  BY <1>2, <1>3, RestType DEF Tidy
<1>8. RestIsFirst'
  BY <1>2 DEF RestIsFirst, get_rest_time
<1>9. OneTask'
  BY <1>1, <1>2 DEF Threads, OneTask
<1>10. Threads'
  BY <1>1, <1>2, <1>6, <1>7, <1>8, <1>9 DEF Threads
<1>11. QED BY <1>4, <1>5, <1>10, FromTwoParts

(* The message of a request does not come.                                 *)
LEMMA FailStep ==
    ASSUME IInv, recv_failed
    PROVE  IInv' /\ Seen
<1>1. Tidy(timerq, timeout_list, requests) /\ Threads
  BY InTwoParts
<1>2. /\ requests # << >> /\ requests' = Tail(requests)
      /\ call' = Answer(Head(requests))
      /\ rest' = get_rest_time(timerq)
      /\ UNCHANGED << server, timerq, timeout_list, timeout_thread_is_on, task, running >>
  BY DEF recv_failed
<1>3. Tidy(timerq', timeout_list', requests')
  BY <1>1, <1>2, TidyServe
<1>4. Seen
  BY <1>2 DEF Seen, SeenSame
<1>5. call' \in [Args -> {"none", "init", "wait"}]
  <2>1. Head(requests) \in Request
    BY <1>1, <1>2, RequestsShrink DEF Tidy
  <2>2. QED BY <1>1, <1>2, <2>1, AnswerType DEF Threads
<1>6. rest' \in Nat \cup {Unset}
  BY <1>1, <1>2, RestType DEF Tidy
<1>7. RestIsFirst'
  BY <1>2 DEF RestIsFirst, get_rest_time
<1>8. OneTask'
  BY <1>1, <1>2 DEF Threads, OneTask
<1>9. Threads'
  BY <1>1, <1>2, <1>5, <1>6, <1>7, <1>8 DEF Threads
<1>10. QED BY <1>3, <1>4, <1>9, FromTwoParts

(* The first timer expires.                                                *)
LEMMA ExpireStep ==
    ASSUME IInv, timer_execute
    PROVE  IInv' /\ Seen
<1>1. Tidy(timerq, timeout_list, requests) /\ Threads
  BY InTwoParts
<1>2. /\ server = "select" /\ rest = 0
      /\ timerq' = Tail(timerq)
      /\ timeout_list' = Append(timeout_list, Head(timerq).arg)
      /\ server' = "notify"
      /\ UNCHANGED << rest, timeout_thread_is_on, task, running, requests, call >>
  BY DEF timer_execute
<1>3. get_rest_time(timerq) = 0
  BY <1>1, <1>2 DEF Threads, RestIsFirst
<1>4. timerq # << >>
  BY <1>3, UnsetAssumption DEF get_rest_time
<1>5. /\ Tidy(timerq', timeout_list', requests)
      /\ timeout_list' # << >>
      /\ \A b \in Args : LeftOf(timerq', timeout_list', b) = LeftOf(timerq, timeout_list, b)
  BY <1>1, <1>2, <1>3, <1>4, Expire
<1>6. Tidy(timerq', timeout_list', requests')
  BY <1>2, <1>5
<1>7. Seen
  BY <1>2, <1>5 DEF Seen, SeenSame
<1>8. RestIsFirst'
  BY <1>2 DEF RestIsFirst
<1>9. OneTask'
  BY <1>1, <1>2, <1>5 DEF Threads, OneTask
<1>10. Threads'
  BY <1>1, <1>2, <1>8, <1>9 DEF Threads
<1>11. QED BY <1>6, <1>7, <1>10, FromTwoParts

(* time_out_task is started or signalled.                                  *)
LEMMA NotifyStep ==
    ASSUME IInv, timer_notify
    PROVE  IInv' /\ Seen
<1>1. Tidy(timerq, timeout_list, requests) /\ Threads
  BY InTwoParts
<1>2. /\ timeout_thread_is_on' = TRUE
      /\ server' = "select"
      /\ rest' = get_rest_time(timerq)
      /\ UNCHANGED << timerq, timeout_list, running, requests, call >>
  BY DEF timer_notify
<1>3. \/ task' = "count" /\ task \in {"none", "wait"}
      \/ task' = task
  <2>1. CASE timeout_thread_is_on = FALSE
    BY <1>1, <2>1 DEF timer_notify, Threads, OneTask
  <2>2. CASE timeout_thread_is_on = TRUE
    BY <2>2 DEF timer_notify
  <2>3. QED BY <1>1, <2>1, <2>2 DEF Threads
<1>4. Tidy(timerq', timeout_list', requests')
  BY <1>1, <1>2
<1>5. Seen
  BY <1>2 DEF Seen, SeenSame
<1>6. RestIsFirst'
  BY <1>2 DEF RestIsFirst, get_rest_time
<1>7. OneTask'
  BY <1>1, <1>2, <1>3 DEF Threads, OneTask
<1>8. rest' \in Nat \cup {Unset}
  BY <1>1, <1>2, RestType DEF Tidy
<1>9. task' \in {"none", "count", "idle", "wait", "leave", "take", "handler"}
  BY <1>1, <1>3 DEF Threads
<1>10. Threads'
  BY <1>1, <1>2, <1>6, <1>7, <1>8, <1>9 DEF Threads
<1>11. QED BY <1>4, <1>5, <1>10, FromTwoParts

(* time_out_task moves on without touching the list or a handler.          *)
LEMMA TaskMoves ==
    ASSUME IInv,
           UNCHANGED << server, rest, timerq, timeout_list, running, requests, call >>,
           task # "handler", task # "none",
           \/ /\ timeout_thread_is_on' = timeout_thread_is_on
              /\ task' \in {"count", "idle", "wait", "leave", "take"}
           \/ timeout_thread_is_on' = FALSE /\ task' = "none",
           task' = "take" => timeout_list # << >>
    PROVE  IInv' /\ Seen
<1>1. Tidy(timerq, timeout_list, requests) /\ Threads
  BY InTwoParts
<1>2. Tidy(timerq', timeout_list', requests')
  BY <1>1
<1>3. Seen
  BY DEF Seen, SeenSame
<1>4. RestIsFirst'
  BY <1>1 DEF Threads, RestIsFirst
<1>5. OneTask'
  BY <1>1 DEF Threads, OneTask
<1>6. task' \in {"none", "count", "idle", "wait", "leave", "take", "handler"}
  OBVIOUS
<1>7. timeout_thread_is_on' \in BOOLEAN
  BY <1>1 DEF Threads
<1>8. Threads'
  BY <1>1, <1>4, <1>5, <1>6, <1>7 DEF Threads
<1>9. QED BY <1>2, <1>3, <1>8, FromTwoParts

(* A handler is called.                                                    *)
LEMMA TakeStep ==
    ASSUME IInv, get_pending_list
    PROVE  IInv' /\ Seen
<1>1. Tidy(timerq, timeout_list, requests) /\ Threads
  BY InTwoParts
<1>2. /\ task = "take" /\ task' = "handler"
      /\ running' = Head(timeout_list)
      /\ timeout_list' = Tail(timeout_list)
      /\ UNCHANGED << server, rest, timerq, timeout_thread_is_on, requests, call >>
  BY DEF get_pending_list
<1>3. timeout_list # << >> /\ running = NoArg /\ timeout_thread_is_on # FALSE
  BY <1>1, <1>2 DEF Threads, OneTask
<1>4. /\ Tidy(timerq, timeout_list', requests)
      /\ running' \in Args
      /\ LeftOf(timerq, timeout_list, running') = 0
      /\ Drops(timerq, timeout_list, timerq, timeout_list', {running'})
  BY <1>1, <1>2, <1>3, Take
<1>5. Tidy(timerq', timeout_list', requests')
  BY <1>2, <1>4
<1>6. Seen
  <2>1. PICK a \in Args : a = running'
    BY <1>4
  <2>2. /\ LeftOf(timerq, timeout_list, a) = 0
        /\ Drops(timerq, timeout_list, timerq', timeout_list', {a})
        /\ running = NoArg /\ running' = a
    BY <1>2, <1>3, <1>4, <2>1
  <2>3. QED BY <2>2 DEF Seen
<1>7. RestIsFirst'
  BY <1>1, <1>2 DEF Threads, RestIsFirst
<1>8. OneTask'
  BY <1>2, <1>3, <1>4 DEF OneTask
<1>9. Threads'
  BY <1>1, <1>2, <1>7, <1>8 DEF Threads
<1>10. QED BY <1>5, <1>6, <1>9, FromTwoParts

(* A handler returns.                                                      *)
LEMMA ReturnStep ==
    ASSUME IInv, handler_return
    PROVE  IInv' /\ Seen
<1>1. Tidy(timerq, timeout_list, requests) /\ Threads
  BY InTwoParts
<1>2. /\ task = "handler" /\ task' = "count" /\ running' = NoArg
      /\ UNCHANGED << server, rest, timerq, timeout_list, timeout_thread_is_on,
                      requests, call >>
  BY DEF handler_return
<1>3. running \in Args /\ timeout_thread_is_on # FALSE
  BY <1>1, <1>2 DEF Threads, OneTask
<1>4. Seen
  BY <1>2, <1>3, UnsetAssumption DEF Seen, SeenSame
<1>5. RestIsFirst'
  BY <1>1, <1>2 DEF Threads, RestIsFirst
<1>6. OneTask'
  BY <1>2, <1>3 DEF OneTask
<1>7. Threads'
  BY <1>1, <1>2, <1>5, <1>6 DEF Threads
<1>8. Tidy(timerq', timeout_list', requests')
  BY <1>1, <1>2
<1>9. QED BY <1>4, <1>7, <1>8, FromTwoParts

(* Any step of time_out_task.                                              *)
LEMMA TaskStep ==
    ASSUME IInv, time_out_task
    PROVE  IInv' /\ Seen
<1>1. CASE get_pending_list_count
  BY <1>1, TaskMoves DEF get_pending_list_count
<1>2. CASE cond_timedwait
  BY <1>2, TaskMoves DEF cond_timedwait
<1>3. CASE cond_wakeup
  BY <1>3, TaskMoves DEF cond_wakeup
<1>4. CASE task_exit
  BY <1>4, TaskMoves DEF task_exit
<1>5. QED BY <1>1, <1>2, <1>3, <1>4, TakeStep, ReturnStep DEF time_out_task

(* Time passes.                                                            *)
LEMMA TickStep ==
    ASSUME IInv, Tick
    PROVE  IInv' /\ Seen
<1>1. Tidy(timerq, timeout_list, requests) /\ Threads
  BY InTwoParts
<1>2. /\ timerq' = OneTickLater(timerq) /\ rest' = OneTickLess(rest)
      /\ UNCHANGED << server, timeout_list, timeout_thread_is_on, task, running,
                      requests, call >>
  BY DEF Tick, OneTickLater
<1>3. timerq \in Seq(Timer) /\ Sorted(timerq) /\ Distinct(timerq)
  BY <1>1 DEF Tidy
<1>4. /\ timerq' \in Seq(Timer) /\ Sorted(timerq') /\ Distinct(timerq')
      /\ get_rest_time(timerq') = OneTickLess(get_rest_time(timerq))
      /\ \A a : InQueue(timerq', a) <=> InQueue(timerq, a)
      /\ \A a, l : LeftOf(timerq', l, a) = OneTickLess(LeftOf(timerq, l, a))
  BY <1>2, <1>3, TickKeeps
<1>5. Tidy(timerq', timeout_list', requests')
  <2>1. Apart(timerq', timeout_list, requests)
    BY <1>1, <1>4 DEF Tidy, Apart
  <2>2. QED BY <1>1, <1>2, <1>4, <2>1 DEF Tidy
<1>6. Seen
  BY <1>2, <1>4 DEF Seen
<1>7. rest' \in Nat \cup {Unset}
  BY <1>1, <1>2, TickIsMonotone DEF Threads
<1>8. RestIsFirst'
  <2>1. ASSUME server \in {"off", "select"} PROVE rest' = get_rest_time(timerq')
    BY <1>1, <1>2, <1>4, <2>1 DEF Threads, RestIsFirst
  <2>2. QED BY <1>2, <2>1 DEF RestIsFirst, get_rest_time
<1>9. OneTask'
  BY <1>1, <1>2 DEF Threads, OneTask
<1>10. Threads'
  BY <1>1, <1>2, <1>7, <1>8, <1>9 DEF Threads
<1>11. QED BY <1>5, <1>6, <1>10, FromTwoParts

(* Every step keeps the invariant and is one the abstract specification    *)
(* knows.                                                                  *)
LEMMA EveryStep ==
    ASSUME IInv, [Next]_vars
    PROVE  IInv' /\ Seen
<1>1. ASSUME NEW a \in Args, timer_init(a) PROVE IInv' /\ Seen
  BY <1>1, InitStep
<1>2. ASSUME NEW a \in Args, NEW d \in Delays, timer_add(a, d) PROVE IInv' /\ Seen
  BY <1>2, SendStep DEF timer_add
<1>3. ASSUME NEW a \in Args, timer_rem(a) \/ timer_clear(a) \/ timer_destroy(a)
      PROVE  IInv' /\ Seen
  BY <1>3, SendStep DEF timer_rem, timer_clear, timer_destroy
<1>4. ASSUME NEW a \in Args, recv_timeout(a) PROVE IInv' /\ Seen
  BY <1>4, GiveUpStep
<1>5. CASE UNCHANGED vars
  <2>1. Tidy(timerq, timeout_list, requests) /\ Threads
    BY InTwoParts
  <2>2. UNCHANGED << server, rest, timerq, timeout_list, timeout_thread_is_on, task,
                     running, requests, call >>
    BY <1>5 DEF vars
  <2>3. RestIsFirst' /\ OneTask'
    BY <2>1, <2>2 DEF Threads, RestIsFirst, OneTask
  <2>4. Threads'
    BY <2>1, <2>2, <2>3 DEF Threads
  <2>5. Tidy(timerq', timeout_list', requests') /\ Seen
    BY <2>1, <2>2 DEF Seen, SeenSame
  <2>6. QED BY <2>4, <2>5, FromTwoParts
<1>6. CASE handle_proc_req \/ recv_failed \/ timer_execute \/ timer_notify
  BY <1>6, ServeStep, FailStep, ExpireStep, NotifyStep
<1>7. CASE time_out_task \/ Tick
  BY <1>7, TaskStep, TickStep
<1>8. QED BY <1>1, <1>2, <1>3, <1>4, <1>5, <1>6, <1>7 DEF Next

-----------------------------------------------------------------------------
(* The inductive invariant holds in every reachable state of the library.  *)
THEOREM Invariance == Spec => []IInv
<1>1. Init => IInv
  <2> SUFFICES ASSUME Init PROVE IInv
    OBVIOUS
  <2>1. Tidy(timerq, timeout_list, requests)
    <3>1. timerq = << >> /\ timeout_list = << >> /\ requests = << >>
      BY DEF Init
    <3>2. /\ << >> \in Seq(Args) /\ Once(<< >>) /\ << >> \in Seq(Request)
          /\ AskedOnce(<< >>)
      BY DEF Once, AskedOnce
    <3>3. \A a : ~InList(<< >>, a) /\ ~Asked(<< >>, a)
      BY DEF InList, Asked
    <3>4. Apart(<< >>, << >>, << >>)
      BY <3>3 DEF Apart
    <3>5. QED BY <3>1, <3>2, <3>4, EmptyQueue DEF Tidy
  <2>2. Threads
    BY DEF Init, Threads, RestIsFirst, OneTask, get_rest_time
  <2>3. QED BY <2>1, <2>2, InTwoParts
<1>2. IInv /\ [Next]_vars => IInv'
  BY EveryStep
<1>3. QED BY <1>1, <1>2, PTL DEF Spec

(* Every variable of the library keeps its type.                           *)
THEOREM TypeCorrect == Spec => []TypeOK
<1>1. IInv => TypeOK
  BY DEF IInv
<1>2. QED BY <1>1, Invariance, PTL

(* select sleeps until the earliest timer is due, whatever has been added, *)
(* removed or has expired: the queue is sorted, and what select is given   *)
(* is the time of its first timer.                                         *)
THEOREM DeadlineCorrect == Spec => []DeadlineIsEarliest
<1>1. IInv => DeadlineIsEarliest
  <2> SUFFICES ASSUME IInv, server = "select"
               PROVE  IF timerq = << >> THEN rest = Unset
                      ELSE rest = Min({timerq[i].left : i \in DOMAIN timerq})
    BY DEF DeadlineIsEarliest
  <2>1. Tidy(timerq, timeout_list, requests) /\ Threads
    BY InTwoParts
  <2>2. rest = get_rest_time(timerq)
    BY <2>1 DEF Threads, RestIsFirst
  <2>3. CASE timerq = << >>
    BY <2>2, <2>3 DEF get_rest_time
  <2>4. CASE timerq # << >>
    <3>1. PICK q \in Seq(Timer) : q = timerq
      BY <2>1 DEF Tidy
    <3>2. PICK n \in Nat : n = Len(q) /\ DOMAIN q = 1 .. n /\ 1 \in 1 .. n
      BY <2>4, <3>1
    <3>3. PICK S : S = {q[i].left : i \in 1 .. n}
      OBVIOUS
    <3>4. \A i \in 1 .. n : q[i].left \in Nat /\ q[1].left <= q[i].left
      <4>1. Sorted(q)
        BY <2>1, <3>1 DEF Tidy
      <4>2. \A i \in 1 .. n : 1 <= i
        OBVIOUS
      <4>3. QED BY <3>2, <4>1, <4>2, TimersOf DEF Sorted
    <3>5. S \subseteq Nat /\ q[1].left \in S /\ \A y \in S : q[1].left <= y
      BY <3>2, <3>3, <3>4
    <3>6. Min(S) \in S /\ \A y \in S : Min(S) <= y
      <4>1. S # {}
        BY <3>5
      <4>2. QED BY <3>5, <4>1, MinIs
    <3>7. Min(S) = q[1].left
      <4>1. Min(S) \in Nat /\ q[1].left \in Nat /\ Min(S) <= q[1].left /\ q[1].left <= Min(S)
        BY <3>5, <3>6
      <4>2. QED BY <4>1
    <3>8. rest = q[1].left
      BY <2>2, <2>4, <3>1 DEF get_rest_time
    <3>9. QED BY <2>4, <3>1, <3>2, <3>3, <3>7, <3>8
  <2>5. QED BY <2>3, <2>4
<1>2. QED BY <1>1, Invariance, PTL

(* The library implements TimerSpec: no handler runs before its time,      *)
(* twice, after its timer was removed or beside another.                   *)
THEOREM Refinement == Spec => KeepsPromise
<1> DEFINE L == [a \in Args |-> TimerLeft(a)]
<1>1. \A a \in Args : TimerLeft(a) = LeftOf(timerq, timeout_list, a)
  BY DEF TimerLeft, LeftOf, Queued, Pending, InQueue, InList
<1>2. \A a \in Args : TimerLeft(a)' = LeftOf(timerq', timeout_list', a)
  BY DEF TimerLeft, LeftOf, Queued, Pending, InQueue, InList
<1>3. Init => Promise!Init
  <2> SUFFICES ASSUME Init PROVE Promise!Init
    OBVIOUS
  <2>1. \A a \in Args : TimerLeft(a) = Unset
    BY DEF Init, TimerLeft, Queued, Pending
  <2>2. running = NoArg
    BY DEF Init
  <2>3. QED BY <2>1, <2>2 DEF Promise!Init
<1>4. IInv /\ [Next]_vars => [Promise!Next]_<< L, running >>
  <2> SUFFICES ASSUME Seen PROVE [Promise!Next]_<< L, running >>
    BY EveryStep
  <2>0. /\ \A b \in Args : L[b] = LeftOf(timerq, timeout_list, b)
        /\ \A b \in Args : (L')[b] = LeftOf(timerq', timeout_list', b)
        /\ L = [b \in Args |-> L[b]] /\ L' = [b \in Args |-> (L')[b]]
    BY <1>1, <1>2
  <2>1. ASSUME NEW a \in Args, NEW d \in Delays,
               Sets(timerq, timeout_list, timerq', timeout_list', a, d), running' = running
        PROVE  Promise!Next
    <3>0. L[a] = Unset /\ L' = [b \in Args |-> IF b = a THEN d ELSE L[b]]
      BY <2>0, <2>1 DEF Sets
    <3>1. L[a] = Unset /\ L' = [L EXCEPT ![a] = d]
      BY <3>0
    <3>2. Promise!Arm(a, d)
      BY <2>1, <3>1 DEF Promise!Arm
    <3>3. QED BY <3>2 DEF Promise!Next
  <2>2. ASSUME NEW S \in SUBSET Args,
               Drops(timerq, timeout_list, timerq', timeout_list', S), running' = running
        PROVE  Promise!Next
    <3>1. /\ \A b \in S : L[b] # Unset
          /\ L' = [b \in Args |-> IF b \in S THEN Unset ELSE L[b]]
      BY <2>0, <2>2 DEF Drops
    <3>2. S \in SUBSET Promise!Armed
      BY <3>1 DEF Promise!Armed
    <3>3. Promise!Disarm(S)
      BY <2>2, <3>1 DEF Promise!Disarm
    <3>4. QED BY <3>2, <3>3 DEF Promise!Next
  <2>3. ASSUME NEW a \in Args, LeftOf(timerq, timeout_list, a) = 0,
               Drops(timerq, timeout_list, timerq', timeout_list', {a}),
               running = NoArg, running' = a
        PROVE  Promise!Next
    <3>0. L[a] = 0 /\ L' = [b \in Args |-> IF b = a THEN Unset ELSE L[b]]
      BY <2>0, <2>3 DEF Drops
    <3>1. L[a] = 0 /\ L' = [L EXCEPT ![a] = Unset]
      BY <3>0
    <3>2. Promise!Run(a)
      BY <2>3, <3>1 DEF Promise!Run
    <3>3. QED BY <3>2 DEF Promise!Next
  <2>4. SeenSame => L' = L
    BY <2>0 DEF SeenSame
  <2>5. ASSUME running # NoArg, running' = NoArg, SeenSame PROVE Promise!Next
    <3>1. Promise!Return
      BY <2>4, <2>5 DEF Promise!Return
    <3>2. QED BY <3>1 DEF Promise!Next
  <2>6. ASSUME \A b \in Args : LeftOf(timerq', timeout_list', b)
                                  = OneTickLess(LeftOf(timerq, timeout_list, b)),
               running' = running
        PROVE  Promise!Next
    <3>1. L' = [b \in Args |-> IF L[b] \in {Unset, 0} THEN L[b] ELSE L[b] - 1]
      BY <2>0, <2>6 DEF OneTickLess
    <3>2. Promise!Tick
      BY <2>6, <3>1 DEF Promise!Tick
    <3>3. QED BY <3>2 DEF Promise!Next
  <2>7. QED BY <2>1, <2>2, <2>3, <2>4, <2>5, <2>6 DEF Seen
<1>5. QED BY <1>3, <1>4, Invariance, PTL DEF Spec, KeepsPromise, Promise!Spec
=============================================================================
