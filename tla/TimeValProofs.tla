---------------------------- MODULE TimeValProofs ----------------------------
(***************************************************************************)
(* Proofs about TimeVal, for any number of microseconds in a second and    *)
(* times of any length.                                                    *)
(***************************************************************************)
EXTENDS TimeVal, Integers, TLAPS

(* Whole seconds in microseconds.                                          *)
S(x) == x * MICRO_PER_SEC

(* Seconds in microseconds are a number.                                   *)
LEMMA SecondsInt == \A x \in Int : S(x) \in Int
BY MicroAssumption DEF S

(* Adding seconds.                                                         *)
LEMMA SecondsAdd == \A x, y \in Int : S(x + y) = S(x) + S(y)
BY MicroAssumption DEF S

(* One second more.                                                        *)
LEMMA SecondsMore == \A x \in Int : S(x + 1) = S(x) + MICRO_PER_SEC
BY MicroAssumption DEF S

(* A second more is worth at least MICRO_PER_SEC.                          *)
LEMMA SecondsLess ==
    ASSUME NEW x \in Int, NEW y \in Int, x < y
    PROVE  S(x) + MICRO_PER_SEC <= S(y)
<1>1. MICRO_PER_SEC \in Nat /\ MICRO_PER_SEC > 0
  BY MicroAssumption
<1>2. PICK d \in Nat : y = x + 1 + d
  <2>1. y - x - 1 \in Nat /\ y = x + 1 + (y - x - 1)
    OBVIOUS
  <2>2. QED BY <2>1
<1>3. S(y) = S(x) + MICRO_PER_SEC + S(d)
  BY <1>1, <1>2 DEF S
<1>4. S(d) \in Int /\ S(d) >= 0 /\ S(x) \in Int
  BY <1>1 DEF S
<1>5. QED BY <1>1, <1>3, <1>4

(* Less than two seconds are normalised by taking off one or none.         *)
LEMMA Carry ==
    ASSUME NEW a \in Nat, a < 2 * MICRO_PER_SEC
    PROVE  IF a < MICRO_PER_SEC
             THEN a \div MICRO_PER_SEC = 0 /\ a % MICRO_PER_SEC = a
             ELSE a \div MICRO_PER_SEC = 1 /\ a % MICRO_PER_SEC = a - MICRO_PER_SEC
BY MicroAssumption

(* Absolute adds a delay (ts, tu) to a time (ns, nu) exactly.              *)
AddsExactly(ns, nu, ts, tu) ==
    \E ds \in Nat, du \in 0 .. MAX_USEC :
       /\ ds = ns + ts + (nu + tu) \div MICRO_PER_SEC
       /\ du = (nu + tu) % MICRO_PER_SEC
       /\ S(ds) + du = (S(ns) + nu) + (S(ts) + tu)

(* It does so for every time and delay.                                    *)
LEMMA DueExact ==
    \A ns, ts \in Nat : \A nu, tu \in 0 .. MAX_USEC : AddsExactly(ns, nu, ts, tu)
<1> TAKE ns, ts \in Nat
<1> TAKE nu, tu \in 0 .. MAX_USEC
<1> DEFINE ds == ns + ts + (nu + tu) \div MICRO_PER_SEC
           du == (nu + tu) % MICRO_PER_SEC
<1> SUFFICES /\ ds \in Nat /\ du \in 0 .. MAX_USEC
             /\ S(ds) + du = (S(ns) + nu) + (S(ts) + tu)
  BY DEF AddsExactly
<1>1. /\ MICRO_PER_SEC \in Nat /\ MICRO_PER_SEC > 0 /\ MAX_USEC = MICRO_PER_SEC - 1
      /\ nu + tu \in Nat /\ nu + tu < 2 * MICRO_PER_SEC
  BY MicroAssumption DEF MAX_USEC
<1>2. S(ns) \in Int /\ S(ts) \in Int
  BY SecondsInt
<1>3. S(ns + ts) = S(ns) + S(ts)
  BY SecondsAdd
<1>4. CASE nu + tu < MICRO_PER_SEC
  <2>1. ds = ns + ts /\ du = nu + tu
    BY <1>1, <1>4, Carry
  <2> HIDE DEF ds, du
  <2>2. QED BY <1>1, <1>2, <1>3, <1>4, <2>1
<1>5. CASE nu + tu >= MICRO_PER_SEC
  <2>1. ds = ns + ts + 1 /\ du = nu + tu - MICRO_PER_SEC
    BY <1>1, <1>5, Carry
  <2> HIDE DEF ds, du
  <2>2. S(ns + ts + 1) = S(ns + ts) + MICRO_PER_SEC
    <3>1. ns + ts \in Int
      OBVIOUS
    <3>2. QED BY <3>1, SecondsMore
  <2>3. S(ds) + du = (S(ns) + nu) + (S(ts) + tu)
    BY <1>1, <1>2, <1>3, <2>1, <2>2
  <2>4. ds \in Nat /\ du \in 0 .. MAX_USEC
    BY <1>1, <1>5, <2>1
  <2>5. QED BY <2>3, <2>4
<1>6. QED BY <1>1, <1>4, <1>5

(* Comparing normalised times by seconds and then by microseconds.         *)
LEMMA LessExact ==
    ASSUME NEW ls \in Nat, NEW lu \in 0 .. MAX_USEC,
           NEW ds \in Nat, NEW du \in 0 .. MAX_USEC
    PROVE  (ls < ds \/ (ls = ds /\ lu < du)) <=> S(ls) + lu < S(ds) + du
<1>1. MICRO_PER_SEC \in Nat /\ MICRO_PER_SEC > 0 /\ MAX_USEC = MICRO_PER_SEC - 1
  BY MicroAssumption DEF MAX_USEC
<1>2. S(ls) \in Int /\ S(ds) \in Int
  BY SecondsInt
<1>3. ASSUME ls < ds PROVE S(ls) + MICRO_PER_SEC <= S(ds)
  BY <1>3, SecondsLess
<1>4. ASSUME ds < ls PROVE S(ds) + MICRO_PER_SEC <= S(ls)
  BY <1>4, SecondsLess
<1>5. QED BY <1>1, <1>2, <1>3, <1>4

(* Subtracting an earlier time: exact, or one microsecond short when a     *)
(* second has to be borrowed.                                              *)
LEMMA MinusExact ==
    ASSUME NEW ls \in Nat, NEW lu \in 0 .. MAX_USEC,
           NEW ds \in Nat, NEW du \in 0 .. MAX_USEC
    PROVE  /\ S(ds - ls) = S(ds) - S(ls)
           /\ S(ds - ls - 1) + (du + (MAX_USEC - lu)) = (S(ds) + du) - (S(ls) + lu) - 1
<1> DEFINE d == ds - ls
<1>1. MICRO_PER_SEC \in Nat /\ MAX_USEC = MICRO_PER_SEC - 1
  BY MicroAssumption DEF MAX_USEC
<1>2. d \in Int /\ d - 1 \in Int /\ ls + d = ds /\ (d - 1) + 1 = d
  OBVIOUS
<1> HIDE DEF d
<1>3. S(ls) \in Int /\ S(ds) \in Int
  BY SecondsInt
<1>4. S(d) \in Int /\ S(d - 1) \in Int
  BY <1>2, SecondsInt
<1>5. S(ls + d) = S(ls) + S(d)
  BY <1>2, SecondsAdd
<1>6. S((d - 1) + 1) = S(d - 1) + MICRO_PER_SEC
  BY <1>2, SecondsMore
<1>7. S(ds) = S(ls) + S(d) /\ S(d) = S(d - 1) + MICRO_PER_SEC
  BY <1>2, <1>5, <1>6
<1>8. /\ S(d) = S(ds) - S(ls)
      /\ S(d - 1) + (du + (MAX_USEC - lu)) = (S(ds) + du) - (S(ls) + lu) - 1
  BY <1>1, <1>3, <1>4, <1>7
<1>9. QED BY <1>8 DEF d

(* add_timernode_to_list, TV_LESS_THAN and TV_MINUS: a timer is due exactly*)
(* its delay later, and select is never asked to sleep past it.            *)
THEOREM RestCorrect == RestIsNeverLong
<1> SUFFICES ASSUME NEW now \in Times, NEW t \in Times, NEW later \in Times
             PROVE  LET due  == Absolute(now, t)
                        rest == TV_MINUS(due, later)
                    IN  /\ Micros(due) = Micros(now) + Micros(t)
                        /\ due.usec <= MAX_USEC
                        /\ TV_LESS_THAN(later, due) <=> Micros(later) < Micros(due)
                        /\ TV_LESS_THAN(later, due) =>
                              /\ rest.usec <= MAX_USEC
                              /\ Micros(rest) <= Micros(due) - Micros(later)
                              /\ Micros(rest) + 1 >= Micros(due) - Micros(later)
  BY DEF RestIsNeverLong
<1> DEFINE due == Absolute(now, t)
           rest == TV_MINUS(due, later)
<1>1. PICK ns \in Nat, nu \in 0 .. MAX_USEC : now.sec = ns /\ now.usec = nu
  BY MaxSecAssumption DEF Times
<1>2. PICK ts \in Nat, tu \in 0 .. MAX_USEC : t.sec = ts /\ t.usec = tu
  BY MaxSecAssumption DEF Times
<1>3. PICK ls \in Nat, lu \in 0 .. MAX_USEC : later.sec = ls /\ later.usec = lu
  BY MaxSecAssumption DEF Times
<1>4. PICK ds \in Nat, du \in 0 .. MAX_USEC :
              /\ ds = ns + ts + (nu + tu) \div MICRO_PER_SEC
              /\ du = (nu + tu) % MICRO_PER_SEC
              /\ S(ds) + du = (S(ns) + nu) + (S(ts) + tu)
  <2>1. AddsExactly(ns, nu, ts, tu)
    BY DueExact
  <2>2. QED BY <2>1 DEF AddsExactly
<1>5. due.sec = ds /\ due.usec = du
  BY <1>1, <1>2, <1>4 DEF Absolute
<1> HIDE DEF due
<1>6. /\ Micros(now) = S(ns) + nu /\ Micros(t) = S(ts) + tu
      /\ Micros(later) = S(ls) + lu /\ Micros(due) = S(ds) + du
  BY <1>1, <1>2, <1>3, <1>5 DEF Micros, S
<1>7. TV_LESS_THAN(later, due) <=> S(ls) + lu < S(ds) + du
  <2>1. TV_LESS_THAN(later, due) <=> (ls < ds \/ (ls = ds /\ lu < du))
    BY <1>3, <1>5 DEF TV_LESS_THAN
  <2>2. QED BY <2>1, LessExact
<1>8. /\ rest.usec <= MAX_USEC
      /\ Micros(rest) <= (S(ds) + du) - (S(ls) + lu)
      /\ Micros(rest) + 1 >= (S(ds) + du) - (S(ls) + lu)
  <2>1. /\ S(ds - ls) = S(ds) - S(ls)
        /\ S(ds - ls - 1) + (du + (MAX_USEC - lu)) = (S(ds) + du) - (S(ls) + lu) - 1
    BY MinusExact
  <2>2. S(ds) \in Int /\ S(ls) \in Int
    BY SecondsInt
  <2>3. MAX_USEC \in Nat
    BY MicroAssumption DEF MAX_USEC
  <2>4. CASE du >= lu
    <3>1. rest.sec = ds - ls /\ rest.usec = du - lu
      BY <1>3, <1>5, <2>4 DEF TV_MINUS
    <3>2. Micros(rest) = S(ds - ls) + (du - lu)
      BY <3>1 DEF Micros, S
    <3>3. QED BY <2>1, <2>2, <2>3, <2>4, <3>1, <3>2
  <2>5. CASE ~(du >= lu)
    <3>1. rest.sec = ds - ls - 1 /\ rest.usec = du + (MAX_USEC - lu)
      BY <1>3, <1>5, <2>5 DEF TV_MINUS
    <3>2. Micros(rest) = S(ds - ls - 1) + (du + (MAX_USEC - lu))
      BY <3>1 DEF Micros, S
    <3>3. QED BY <2>1, <2>2, <2>3, <2>5, <3>1, <3>2
  <2>6. QED BY <2>4, <2>5
<1>9. due.usec <= MAX_USEC
  BY <1>5
<1>10. QED BY <1>4, <1>6, <1>7, <1>8, <1>9 DEF due
=============================================================================
