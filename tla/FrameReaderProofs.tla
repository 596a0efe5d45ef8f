-------------------------- MODULE FrameReaderProofs --------------------------
(***************************************************************************)
(* Proofs about FrameReader, for headers and messages of any length and any*)
(* number of messages and connections.                                     *)
(***************************************************************************)
EXTENDS FrameReader, TLAPS

Piece == Nat \X Nat
Pc(i, p) == << i, p >>
Message == [size : Sizes, kind : Kinds]

(* The l pieces of q that are still to be handled are those of messages    *)
(* h + 1 to n, of sizes sz, one behind the other: off[i] pieces come before*)
(* message i.  The offsets grow; that they are sums need not be known.     *)
Laid(off, sz, n, h, q, l) ==
    /\ h <= n
    /\ off[h + 1] = 0
    /\ off[n + 1] = l
    /\ \A i \in (h + 1) .. n :
          /\ off[i + 1] = off[i] + sz[i]
          /\ off[i] + sz[i] <= l
          /\ \A j \in (i + 1) .. n : off[i] + sz[i] <= off[j]
          /\ \A p \in 1 .. sz[i] : q[off[i] + p] = Pc(i, p)

(* A function that gives the sizes of the messages of s.                   *)
SizesOf(sz, s) == \A i \in 1 .. Len(s) : sz[i] = s[i].size

StreamIsLaid ==
    \E off, sz \in [Nat -> Nat] :
       /\ SizesOf(sz, sent)
       /\ Laid(off, sz, Len(sent), Len(handled), input \o wire, Len(input \o wire))

(* OnReadCb leaves nothing behind that it could have worked on.            *)
NothingLeftUndone ==
    /\ Len(input) >= HEAD => buf_info.got_head = TRUE
    /\ buf_info.got_head = TRUE => Len(input) # buf_info.total_size

(* A session without a connection has nothing to read, and a client that   *)
(* waits for its answers has at most one request under way.                *)
OneRequest ==
    /\ conn = FALSE => sent = << >>
    /\ conn = TRUE /\ patient = TRUE => Len(sent) <= Len(handled) + 1

(* The inductive invariant.  What MessageHandle is given is a whole message*)
(* because the input starts at a message, and it does because the one      *)
(* before was whole.                                                       *)
IInv ==
    /\ TypeOK
    /\ WholeFramesInOrder
    /\ HeadOfThisFrame
    /\ StreamIsLaid
    /\ NothingLeftUndone
    /\ OneRequest

-----------------------------------------------------------------------------
(* The pieces of a message.                                                *)
LEMMA PiecesOf ==
    ASSUME NEW i \in Nat, NEW z \in Nat
    PROVE  /\ Pieces(i, z) \in Seq(Piece)
           /\ Len(Pieces(i, z)) = z
           /\ \A p \in 1 .. z : Pieces(i, z)[p] = Pc(i, p)
BY DEF Pieces, Piece, Pc

(* A sequence is known by its length and its elements.                     *)
LEMMA SameSequence ==
    ASSUME NEW T, NEW q \in Seq(T), NEW r \in Seq(T), Len(q) = Len(r),
           \A k \in 1 .. Len(q) : q[k] = r[k]
    PROVE  q = r
OBVIOUS

(* Sizes are lengths of at least a header.                                 *)
LEMMA SizeOf ==
    ASSUME NEW m \in Message
    PROVE  m.size \in Nat /\ m.size >= HEAD /\ m.size > 0 /\ m.kind \in Kinds
<1>1. m.size \in Sizes /\ m.kind \in Kinds
  BY DEF Message
<1>2. \A z \in Sizes : z \in Nat /\ z >= HEAD
  BY SizeAssumption
<1>3. QED BY <1>1, <1>2, HeadAssumption

(* At the start of a connection there is nothing to handle.                *)
LEMMA LaidEmpty ==
    ASSUME NEW q
    PROVE  \E off, sz \in [Nat -> Nat] : SizesOf(sz, << >>) /\ Laid(off, sz, 0, 0, q, 0)
<1> DEFINE zero == [i \in Nat |-> 0]
<1>1. zero \in [Nat -> Nat]
  OBVIOUS
<1>2. SizesOf(zero, << >>) /\ Laid(zero, zero, 0, 0, q, 0)
  BY DEF Laid, SizesOf
<1>3. QED BY <1>1, <1>2

(* Message i, of z pieces, comes behind the l pieces of q in q2.           *)
Behind(q, l, q2, i, z) ==
    /\ \A k \in 1 .. l : q2[k] = q[k]
    /\ \A p \in 1 .. z : q2[l + p] = Pc(i, p)

(* The client sends a message of size z.                                   *)
LEMMA LaidSend ==
    ASSUME NEW off \in [Nat -> Nat], NEW sz \in [Nat -> Nat],
           NEW n \in Nat, NEW h \in Nat, NEW q, NEW l \in Nat,
           Laid(off, sz, n, h, q, l),
           NEW z \in Nat, NEW q2, Behind(q, l, q2, n + 1, z)
    PROVE  /\ [off EXCEPT ![n + 2] = l + z] \in [Nat -> Nat]
           /\ [sz EXCEPT ![n + 1] = z] \in [Nat -> Nat]
           /\ Laid([off EXCEPT ![n + 2] = l + z], [sz EXCEPT ![n + 1] = z],
                   n + 1, h, q2, l + z)
<1> DEFINE sz2 == [sz EXCEPT ![n + 1] = z]
           off2 == [off EXCEPT ![n + 2] = l + z]
<1> USE DEF Behind
<1>1. h <= n /\ off[h + 1] = 0 /\ off[n + 1] = l
  BY DEF Laid
<1>2. /\ sz2 \in [Nat -> Nat] /\ sz2[n + 1] = z
      /\ \A i \in Nat : i # n + 1 => sz2[i] = sz[i]
  OBVIOUS
<1>3. /\ off2 \in [Nat -> Nat] /\ off2[n + 2] = l + z
      /\ \A i \in Nat : i # n + 2 => off2[i] = off[i]
  OBVIOUS
<1> HIDE DEF off2, sz2
<1>5. off2[h + 1] = 0 /\ off2[n + 1] = l
  BY <1>1, <1>3
<1>6. ASSUME NEW i \in (h + 1) .. (n + 1)
      PROVE  /\ off2[i + 1] = off2[i] + sz2[i]
             /\ off2[i] + sz2[i] <= l + z
             /\ \A j \in (i + 1) .. (n + 1) : off2[i] + sz2[i] <= off2[j]
             /\ \A p \in 1 .. sz2[i] : q2[off2[i] + p] = Pc(i, p)
  <2>1. CASE i = n + 1
    <3>1. sz2[i] = z /\ off2[i] = l /\ off2[i + 1] = l + z
      BY <1>2, <1>3, <1>5, <2>1
    <3>2. \A j \in (i + 1) .. (n + 1) : FALSE
      BY <2>1
    <3>3. QED BY <2>1, <3>1, <3>2
  <2>2. CASE i # n + 1
    <3>1. /\ i \in (h + 1) .. n /\ i \in Nat /\ i + 1 \in Nat
          /\ i # n + 2 /\ i + 1 # n + 2
      BY <2>2
    <3>2. sz2[i] = sz[i] /\ off2[i] = off[i] /\ off2[i + 1] = off[i + 1]
      BY <1>2, <1>3, <2>2, <3>1
    <3>3. sz[i] \in Nat /\ off[i] \in Nat
      BY <3>1
    <3>4. /\ off[i + 1] = off[i] + sz[i]
          /\ off[i] + sz[i] <= l
          /\ \A j \in (i + 1) .. n : off[i] + sz[i] <= off[j]
          /\ \A p \in 1 .. sz[i] : q[off[i] + p] = Pc(i, p)
      BY <3>1 DEF Laid
    <3>5. ASSUME NEW j \in (i + 1) .. (n + 1) PROVE off2[i] + sz2[i] <= off2[j]
      <4>1. CASE j = n + 1
        BY <1>5, <3>2, <3>4, <4>1
      <4>2. CASE j # n + 1
        <5>1. j \in (i + 1) .. n /\ j \in Nat /\ j # n + 2
          BY <3>1, <4>2
        <5>2. QED BY <1>3, <3>2, <3>4, <5>1
      <4>3. QED BY <4>1, <4>2
    <3>6. ASSUME NEW p \in 1 .. sz2[i] PROVE q2[off2[i] + p] = Pc(i, p)
      <4>1. off[i] + p \in 1 .. l /\ p \in 1 .. sz[i]
        BY <3>2, <3>3, <3>4
      <4>2. QED BY <3>2, <3>4, <4>1
    <3>7. off2[i] + sz2[i] <= l + z
      BY <3>2, <3>3, <3>4
    <3>8. QED BY <3>2, <3>4, <3>5, <3>6, <3>7
  <2>3. QED BY <2>1, <2>2
<1>7. h <= n + 1 /\ (n + 1) + 1 = n + 2
  BY <1>1
<1>8. Laid(off2, sz2, n + 1, h, q2, l + z)
  BY <1>3, <1>5, <1>6, <1>7 DEF Laid
<1>9. QED BY <1>2, <1>3, <1>8 DEF off2, sz2

(* What is to be handled starts with the next message.                     *)
StartsWithNext(sz, n, h, q, l) ==
    /\ h < n
    /\ sz[h + 1] <= l
    /\ \A p \in 1 .. sz[h + 1] : q[p] = Pc(h + 1, p)

(* So it is if there is anything to be handled.                            *)
LEMMA LaidHead ==
    ASSUME NEW off \in [Nat -> Nat], NEW sz \in [Nat -> Nat],
           NEW n \in Nat, NEW h \in Nat, NEW q, NEW l \in Nat,
           Laid(off, sz, n, h, q, l), l > 0
    PROVE  StartsWithNext(sz, n, h, q, l)
<1>1. h <= n /\ off[h + 1] = 0 /\ off[n + 1] = l
  BY DEF Laid
<1>2. h # n
  BY <1>1
<1>3. h + 1 \in (h + 1) .. n /\ sz[h + 1] \in Nat
  BY <1>1, <1>2
<1>4. /\ off[h + 1] + sz[h + 1] <= l
      /\ \A p \in 1 .. sz[h + 1] : q[off[h + 1] + p] = Pc(h + 1, p)
  BY <1>3 DEF Laid
<1>5. QED BY <1>1, <1>2, <1>3, <1>4 DEF StartsWithNext

(* The m pieces of r are those of q behind the first z.                    *)
Rest(r, m, q, z) == \A k \in 1 .. m : r[k] = q[z + k]

(* The next message is taken away, and r is left.                          *)
LEMMA LaidTake ==
    ASSUME NEW off \in [Nat -> Nat], NEW sz \in [Nat -> Nat],
           NEW n \in Nat, NEW h \in Nat, NEW q, NEW l \in Nat,
           Laid(off, sz, n, h, q, l), h < n,
           NEW r, NEW m \in Nat, m = l - sz[h + 1],
           Rest(r, m, q, sz[h + 1])
    PROVE  \E off2 \in [Nat -> Nat] : Laid(off2, sz, n, h + 1, r, m)
<1> DEFINE off2 == [i \in Nat |-> IF off[i] >= sz[h + 1] THEN off[i] - sz[h + 1] ELSE 0]
<1>1. PICK z \in Nat : z = sz[h + 1]
  OBVIOUS
<1>2. /\ m = l - z
      /\ h + 1 \in (h + 1) .. n
      /\ \A k \in 1 .. m : r[k] = q[z + k]
  BY <1>1 DEF Rest
<1>3. /\ off[h + 1] = 0 /\ off[n + 1] = l /\ off[h + 2] = z
      /\ z <= l
      /\ \A j \in (h + 2) .. n : z <= off[j]
  <2>1. /\ off[h + 1] = 0 /\ off[n + 1] = l
        /\ off[(h + 1) + 1] = off[h + 1] + z
        /\ off[h + 1] + z <= l
        /\ \A j \in ((h + 1) + 1) .. n : off[h + 1] + z <= off[j]
    BY <1>1, <1>2 DEF Laid
  <2>2. (h + 1) + 1 = h + 2
    OBVIOUS
  <2>3. QED BY <1>2, <2>1, <2>2
<1>4. /\ off2 \in [Nat -> Nat]
      /\ \A i \in Nat : off[i] >= z => off2[i] = off[i] - z
  <2>1. \A i \in Nat : off[i] \in Nat
    OBVIOUS
  <2>2. QED BY <1>1, <2>1
<1> HIDE DEF off2
<1>5. off2[h + 2] = 0 /\ off2[n + 1] = m
  BY <1>2, <1>3, <1>4
<1>6. ASSUME NEW i \in (h + 2) .. n
      PROVE  /\ off2[i + 1] = off2[i] + sz[i]
             /\ off2[i] + sz[i] <= m
             /\ \A j \in (i + 1) .. n : off2[i] + sz[i] <= off2[j]
             /\ \A p \in 1 .. sz[i] : r[off2[i] + p] = Pc(i, p)
  <2>1. i \in Nat /\ i + 1 \in Nat /\ i \in (h + 1) .. n
    OBVIOUS
  <2>2. sz[i] \in Nat /\ off[i] \in Nat /\ off[i] >= z
    BY <1>3, <2>1
  <2>3. /\ off[i + 1] = off[i] + sz[i]
        /\ off[i] + sz[i] <= l
        /\ \A j \in (i + 1) .. n : off[i] + sz[i] <= off[j]
        /\ \A p \in 1 .. sz[i] : q[off[i] + p] = Pc(i, p)
    BY <2>1 DEF Laid
  <2>4. off2[i] = off[i] - z /\ off2[i + 1] = off[i + 1] - z
    BY <1>4, <2>1, <2>2, <2>3
  <2>5. ASSUME NEW j \in (i + 1) .. n PROVE off2[i] + sz[i] <= off2[j]
    <3>1. j \in (h + 2) .. n /\ j \in Nat /\ off[j] \in Nat
      BY <2>1
    <3>2. off2[j] = off[j] - z /\ off[i] + sz[i] <= off[j]
      BY <1>3, <1>4, <2>3, <3>1
    <3>3. QED BY <2>2, <2>4, <3>1, <3>2
  <2>6. ASSUME NEW p \in 1 .. sz[i] PROVE r[off2[i] + p] = Pc(i, p)
    <3>1. off2[i] + p \in 1 .. m /\ z + (off2[i] + p) = off[i] + p
      BY <1>2, <2>2, <2>3, <2>4
    <3>2. r[off2[i] + p] = q[z + (off2[i] + p)]
      BY <1>2, <3>1
    <3>3. QED BY <2>3, <3>1, <3>2
  <2>7. off2[i + 1] = off2[i] + sz[i] /\ off2[i] + sz[i] <= m
    BY <1>2, <2>2, <2>3, <2>4
  <2>8. QED BY <2>5, <2>6, <2>7
<1>7. h + 1 <= n /\ (h + 1) + 1 = h + 2
  OBVIOUS
<1>8. Laid(off2, sz, n, h + 1, r, m)
  BY <1>5, <1>6, <1>7 DEF Laid
<1>9. QED BY <1>4, <1>8

-----------------------------------------------------------------------------
(* Two sequences joined.                                                   *)
LEMMA Joined ==
    ASSUME NEW T, NEW x \in Seq(T), NEW y \in Seq(T)
    PROVE  /\ x \o y \in Seq(T) /\ Len(x \o y) = Len(x) + Len(y)
           /\ \A k \in 1 .. Len(x) : (x \o y)[k] = x[k]
           /\ \A k \in 1 .. Len(y) : (x \o y)[Len(x) + k] = y[k]
OBVIOUS

(* A place in them that is not in the first is in the second.              *)
LEMMA After ==
    ASSUME NEW x \in Nat, NEW y \in Nat, NEW k \in 1 .. (x + y), k \notin 1 .. x
    PROVE  \E j \in 1 .. y : k = x + j
<1>1. k - x \in 1 .. y /\ k = x + (k - x)
  OBVIOUS
<1>2. QED BY <1>1

(* What OnReadCb makes of the input a and the wire w.                      *)
IsCut(a, w, n, b, r) ==
    /\ n \in 1 .. Len(w)
    /\ b = a \o SubSeq(w, 1, n)
    /\ r = SubSeq(w, n + 1, Len(w))

(* A read takes n pieces off the wire: the input and what is left are the  *)
(* same stream as before.                                                  *)
GoodCut(a, w, n, b, r) ==
    /\ b \in Seq(Piece) /\ Len(b) = Len(a) + n
    /\ r \in Seq(Piece) /\ Len(r) = Len(w) - n
    /\ \A k \in 1 .. Len(b) : b[k] = (a \o w)[k]
    /\ \A k \in 1 .. Len(r) : r[k] = (a \o w)[Len(b) + k]
    /\ b \o r = a \o w

(* A cut is good.                                                          *)
LEMMA Cut ==
    ASSUME NEW a \in Seq(Piece), NEW w \in Seq(Piece), NEW n, NEW b, NEW r,
           IsCut(a, w, n, b, r)
    PROVE  GoodCut(a, w, n, b, r)
<1>0. n \in 1 .. Len(w)
  BY DEF IsCut
<1>1. SubSeq(w, 1, n) \in Seq(Piece) /\ Len(SubSeq(w, 1, n)) = n
  BY DEF IsCut
<1>2. \A k \in 1 .. n : SubSeq(w, 1, n)[k] = w[k]
  BY DEF IsCut
<1>3. r \in Seq(Piece) /\ Len(r) = Len(w) - n
  BY DEF IsCut
<1>4. \A k \in 1 .. Len(w) - n : r[k] = w[n + k]
  BY DEF IsCut
<1>5. b \in Seq(Piece) /\ Len(b) = Len(a) + n
  BY <1>1 DEF IsCut
<1>6. \A k \in 1 .. Len(a) : b[k] = a[k]
  BY <1>1 DEF IsCut
<1>7. \A k \in 1 .. Len(b) : b[k] = (a \o w)[k]
  <2>1. SUFFICES ASSUME NEW k \in 1 .. Len(b) PROVE b[k] = (a \o w)[k]
    OBVIOUS
  <2>2. CASE k <= Len(a)
    BY <1>5, <1>6, <2>2
  <2>3. CASE k > Len(a)
    <3>1. k - Len(a) \in 1 .. n
      BY <1>0, <1>5, <2>3
    <3>2. b[k] = SubSeq(w, 1, n)[k - Len(a)] /\ (a \o w)[k] = w[k - Len(a)]
      BY <1>0, <1>1, <1>5, <2>3, <3>1 DEF IsCut
    <3>3. QED BY <1>2, <3>1, <3>2
  <2>4. k <= Len(a) \/ k > Len(a)
    BY <1>0, <1>5
  <2>5. QED BY <2>2, <2>3, <2>4
<1>8. \A k \in 1 .. Len(r) : r[k] = (a \o w)[Len(b) + k]
  BY <1>0, <1>3, <1>4, <1>5
<1>9. b \o r = a \o w
  <2>1. /\ b \o r \in Seq(Piece) /\ Len(b \o r) = Len(b) + Len(r)
        /\ a \o w \in Seq(Piece) /\ Len(a \o w) = Len(a) + Len(w)
    BY <1>3, <1>5, Joined
  <2>2. Len(b \o r) = Len(a \o w)
    <3>1. Len(a) \in Nat /\ Len(w) \in Nat
      OBVIOUS
    <3>2. QED BY <1>0, <1>3, <1>5, <2>1, <3>1
  <2>3. ASSUME NEW k \in 1 .. Len(b \o r) PROVE (b \o r)[k] = (a \o w)[k]
    <3>1. CASE k \in 1 .. Len(b)
      <4>1. (b \o r)[k] = b[k]
        BY <1>3, <1>5, <3>1, Joined
      <4>2. b[k] = (a \o w)[k]
        BY <1>7, <3>1, Zenon
      <4>3. QED BY <4>1, <4>2, Zenon
    <3>2. CASE k \notin 1 .. Len(b)
      <4>1. Len(b) \in Nat /\ Len(r) \in Nat /\ k \in 1 .. (Len(b) + Len(r))
        BY <1>3, <1>5, <2>1
      <4>2. PICK j \in 1 .. Len(r) : k = Len(b) + j
        BY <3>2, <4>1, After
      <4>3. (b \o r)[k] = r[j]
        BY <1>3, <1>5, <4>2, Joined
      <4>4. QED BY <1>8, <4>2, <4>3
    <3>3. QED BY <3>1, <3>2
  <2>4. QED BY <2>1, <2>2, <2>3, SameSequence
<1>10. QED BY <1>3, <1>5, <1>7, <1>8, <1>9, Zenon DEF GoodCut

-----------------------------------------------------------------------------
InfoType == [total_size : Sizes \cup {0}, msg_type : Kinds \cup {"none"},
             got_head : BOOLEAN]

(* The header in info is that of message m.                                *)
HeadOf(info, m) == info.total_size = m.size /\ info.msg_type = m.kind

(* What ResetInfo is.                                                      *)
LEMMA ResetIs == ResetInfo \in InfoType /\ ResetInfo.got_head = FALSE
BY DEF ResetInfo, InfoType

(* The types of the variables, in one place.                               *)
LEMMA Types ==
    ASSUME TypeOK
    PROVE  /\ sent \in Seq(Message) /\ wire \in Seq(Piece) /\ input \in Seq(Piece)
           /\ buf_info \in InfoType /\ handled \in Seq(Seq(Piece))
           /\ conn \in BOOLEAN /\ patient \in BOOLEAN /\ idle \in 0 .. MaxIdle
           /\ Len(sent) \in Nat /\ Len(handled) \in Nat
           /\ Len(input) \in Nat /\ Len(wire) \in Nat
BY DEF TypeOK, Message, Piece, InfoType

(* When there is something to handle, a next message exists and the stream *)
(* starts with it.                                                         *)
LEMMA NextMessage ==
    ASSUME TypeOK, StreamIsLaid, Len(input \o wire) > 0
    PROVE  /\ Len(handled) + 1 \in 1 .. Len(sent)
           /\ sent[Len(handled) + 1] \in Message
           /\ sent[Len(handled) + 1].size \in Nat
           /\ sent[Len(handled) + 1].size > 0
           /\ sent[Len(handled) + 1].size <= Len(input \o wire)
           /\ \A p \in 1 .. sent[Len(handled) + 1].size :
                 (input \o wire)[p] = Pc(Len(handled) + 1, p)
<1>1. PICK off, sz \in [Nat -> Nat] :
         /\ SizesOf(sz, sent)
         /\ Laid(off, sz, Len(sent), Len(handled), input \o wire, Len(input \o wire))
  BY DEF StreamIsLaid
<1>2. PICK l \in Nat : l = Len(input \o wire)
  BY Types, Joined
<1>3. PICK h \in Nat : h = Len(handled)
  BY Types
<1>4. PICK q : q = input \o wire
  OBVIOUS
<1>5. PICK n \in Nat : n = Len(sent)
  BY Types
<1>6. Laid(off, sz, n, h, q, l) /\ l > 0
  BY <1>1, <1>2, <1>3, <1>4, <1>5
<1>7. /\ h < n
      /\ sz[h + 1] <= l
      /\ \A p \in 1 .. sz[h + 1] : q[p] = Pc(h + 1, p)
  <2>1. StartsWithNext(sz, n, h, q, l)
    BY <1>6, LaidHead
  <2>2. QED BY <2>1 DEF StartsWithNext
<1>8. h + 1 \in 1 .. n
  BY <1>7
<1>9. sent[h + 1] \in Message
  BY <1>5, <1>8, Types
<1>10. sz[h + 1] = sent[h + 1].size
  BY <1>1, <1>5, <1>8 DEF SizesOf
<1>11. sent[h + 1].size \in Nat /\ sent[h + 1].size > 0
  BY <1>9, SizeOf
<1>12. /\ h + 1 \in 1 .. Len(sent)
       /\ sent[h + 1].size <= Len(input \o wire)
       /\ \A p \in 1 .. sent[h + 1].size : (input \o wire)[p] = Pc(h + 1, p)
  BY <1>2, <1>4, <1>5, <1>7, <1>8, <1>10
<1>13. QED BY <1>3, <1>9, <1>11, <1>12

(* The header a read leaves in buf_info is that of the next message, and it*)
(* is there as soon as there is enough input for it.                       *)
LEMMA HeadRead ==
    ASSUME IInv, NEW n, NEW b, NEW r, IsCut(input, wire, n, b, r),
           NEW info, info = ReadHead(b)
    PROVE  /\ info \in InfoType
           /\ b # << >> /\ b[1] = Pc(Len(handled) + 1, 1)
           /\ info.got_head = TRUE => HeadOf(info, sent[Len(handled) + 1])
           /\ Len(b) >= HEAD => info.got_head = TRUE
<1>1. TypeOK /\ StreamIsLaid /\ HeadOfThisFrame
  BY DEF IInv
<1>2. /\ b \in Seq(Piece) /\ Len(b) = Len(input) + n /\ n \in 1 .. Len(wire)
      /\ \A k \in 1 .. Len(b) : b[k] = (input \o wire)[k]
  <2>1. input \in Seq(Piece) /\ wire \in Seq(Piece)
    BY <1>1, Types
  <2>2. n \in 1 .. Len(wire)
    BY DEF IsCut
  <2>3. GoodCut(input, wire, n, b, r)
    BY <2>1, Cut
  <2>4. QED BY <2>2, <2>3, Zenon DEF GoodCut
<1>3. Len(b) \in Nat /\ Len(b) > 0 /\ 1 \in 1 .. Len(b)
  BY <1>1, <1>2, Types
<1>4. Len(input \o wire) > 0
  <2>1. Len(input \o wire) = Len(input) + Len(wire)
    BY <1>1, Types, Joined
  <2>2. QED BY <1>1, <1>2, <2>1, Types
<1>5. PICK h \in Nat : h = Len(handled)
  BY <1>1, Types
<1>6. /\ h + 1 \in 1 .. Len(sent) /\ sent[h + 1] \in Message
      /\ (input \o wire)[1] = Pc(h + 1, 1)
  BY <1>1, <1>4, <1>5, NextMessage
<1>7. b[1] = Pc(h + 1, 1)
  BY <1>2, <1>3, <1>6
<1>8. b # << >>
  BY <1>3
<1>9. b[1][1] = h + 1
  BY <1>7 DEF Pc
<1>10. sent[h + 1].size \in Sizes /\ sent[h + 1].kind \in Kinds
  BY <1>6 DEF Message
<1>11. buf_info \in InfoType
  BY <1>1, Types
<1>12. CASE buf_info.got_head = FALSE /\ Len(b) >= HEAD
  <2>1. info = [total_size |-> sent[h + 1].size, msg_type |-> sent[h + 1].kind,
                got_head |-> TRUE]
    BY <1>9, <1>12 DEF ReadHead
  <2>2. info \in InfoType /\ info.got_head = TRUE /\ HeadOf(info, sent[h + 1])
    BY <1>10, <2>1 DEF InfoType, HeadOf
  <2>3. QED BY <1>5, <1>7, <1>8, <2>2
<1>13. CASE ~(buf_info.got_head = FALSE /\ Len(b) >= HEAD)
  <2>1. buf_info.got_head \in BOOLEAN
    BY <1>11 DEF InfoType
  <2>2. info = buf_info
    BY <1>13, <2>1 DEF ReadHead
  <2>3. buf_info.got_head = TRUE => HeadOf(buf_info, sent[h + 1])
    BY <1>1, <1>5 DEF HeadOfThisFrame, HeadOf
  <2>4. Len(b) >= HEAD => buf_info.got_head = TRUE
    BY <1>13, <2>1
  <2>5. QED BY <1>5, <1>7, <1>8, <1>11, <2>2, <2>3, <2>4
<1>14. QED BY <1>12, <1>13

-----------------------------------------------------------------------------
(* A session without a connection satisfies the invariant, whatever its    *)
(* timer says.                                                             *)
Closed ==
    /\ conn = FALSE /\ sent = << >> /\ wire = << >> /\ input = << >>
    /\ buf_info = ResetInfo /\ handled = << >>
    /\ patient \in BOOLEAN /\ idle \in 0 .. MaxIdle

(* It does.                                                                *)
LEMMA ClosedIsGood == Closed => IInv
<1> SUFFICES ASSUME Closed PROVE IInv
  OBVIOUS
<1> USE DEF Closed
<1>1. TypeOK
  <2>1. buf_info \in InfoType
    BY ResetIs
  <2>2. /\ sent \in Seq(Message) /\ wire \in Seq(Piece) /\ input \in Seq(Piece)
        /\ handled \in Seq(Seq(Piece))
    OBVIOUS
  <2>3. conn \in BOOLEAN /\ patient \in BOOLEAN /\ idle \in 0 .. MaxIdle
    OBVIOUS
  <2> HIDE DEF Closed
  <2>4. QED BY <2>1, <2>2, <2>3 DEF TypeOK, InfoType, Message, Piece
<1>2. WholeFramesInOrder
  BY DEF WholeFramesInOrder
<1>3. HeadOfThisFrame
  BY ResetIs DEF HeadOfThisFrame
<1>4. StreamIsLaid
  <2>1. Len(input \o wire) = 0 /\ Len(sent) = 0 /\ Len(handled) = 0
    OBVIOUS
  <2>2. PICK off, sz \in [Nat -> Nat] :
           SizesOf(sz, << >>) /\ Laid(off, sz, 0, 0, input \o wire, 0)
    BY LaidEmpty
  <2>3. QED BY <2>1, <2>2 DEF StreamIsLaid
<1>5. NothingLeftUndone
  BY ResetIs, HeadAssumption DEF NothingLeftUndone
<1>6. OneRequest
  BY DEF OneRequest
<1>7. QED BY <1>1, <1>2, <1>3, <1>4, <1>5, <1>6 DEF IInv

(* ClosingClientCon leaves such a session.                                 *)
LEMMA ClosingPreserves ==
    ASSUME IInv, ClosingClientCon
    PROVE  IInv'
<1>1. Closed'
  BY Types DEF ClosingClientCon, Closed, ResetInfo, IInv
<1>2. QED BY <1>1, ClosedIsGood, PTL

(* Steps that leave the messages and the bytes alone.                      *)
LEMMA QuietPreserves ==
    ASSUME IInv, UNCHANGED << sent, wire, input, buf_info, handled >>,
           conn' \in BOOLEAN, patient' \in BOOLEAN, idle' \in 0 .. MaxIdle, OneRequest'
    PROVE  IInv'
<1>1. TypeOK'
  BY DEF IInv, TypeOK
<1>2. WholeFramesInOrder'
  BY DEF IInv, WholeFramesInOrder
<1>3. HeadOfThisFrame'
  BY DEF IInv, HeadOfThisFrame
<1>4. StreamIsLaid'
  BY DEF IInv, StreamIsLaid
<1>5. NothingLeftUndone'
  BY DEF IInv, NothingLeftUndone
<1>6. QED BY <1>1, <1>2, <1>3, <1>4, <1>5 DEF IInv

(* The client connects.                                                    *)
LEMMA ConnectPreserves ==
    ASSUME IInv, Connect
    PROVE  IInv'
<1>1. conn = FALSE /\ conn' = TRUE /\ patient' \in BOOLEAN /\ idle' \in 0 .. MaxIdle
  BY BoundAssumption, Types DEF Connect, IInv
<1>2. sent' = << >> /\ handled' = handled
  BY <1>1 DEF Connect, IInv, OneRequest
<1>3. OneRequest'
  <2>1. Len(sent') = 0 /\ Len(handled') \in Nat
    BY <1>2, Types DEF IInv
  <2>2. QED BY <1>1, <2>1 DEF OneRequest
<1>4. QED BY <1>1, <1>3, QuietPreserves DEF Connect

(* Time passes.                                                            *)
LEMMA TickPreserves ==
    ASSUME IInv, Tick
    PROVE  IInv'
<1>1. /\ conn' = conn /\ patient' = patient /\ conn \in BOOLEAN /\ patient \in BOOLEAN
      /\ idle' \in 0 .. MaxIdle
  BY BoundAssumption, Types DEF Tick, IInv
<1>2. OneRequest'
  BY <1>1 DEF Tick, IInv, OneRequest
<1>3. QED BY <1>1, <1>2, QuietPreserves DEF Tick

(* It does not matter which of three sequences are joined first.           *)
LEMMA JoinedTwice ==
    ASSUME NEW x \in Seq(Piece), NEW y \in Seq(Piece), NEW z \in Seq(Piece)
    PROVE  x \o (y \o z) = (x \o y) \o z
OBVIOUS

(* No more messages have been handled than were sent.                      *)
LEMMA HandledWereSent ==
    ASSUME TypeOK, StreamIsLaid
    PROVE  Len(handled) <= Len(sent)
BY DEF StreamIsLaid, Laid

(* The client sends a message.                                             *)
LEMMA SendPreserves ==
    ASSUME IInv, NEW size \in Sizes, NEW kind \in Kinds, Send(size, kind)
    PROVE  IInv'
<1>1. TypeOK /\ StreamIsLaid
  BY DEF IInv
<1>2. PICK h \in Nat : h = Len(handled)
  BY <1>1, Types
<1>3. PICK n \in Nat : n = Len(sent)
  BY <1>1, Types
<1>4. PICK m \in Message : m = [size |-> size, kind |-> kind]
  BY DEF Message
<1>5. m.size = size /\ size \in Nat
  BY <1>4, SizeOf DEF Message
<1>6. /\ sent' = Append(sent, m) /\ sent' \in Seq(Message) /\ Len(sent') = n + 1
      /\ sent'[n + 1] = m
      /\ \A i \in 1 .. n : sent'[i] = sent[i]
  <2>1. sent' = Append(sent, m)
    BY <1>4 DEF Send
  <2>2. QED BY <1>1, <1>3, <2>1, Types
<1>7. PICK x \in Seq(Piece) : /\ x = Pieces(n + 1, size) /\ Len(x) = size
                              /\ \A p \in 1 .. size : x[p] = Pc(n + 1, p)
  BY <1>5, PiecesOf
<1>8. /\ wire' = wire \o x /\ wire' \in Seq(Piece)
      /\ UNCHANGED << conn, patient, input, buf_info, handled, idle >>
  <2>1. wire' = wire \o x /\ UNCHANGED << conn, patient, input, buf_info, handled, idle >>
    BY <1>6, <1>7 DEF Send
  <2>2. QED BY <1>1, <2>1, Types, Joined
<1>9. h <= n
  BY <1>1, <1>2, <1>3, HandledWereSent
<1>10. TypeOK'
  BY <1>1, <1>6, <1>8 DEF TypeOK, Message, Piece
<1>11. WholeFramesInOrder'
  <2>1. SUFFICES ASSUME NEW i \in 1 .. h PROVE handled[i] = Pieces(i, sent'[i].size)
    BY <1>2, <1>8 DEF WholeFramesInOrder
  <2>2. i \in 1 .. n
    BY <1>9
  <2>3. handled[i] = Pieces(i, sent[i].size)
    BY <1>2 DEF IInv, WholeFramesInOrder
  <2>4. QED BY <1>6, <2>2, <2>3
<1>12. HeadOfThisFrame'
  <2>1. SUFFICES ASSUME buf_info.got_head = TRUE
                 PROVE  /\ input # << >> /\ input[1] = << h + 1, 1 >>
                        /\ buf_info.total_size = sent'[h + 1].size
                        /\ buf_info.msg_type = sent'[h + 1].kind
    <3>1. buf_info.got_head \in BOOLEAN /\ buf_info' = buf_info /\ input' = input
          /\ Len(handled') = h
      BY <1>1, <1>2, <1>8, Types DEF InfoType
    <3>2. QED BY <3>1 DEF HeadOfThisFrame
  <2>2. /\ input # << >> /\ input[1] = << h + 1, 1 >>
        /\ buf_info.total_size = sent[h + 1].size
        /\ buf_info.msg_type = sent[h + 1].kind
    BY <1>2, <2>1 DEF IInv, HeadOfThisFrame
  <2>3. Len(input \o wire) > 0
    BY <1>1, <2>2, Types
  <2>4. h + 1 \in 1 .. n
    BY <1>1, <1>2, <1>3, <2>3, NextMessage
  <2>5. QED BY <1>6, <2>2, <2>4
<1>13. StreamIsLaid'
  <2>1. PICK off, sz \in [Nat -> Nat] :
           /\ SizesOf(sz, sent)
           /\ Laid(off, sz, Len(sent), Len(handled), input \o wire, Len(input \o wire))
    BY <1>1 DEF StreamIsLaid
  <2>2. PICK l \in Nat : l = Len(input \o wire)
    BY <1>1, Types, Joined
  <2>3. PICK q : q = input \o wire
    OBVIOUS
  <2>4. Laid(off, sz, n, h, q, l)
    BY <1>2, <1>3, <2>1, <2>2, <2>3
  <2>5. PICK q2 : q2 = input' \o wire'
    OBVIOUS
  <2>6. /\ Len(q2) = l + size
        /\ \A k \in 1 .. l : q2[k] = q[k]
        /\ \A p \in 1 .. size : q2[l + p] = Pc(n + 1, p)
    <3>1. q2 = input \o (wire \o x)
      BY <1>8, <2>5
    <3>2. input \in Seq(Piece) /\ wire \in Seq(Piece)
      BY <1>1, Types
    <3>3. q2 = (input \o wire) \o x
      <4>1. PICK a \in Seq(Piece) : a = input
        BY <3>2
      <4>2. PICK w \in Seq(Piece) : w = wire
        BY <3>2
      <4>3. a \o (w \o x) = (a \o w) \o x
        BY JoinedTwice, Zenon
      <4>4. QED BY <3>1, <4>1, <4>2, <4>3, Zenon
    <3>4. PICK y \in Seq(Piece) : y = input \o wire
      BY <3>2, Joined
    <3>5. /\ Len(y \o x) = Len(y) + Len(x)
          /\ \A k \in 1 .. Len(y) : (y \o x)[k] = y[k]
          /\ \A k \in 1 .. Len(x) : (y \o x)[Len(y) + k] = x[k]
      BY Joined
    <3>6. q2 = y \o x /\ q = y /\ Len(y) = l /\ Len(x) = size
      BY <1>7, <2>2, <2>3, <3>3, <3>4
    <3>7. QED BY <1>7, <3>5, <3>6, Zenon
  <2>7. PICK off2, sz2 \in [Nat -> Nat] :
           /\ off2 = [off EXCEPT ![n + 2] = l + size]
           /\ sz2 = [sz EXCEPT ![n + 1] = size]
           /\ Laid(off2, sz2, n + 1, h, q2, l + size)
    <3>1. Behind(q, l, q2, n + 1, size)
      BY <2>6 DEF Behind
    <3>2. QED BY <1>5, <2>4, <3>1, LaidSend
  <2>8. SizesOf(sz2, sent')
    <3>1. SUFFICES ASSUME NEW i \in 1 .. n + 1 PROVE sz2[i] = sent'[i].size
      BY <1>6 DEF SizesOf
    <3>2. CASE i = n + 1
      <4>1. sz2[n + 1] = size
        BY <2>7
      <4>2. QED BY <1>5, <1>6, <3>2, <4>1
    <3>3. CASE i # n + 1
      <4>1. i \in 1 .. n
        BY <3>3
      <4>2. sz2[i] = sz[i] /\ sz[i] = sent[i].size
        BY <1>3, <2>1, <2>7, <3>3, <4>1 DEF SizesOf
      <4>3. QED BY <1>6, <4>1, <4>2
    <3>4. QED BY <3>2, <3>3
  <2>9. Laid(off2, sz2, Len(sent'), Len(handled'), input' \o wire', Len(input' \o wire'))
    BY <1>2, <1>6, <1>8, <2>5, <2>6, <2>7
  <2>10. QED BY <2>8, <2>9 DEF StreamIsLaid
<1>14. NothingLeftUndone'
  BY <1>8 DEF IInv, NothingLeftUndone
<1>15. OneRequest'
  <2>1. conn = TRUE /\ (patient = TRUE => h = n)
    BY <1>1, <1>2, <1>3, Types DEF Send
  <2>2. conn' = TRUE /\ patient' = patient /\ Len(handled') = h
    BY <1>2, <1>8, <2>1
  <2>3. QED BY <1>6, <2>1, <2>2 DEF OneRequest
<1>16. QED BY <1>10, <1>11, <1>12, <1>13, <1>14, <1>15 DEF IInv

-----------------------------------------------------------------------------
(* OnReadCb when the message is not complete: the bytes wait in the input. *)
LEMMA WaitPreserves ==
    ASSUME IInv, NEW n, NEW b, NEW r, IsCut(input, wire, n, b, r),
           NEW info, info = ReadHead(b), ~Complete(b, info),
           input' = b, wire' = r, buf_info' = info,
           UNCHANGED << conn, patient, sent, handled, idle >>
    PROVE  IInv'
<1>1. TypeOK /\ StreamIsLaid
  BY DEF IInv
<1>2. PICK h \in Nat : h = Len(handled) /\ h = Len(handled')
  BY <1>1, Types
<1>3. /\ info \in InfoType
      /\ b # << >> /\ b[1] = Pc(h + 1, 1)
      /\ info.got_head = TRUE => HeadOf(info, sent[h + 1])
      /\ Len(b) >= HEAD => info.got_head = TRUE
  BY <1>2, HeadRead
<1>4. b \in Seq(Piece) /\ r \in Seq(Piece) /\ b \o r = input \o wire
  <2>1. input \in Seq(Piece) /\ wire \in Seq(Piece)
    BY <1>1, Types
  <2>2. GoodCut(input, wire, n, b, r)
    BY <2>1, Cut
  <2>3. QED BY <2>2, Zenon DEF GoodCut
<1>5. TypeOK'
  BY <1>1, <1>3, <1>4 DEF TypeOK, Piece, InfoType
<1>6. WholeFramesInOrder'
  BY DEF IInv, WholeFramesInOrder
<1>7. HeadOfThisFrame'
  <2>1. SUFFICES ASSUME info.got_head = TRUE
                 PROVE  /\ b # << >> /\ b[1] = << h + 1, 1 >>
                        /\ info.total_size = sent[h + 1].size
                        /\ info.msg_type = sent[h + 1].kind
    <3>1. info.got_head \in BOOLEAN
      BY <1>3 DEF InfoType
    <3>2. QED BY <1>2, <3>1 DEF HeadOfThisFrame
  <2>2. QED BY <1>3, <2>1 DEF HeadOf, Pc
<1>8. StreamIsLaid'
  <2>1. input' \o wire' = input \o wire
    BY <1>4
  <2>2. sent' = sent /\ handled' = handled
    OBVIOUS
  <2>3. PICK off, sz \in [Nat -> Nat] :
           /\ SizesOf(sz, sent)
           /\ Laid(off, sz, Len(sent), Len(handled), input \o wire, Len(input \o wire))
    BY <1>1 DEF StreamIsLaid
  <2>4. /\ SizesOf(sz, sent')
        /\ Laid(off, sz, Len(sent'), Len(handled'), input' \o wire', Len(input' \o wire'))
    BY <2>1, <2>2, <2>3, Zenon
  <2>5. QED BY <2>4 DEF StreamIsLaid
<1>9. NothingLeftUndone'
  BY <1>3 DEF NothingLeftUndone, Complete
<1>10. OneRequest'
  BY DEF IInv, OneRequest
<1>11. QED BY <1>5, <1>6, <1>7, <1>8, <1>9, <1>10 DEF IInv

(* OnReadCb when the message is complete and its handler returns true.  The*)
(* input is then exactly that message.                                     *)
LEMMA HandlePreserves ==
    ASSUME IInv, NEW n, NEW b, NEW r, IsCut(input, wire, n, b, r),
           NEW info, info = ReadHead(b), Complete(b, info),
           handled' = Append(handled, b), input' = << >>, wire' = r,
           buf_info' = ResetInfo, idle' = 0, UNCHANGED << conn, patient, sent >>
    PROVE  IInv'
<1>1. TypeOK /\ StreamIsLaid
  BY DEF IInv
<1>2. PICK h \in Nat : h = Len(handled)
  BY <1>1, Types
<1>3. input \in Seq(Piece) /\ wire \in Seq(Piece) /\ handled \in Seq(Seq(Piece))
  BY <1>1, Types
<1>4. /\ b \in Seq(Piece) /\ r \in Seq(Piece) /\ b \o r = input \o wire
      /\ \A k \in 1 .. Len(b) : b[k] = (input \o wire)[k]
      /\ \A k \in 1 .. Len(r) : r[k] = (input \o wire)[Len(b) + k]
  <2>1. GoodCut(input, wire, n, b, r)
    BY <1>3, Cut
  <2>2. QED BY <2>1, Zenon DEF GoodCut
<1>5. info.got_head = TRUE /\ Len(b) = info.total_size
  <2>1. info.got_head \in BOOLEAN
    BY HeadRead DEF InfoType
  <2>2. QED BY <2>1 DEF Complete
<1>6. b # << >> /\ Len(b) = sent[h + 1].size
  BY <1>2, <1>5, HeadRead DEF HeadOf
<1>7. PICK z \in Nat : z = Len(b)
  BY <1>4
<1>8. PICK l \in Nat : l = Len(input \o wire) /\ Len(r) = l - z /\ l > 0
  <2>1. Len(b \o r) = Len(b) + Len(r) /\ Len(r) \in Nat /\ Len(b) \in Nat /\ Len(b) > 0
    BY <1>4, <1>6
  <2>2. QED BY <1>4, <1>7, <2>1
<1>9. /\ h + 1 \in 1 .. Len(sent)
      /\ \A p \in 1 .. z : (input \o wire)[p] = Pc(h + 1, p)
  BY <1>1, <1>2, <1>6, <1>7, <1>8, NextMessage
<1>10. b = Pieces(h + 1, sent[h + 1].size)
  <2>1. /\ Pieces(h + 1, z) \in Seq(Piece) /\ Len(Pieces(h + 1, z)) = z
        /\ \A p \in 1 .. z : Pieces(h + 1, z)[p] = Pc(h + 1, p)
    BY PiecesOf
  <2>2. \A p \in 1 .. z : b[p] = Pieces(h + 1, z)[p]
    BY <1>4, <1>7, <1>9, <2>1, Zenon
  <2>3. b = Pieces(h + 1, z)
    BY <1>4, <1>7, <2>1, <2>2, SameSequence
  <2>4. QED BY <1>6, <1>7, <2>3
<1>11. /\ handled' \in Seq(Seq(Piece)) /\ Len(handled') = h + 1
       /\ handled'[h + 1] = b
       /\ \A i \in 1 .. h : handled'[i] = handled[i]
  BY <1>2, <1>3, <1>4
<1>12. TypeOK'
  <2>1. buf_info' \in InfoType
    BY ResetIs DEF ResetInfo
  <2>2. idle' \in 0 .. MaxIdle
    BY BoundAssumption
  <2>3. input' \in Seq(Piece) /\ wire' \in Seq(Piece)
    BY <1>4
  <2>4. sent' \in Seq(Message) /\ conn' \in BOOLEAN /\ patient' \in BOOLEAN
    BY <1>1, Types
  <2>5. QED BY <1>11, <2>1, <2>2, <2>3, <2>4 DEF TypeOK, Piece, InfoType, Message
<1>13. WholeFramesInOrder'
  <2>1. SUFFICES ASSUME NEW i \in 1 .. h + 1 PROVE handled'[i] = Pieces(i, sent[i].size)
    BY <1>11 DEF WholeFramesInOrder
  <2>2. CASE i = h + 1
    BY <1>10, <1>11, <2>2
  <2>3. CASE i # h + 1
    <3>1. i \in 1 .. h
      BY <2>3
    <3>2. handled[i] = Pieces(i, sent[i].size)
      BY <1>2, <3>1 DEF IInv, WholeFramesInOrder
    <3>3. QED BY <1>11, <3>1, <3>2
  <2>4. QED BY <2>2, <2>3
<1>14. HeadOfThisFrame'
  BY ResetIs DEF HeadOfThisFrame, ResetInfo
<1>15. StreamIsLaid'
  <2>1. PICK off, sz \in [Nat -> Nat] :
           /\ SizesOf(sz, sent)
           /\ Laid(off, sz, Len(sent), Len(handled), input \o wire, Len(input \o wire))
    BY <1>1 DEF StreamIsLaid
  <2>2. PICK q : q = input \o wire
    OBVIOUS
  <2>3. PICK k \in Nat : k = Len(sent)
    BY <1>1, Types
  <2>4. PICK m \in Nat : m = Len(r) /\ m = l - z
    <3>1. Len(r) \in Nat
      BY <1>4
    <3>2. QED BY <1>8, <3>1
  <2>5. Laid(off, sz, k, h, q, l)
    BY <1>2, <1>8, <2>1, <2>2, <2>3
  <2>6. h < k /\ z = sz[h + 1]
    <3>1. h + 1 \in 1 .. k /\ sz[h + 1] = sent[h + 1].size
      BY <1>9, <2>1, <2>3 DEF SizesOf
    <3>2. QED BY <1>6, <1>7, <3>1
  <2>7. Rest(r, m, q, sz[h + 1])
    BY <1>4, <1>7, <2>2, <2>4, <2>6 DEF Rest
  <2>8. PICK off2 \in [Nat -> Nat] : Laid(off2, sz, k, h + 1, r, m)
    BY <2>4, <2>5, <2>6, <2>7, LaidTake
  <2>9. input' \o wire' = r
    BY <1>4
  <2>10. /\ SizesOf(sz, sent')
         /\ Laid(off2, sz, Len(sent'), Len(handled'), input' \o wire', Len(input' \o wire'))
    BY <1>11, <2>1, <2>3, <2>4, <2>8, <2>9
  <2>11. QED BY <2>10 DEF StreamIsLaid
<1>16. NothingLeftUndone'
  BY ResetIs, HeadAssumption DEF NothingLeftUndone, ResetInfo
<1>17. OneRequest'
  <2>1. conn = TRUE /\ patient = TRUE => Len(sent) <= h + 1
    BY <1>2 DEF IInv, OneRequest
  <2>2. conn = FALSE => sent = << >>
    BY DEF IInv, OneRequest
  <2>3. Len(sent) \in Nat
    BY <1>1, Types
  <2>4. QED BY <1>11, <2>1, <2>2, <2>3 DEF OneRequest
<1>18. QED BY <1>12, <1>13, <1>14, <1>15, <1>16, <1>17 DEF IInv

(* OnReadCb.                                                               *)
LEMMA OnReadCbPreserves ==
    ASSUME IInv, NEW n \in 1 .. Len(wire), OnReadCb(n)
    PROVE  IInv'
<1>1. PICK b, r : IsCut(input, wire, n, b, r)
  BY DEF IsCut
<1>2. b = input \o SubSeq(wire, 1, n) /\ r = SubSeq(wire, n + 1, Len(wire))
  BY <1>1 DEF IsCut
<1>3. PICK info : info = ReadHead(b)
  OBVIOUS
<1>4. \/ ClosingClientCon
      \/ Complete(b, info) /\ MessageHandle(b, info, r)
      \/ /\ ~Complete(b, info)
         /\ input' = b /\ wire' = r /\ buf_info' = info
         /\ UNCHANGED << conn, patient, sent, handled, idle >>
  BY <1>2, <1>3, Zenon DEF OnReadCb
<1>5. CASE Complete(b, info) /\ MessageHandle(b, info, r)
  <2>1. CASE ClosingClientCon
    BY <2>1, ClosingPreserves
  <2>2. CASE ~ClosingClientCon
    <3>1. /\ handled' = Append(handled, b) /\ input' = << >> /\ wire' = r
          /\ buf_info' = ResetInfo /\ idle' = 0 /\ UNCHANGED << conn, patient, sent >>
      BY <1>5, <2>2 DEF MessageHandle
    <3>2. QED BY <1>1, <1>3, <1>5, <3>1, HandlePreserves
  <2>3. QED BY <2>1, <2>2
<1>6. QED BY <1>1, <1>3, <1>4, <1>5, ClosingPreserves, WaitPreserves

-----------------------------------------------------------------------------
(* The inductive invariant holds in every reachable state of the reader.   *)
THEOREM Invariance == Spec => []IInv
<1>1. Init => IInv
  <2>1. 0 \in 0 .. MaxIdle
    BY BoundAssumption
  <2>2. Init => Closed
    BY <2>1, Zenon DEF Init, Closed
  <2>3. QED BY <2>2, ClosedIsGood
<1>2. IInv /\ [Next]_vars => IInv'
  <2> SUFFICES ASSUME IInv, [Next]_vars PROVE IInv'
    OBVIOUS
  <2>1. CASE Connect
    BY <2>1, ConnectPreserves
  <2>2. CASE \E size \in Sizes, kind \in Kinds : Send(size, kind)
    BY <2>2, SendPreserves
  <2>3. CASE \E n \in 1 .. Len(wire) : OnReadCb(n)
    BY <2>3, OnReadCbPreserves
  <2>4. CASE OnEventCb
    BY <2>4, ClosingPreserves DEF OnEventCb
  <2>5. CASE Tick
    BY <2>5, TickPreserves
  <2>6. CASE TimerOutHandle
    BY <2>6, ClosingPreserves DEF TimerOutHandle
  <2>7. CASE UNCHANGED vars
    <3>1. /\ UNCHANGED << sent, wire, input, buf_info, handled >>
          /\ conn' = conn /\ patient' = patient /\ idle' = idle
      BY <2>7 DEF vars
    <3>2. conn' \in BOOLEAN /\ patient' \in BOOLEAN /\ idle' \in 0 .. MaxIdle
      BY <3>1, Types DEF IInv
    <3>3. OneRequest'
      BY <3>1 DEF IInv, OneRequest
    <3>4. QED BY <3>1, <3>2, <3>3, QuietPreserves
  <2>8. QED BY <2>1, <2>2, <2>3, <2>4, <2>5, <2>6, <2>7 DEF Next
<1>3. QED BY <1>1, <1>2, PTL DEF Spec

(* Every variable of the reader keeps its type.                            *)
THEOREM TypeCorrect == Spec => []TypeOK
<1>1. IInv => TypeOK
  BY DEF IInv
<1>2. QED BY <1>1, Invariance, PTL

(* MessageHandle is given whole messages, in order, however TCP cut them.  *)
THEOREM FramesCorrect == Spec => []WholeFramesInOrder
<1>1. IInv => WholeFramesInOrder
  BY DEF IInv
<1>2. QED BY <1>1, Invariance, PTL

(* OnReadCb acts on the header of the message its input starts with, never *)
(* on one left over by a former message or connection.                     *)
THEOREM HeadCorrect == Spec => []HeadOfThisFrame
<1>1. IInv => HeadOfThisFrame
  BY DEF IInv
<1>2. QED BY <1>1, Invariance, PTL

(* A request of a client that waits for its answers is handled as soon as  *)
(* its last byte has arrived: what is left is the whole of one message,    *)
(* which has a header, so OnReadCb would have worked on it.                *)
THEOREM RequestCorrect == Spec => []RequestIsHandled
<1>1. IInv => RequestIsHandled
  <2> SUFFICES ASSUME IInv, conn, patient, wire = << >>, input # << >>
               PROVE  FALSE
    BY DEF RequestIsHandled
  <2>1. TypeOK /\ StreamIsLaid /\ HeadOfThisFrame
    BY DEF IInv
  <2>2. PICK h \in Nat : h = Len(handled)
    BY <2>1, Types
  <2>3. PICK q \in Seq(Piece) : q = input \o wire /\ q = input /\ Len(q) > 0
    <3>1. input \in Seq(Piece)
      BY <2>1, Types
    <3>2. input \o wire = input /\ Len(input) > 0
      BY <3>1
    <3>3. QED BY <3>1, <3>2
  <2>4. PICK l \in Nat : l = Len(q)
    OBVIOUS
  <2>5. h + 1 \in 1 .. Len(sent) /\ sent[h + 1] \in Message
    BY <2>1, <2>2, <2>3, NextMessage
  <2>6. Len(sent) = h + 1
    <3>1. conn = TRUE /\ patient = TRUE
      OBVIOUS
    <3>2. Len(sent) <= h + 1 /\ Len(sent) \in Nat
      BY <2>1, <2>2, <3>1, Types DEF IInv, OneRequest
    <3>3. QED BY <2>5, <3>2
  <2>7. l = sent[h + 1].size
    <3>1. PICK off, sz \in [Nat -> Nat] :
             /\ SizesOf(sz, sent)
             /\ Laid(off, sz, Len(sent), Len(handled), q, Len(q))
      BY <2>1, <2>3 DEF StreamIsLaid
    <3>2. Laid(off, sz, h + 1, h, q, l)
      BY <2>2, <2>4, <2>6, <3>1
    <3>3. off[h + 1] = 0 /\ off[(h + 1) + 1] = l /\ off[(h + 1) + 1] = off[h + 1] + sz[h + 1]
      BY <3>2 DEF Laid
    <3>4. sz[h + 1] = sent[h + 1].size /\ sz[h + 1] \in Nat
      BY <2>5, <3>1 DEF SizesOf
    <3>5. l = sz[h + 1]
      <4>1. l = 0 + sz[h + 1]
        BY <3>3, Zenon
      <4>2. PICK z \in Nat : z = sz[h + 1]
        OBVIOUS
      <4>3. 0 + z = z
        OBVIOUS
      <4>4. QED BY <4>1, <4>2, <4>3, Zenon
    <3>6. QED BY <3>4, <3>5, Zenon
  <2>8. l >= HEAD
    BY <2>5, <2>7, SizeOf
  <2>9. buf_info.got_head = TRUE /\ Len(input) # buf_info.total_size
    BY <2>3, <2>4, <2>8 DEF IInv, NothingLeftUndone
  <2>10. buf_info.total_size = sent[h + 1].size
    BY <2>1, <2>2, <2>9 DEF HeadOfThisFrame
  <2>11. QED BY <2>3, <2>4, <2>7, <2>9, <2>10
<1>2. QED BY <1>1, Invariance, PTL
=============================================================================
