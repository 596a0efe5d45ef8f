------------------------------ MODULE Messages ------------------------------
(***************************************************************************)
(* The generated message classes: how a stream of fields becomes a         *)
(* message and back, which streams the parser of a class accepts, and the  *)
(* replies the server builds with these classes.                           *)
(*                                                                         *)
(* A stream is a sequence of fields with a tag (8 * number + wire type)    *)
(* and a payload: n is the value of a varint or the length of a string,    *)
(* sub the stream of a message.  cut says that the input ends within the   *)
(* field.  A message holds its _has_bits_, the value of every field by     *)
(* number and the fields its class does not know.                          *)
(*                                                                         *)
(* An integer has IntBits bits and travels in a varint of twice as many.   *)
(* One bit stands for a group of seven: with IntBits = 5 a uint32 takes up *)
(* to 5 bytes and a negative int32 takes 10, as in the code.               *)
(***************************************************************************)
EXTENDS Integers, Sequences, SequencesExt, MessageTables

CONSTANTS IntBits,      \* bits of an integer of the messages
          MaxFields     \* bound: fields a peer sends, a whole message being one

ASSUME IntBitsAssumption == IntBits \in 1..15
ASSUME MaxFieldsAssumption == MaxFields \in Nat

VARIABLES cls,          \* class of the message under way
          wire,         \* the stream sent for it so far
          room,         \* fields the peer may still add
          from          \* who sends it

vars == <<cls, wire, room, from>>

VARINT == 0
LENGTH_DELIMITED == 2
END_GROUP == 4

Integer == {"bool", "int32", "uint32"}
Scalar == Integer \union {"string", "bytes"}

WireType(tag) == tag % 8
MakeTag(num, type) ==
   8 * num + IF type \in Integer THEN VARINT ELSE LENGTH_DELIMITED

Field(tag, n, sub) == [tag |-> tag, n |-> n, sub |-> sub, cut |-> FALSE]

TypeOf(c, num) == Merge[c][num][2]
Numbers(c) == 1..Len(Has[c])
Repeated(c, num) == Has[c][num] = 0

-----------------------------------------------------------------------------
\* Integers on the wire.  A negative number is sign-extended; the readers
\* take the low half of the varint.
Encode(x) == IF x < 0 THEN x + 2^(2 * IntBits) ELSE x

Signed(x) == IF x >= 2^(IntBits - 1) THEN x - 2^IntBits ELSE x

Decode(type, n) ==
   LET low == n % 2^IntBits
   IN  CASE type = "bool" -> IF low = 0 THEN 0 ELSE 1
         [] type = "int32" -> Signed(low)
         [] type = "uint32" -> low

VarintSize(n) ==
   CHOOSE k \in 1..(2 * IntBits) : n < 2^k /\ (k > 1 => n >= 2^(k - 1))

\* Bytes of a stream: a tag is one byte, a length is a varint.
RECURSIVE StreamSize(_)
StreamSize(s) ==
   IF s = <<>> THEN 0
   ELSE LET f == Head(s)
            payload == f.n + StreamSize(f.sub)
        IN  1 + StreamSize(Tail(s))
              + IF WireType(f.tag) = VARINT THEN VarintSize(f.n)
                ELSE VarintSize(payload) + payload

-----------------------------------------------------------------------------
\* A message after its constructor or Clear.
RECURSIVE New(_)
New(c) ==
   [bits    |-> {},
    val     |-> [num \in Numbers(c) |->
                   CASE Repeated(c, num) -> <<>>
                     [] TypeOf(c, num) \in Scalar -> 0
                     [] OTHER -> New(TypeOf(c, num))],
    unknown |-> <<>>]

HasBit(c, m, num) == Has[c][num] \in m.bits

\* Sets the fields in the domain of f.
Set(c, m, f) ==
   [m EXCEPT !.bits = @ \union ({Has[c][num] : num \in DOMAIN f} \ {0}),
             !.val = [num \in Numbers(c) |->
                        IF num \in DOMAIN f THEN f[num] ELSE @[num]]]

With(c, f) == Set(c, New(c), f)

\* The case the switch takes for a tag, 0 for handle_uninterpreted.
CaseOf(c, tag) ==
   LET i == tag \div 8
   IN  IF i \in Numbers(c) /\ tag = MakeTag(i, TypeOf(c, i)) THEN i ELSE 0

\* The case ExpectTag jumps to after case i, 0 to go round the loop.
JumpAfter(c, i, rest) ==
   IF rest # <<>> /\ Head(rest).tag = Merge[c][i][3] THEN Merge[c][i][4] ELSE 0

RECURSIVE MergeStream(_, _, _, _)

\* What case i does with field f.  A string and a message are made present
\* before their payload is read, an integer after.
ReadField(c, m, i, f) ==
   LET type == TypeOf(c, i)
   IN  CASE type \in Integer ->
              [ok |-> ~f.cut,
               msg |-> IF f.cut THEN m
                       ELSE Set(c, m, [k \in {i} |-> Decode(type, f.n)])]
         [] type \in {"string", "bytes"} ->
              [ok |-> ~f.cut,
               msg |-> Set(c, m, [k \in {i} |->
                                    IF f.cut THEN m.val[i] ELSE f.n])]
         [] OTHER ->
              LET into == IF Repeated(c, i) THEN New(type) ELSE m.val[i]
                  r == MergeStream(type, into, f.sub, 0)
                  new == IF Repeated(c, i) THEN Append(m.val[i], r.msg)
                         ELSE r.msg
              IN  [ok |-> r.ok /\ ~f.cut, msg |-> Set(c, m, [k \in {i} |-> new])]

\* MergePartialFromCodedStream.  at is the case a jump has led to, or 0.  A
\* group end makes it return early, which its callers take as a failure.
MergeStream(c, m, s, at) ==
   IF s = <<>> THEN [ok |-> TRUE, msg |-> m]
   ELSE LET f == Head(s)
            i == IF at = 0 THEN CaseOf(c, f.tag) ELSE at
            r == ReadField(c, m, i, f)
        IN  CASE i # 0 /\ r.ok ->
                   MergeStream(c, r.msg, Tail(s), JumpAfter(c, i, Tail(s)))
              [] i # 0 /\ ~r.ok -> r
              [] i = 0 /\ (WireType(f.tag) = END_GROUP \/ f.cut) ->
                   [ok |-> FALSE, msg |-> m]
              [] OTHER ->
                   MergeStream(c, [m EXCEPT !.unknown = Append(@, f)], Tail(s), 0)

RECURSIVE IsInitialized(_, _)
IsInitialized(c, m) ==
   /\ \A b \in {Has[c][num] : num \in Numbers(c)} \ {0} :
         (Inits[c].mask \div b) % 2 = 1 => b \in m.bits
   /\ \A num \in Inits[c].nested :
         IF Repeated(c, num)
         THEN \A k \in DOMAIN m.val[num] :
                 IsInitialized(TypeOf(c, num), m.val[num][k])
         ELSE HasBit(c, m, num) => IsInitialized(TypeOf(c, num), m.val[num])

ParseFromString(c, s) ==
   LET r == MergeStream(c, New(c), s, 0)
   IN  [ok |-> r.ok /\ IsInitialized(c, r.msg), msg |-> r.msg]

-----------------------------------------------------------------------------
\* SerializeWithCachedSizes: the fields that are present in the order of
\* the code, then the unknown ones.
RECURSIVE Serialize(_, _)

WriteField(c, m, num, type) ==
   LET Sub(x) == Field(MakeTag(num, type), 0, Serialize(type, x))
   IN  CASE Repeated(c, num) ->
              [k \in DOMAIN m.val[num] |-> Sub(m.val[num][k])]
         [] ~Repeated(c, num) /\ ~HasBit(c, m, num) -> <<>>
         [] HasBit(c, m, num) /\ type \in Scalar ->
              <<Field(MakeTag(num, type), Encode(m.val[num]), <<>>)>>
         [] OTHER -> <<Sub(m.val[num])>>

Serialize(c, m) ==
   FlattenSeq([j \in DOMAIN Write[c] |->
                 WriteField(c, m, Write[c][j][1], Write[c][j][2])])
      \o m.unknown

\* Int32Size and UInt32Size, a bool is one byte.
IntegerSize_Fault(type, x) == VarintSize(x % 2^IntBits)
IntegerSize(type, x) ==
   CASE type = "bool" -> 1
     [] type = "uint32" -> VarintSize(x)
     [] type = "int32" -> IF x < 0 THEN 2 * IntBits ELSE VarintSize(x)

RECURSIVE ByteSize(_, _)

Delimited(n) == 1 + VarintSize(n) + n

FieldSize(c, m, num, type) ==
   CASE Repeated(c, num) ->
          FoldLeft(LAMBDA t, x : t + Delimited(ByteSize(type, x)), 0, m.val[num])
     [] ~Repeated(c, num) /\ ~HasBit(c, m, num) -> 0
     [] HasBit(c, m, num) /\ type \in Integer -> 1 + IntegerSize(type, m.val[num])
     [] HasBit(c, m, num) /\ type \in {"string", "bytes"} -> Delimited(m.val[num])
     [] OTHER -> Delimited(ByteSize(type, m.val[num]))

ByteSize(c, m) ==
   FoldLeft(LAMBDA t, w : t + FieldSize(c, m, w[1], w[2]), 0, Write[c])
      + StreamSize(m.unknown)

\* MergeFrom: what from has replaces, is merged into or is added to the
\* fields of m.
MergeFrom_Fault(c, m, other) ==
   LET present == {num \in Inits[c].merged :
                     Repeated(c, num) \/ HasBit(c, other, num)}
       new == Set(c, m, [num \in present |->
                IF Repeated(c, num) THEN m.val[num] \o other.val[num]
                ELSE other.val[num]])
   IN  [new EXCEPT !.unknown = @ \o other.unknown]

RECURSIVE MergeFrom(_, _, _)
MergeFrom(c, m, other) ==
   LET present == {num \in Inits[c].merged :
                     Repeated(c, num) \/ HasBit(c, other, num)}
       Merged(num) ==
          CASE Repeated(c, num) -> m.val[num] \o other.val[num]
            [] ~Repeated(c, num) /\ TypeOf(c, num) \in Scalar -> other.val[num]
            [] OTHER -> MergeFrom(TypeOf(c, num), m.val[num], other.val[num])
       new == Set(c, m, [num \in present |-> Merged(num)])
   IN  [new EXCEPT !.unknown = @ \o other.unknown]
-----------------------------------------------------------------------------
(***************************************************************************)
(* The replies the server builds.  A text that is set has length 1; a      *)
(* score is one of the values of Scores, a u_int32 put into an int32.      *)
(***************************************************************************)
Scores == {1, 2^IntBits - 1}

\* HandleRegister answers with a status only; HandleLogin adds the user and,
\* when the database has one, the version.
RegisterReply == {With("ReplyStatus", <<status>>) : status \in 0..1}

LoginReply ==
   LET User(score) == With("ChessBoardUser", <<0, 1, 1, Signed(score), 1, 0, 0>>)
       Version(must) == With("ImageVersion", <<1, must>>)
   IN  {With("ReplyStatus", <<0>>)}
         \union {With("ReplyStatus", <<1, User(s)>>) : s \in Scores}
         \union {With("ReplyStatus", <<1, User(s), Version(must)>>) :
                   s \in Scores, must \in 0..1}

\* A seat of a board: empty, or a user without mail address and phone.
Seat == {With("ChessBoardUser", <<1>>)}
          \union {With("ChessBoardUser",
                       <<0, 1, 1, Signed(s)>> @@ 7 :> 0 @@ 8 :> 1) : s \in Scores}

WrapChessBoardInfo_Fault(left, right, bottom) ==
   With("ChessBoardInfo", <<1, 2, left, right>>)
WrapChessBoardInfo(left, right, bottom) ==
   With("ChessBoardInfo", <<1, 2, left, right, bottom>>)

Board == {WrapChessBoardInfo(l, r, b) : l, r, b \in Seat}

WrapHallInfo ==
   {With("HallInfo", <<1, 6, 2, 2, <<b, b>>>>) : b \in Board}

GameHallSumaryReply ==
   LET Hall(i) == With("HallInfo", <<i, 6, 2, 2>>)
   IN  {With("GameHallSumary", <<1, 1, Signed(s), 2, 1, 1>>
                                  @@ 8 :> <<Hall(1), Hall(2)>>) : s \in Scores}

\* Refused, accepted, and the notice to the others at the board.
GameRequestReply ==
   {With("RequestPlayReply", <<0, locate>>) : locate \in 0..3}
     \union {With("RequestPlayReply", <<status, 1, b>>) :
               status \in 1..2, b \in Board}

\* The move that was received, in an announcement.
AnnounceMove(move) ==
   With("MoveAction", <<1, MergeFrom("MoveChess", New("MoveChess"), move), 2>>)

GameReadyReply ==
   {With("GameStatusReply", <<l, r, b, 3, t, t>>) : l, r, b \in 0..1, t \in 0..1}

GiveUpNotice ==
   {With("GiveUp", <<locate>>) : locate \in 1..3}
     \union {With("GiveUp", <<locate, 1>>) : locate \in 1..3}

AdInfoReply ==
   {With("AdPictureItemReply", <<0, 0>>),
    With("AdPictureItemReply", <<1, 1, 1, 1, 1, 1, 1>>)}

AdContentReply ==
   {With("AdPictureContentReply", <<0, 1>>), With("AdPictureContentReply", <<1>>)}

Replies(c) ==
   CASE c = "ReplyStatus" -> RegisterReply \union LoginReply
     [] c = "HallInfo" -> WrapHallInfo
     [] c = "GameHallSumary" -> GameHallSumaryReply
     [] c = "RequestPlayReply" -> GameRequestReply
     [] c = "GameStatusReply" -> GameReadyReply
     [] c = "GiveUp" -> GiveUpNotice
     [] c = "AdPictureItemReply" -> AdInfoReply
     [] c = "AdPictureContentReply" -> AdContentReply
     [] OTHER -> {}

-----------------------------------------------------------------------------
(***************************************************************************)
(* A peer sends the fields of a message in any order, repeats them, leaves *)
(* some out, sends fields the class does not know or with another wire     *)
(* type, or stops in the middle.                                           *)
(***************************************************************************)
RECURSIVE Full(_)
Full(c) ==
   [num \in Numbers(c) |->
      Field(MakeTag(num, TypeOf(c, num)),
            IF TypeOf(c, num) \in Scalar THEN 1 ELSE 0,
            IF TypeOf(c, num) \in Scalar THEN <<>> ELSE Full(TypeOf(c, num)))]

Payloads(type) ==
   CASE type \in Integer ->
          {<<n, <<>>>> : n \in {0, 2^IntBits + 1, 2^(2 * IntBits) - 1}}
     [] type \in {"string", "bytes"} -> {<<0, <<>>>>, <<2, <<>>>>}
     [] OTHER -> {<<0, s>> : s \in {<<>>, Full(type), Tail(Full(type)),
                                    <<Head(Full(type))>>}}

KnownFields(c) ==
   UNION {{Field(MakeTag(num, TypeOf(c, num)), p[1], p[2]) :
             p \in Payloads(TypeOf(c, num))} : num \in Numbers(c)}

\* A number the class does not have, and a number with the wrong wire type.
UnknownFields(c) ==
   LET other == Len(Has[c]) + 1
       wrong == IF TypeOf(c, 1) \in Integer THEN "string" ELSE "int32"
   IN  {Field(MakeTag(other, "int32"), 1, <<>>),
        Field(MakeTag(other, "string"), 2, <<>>),
        Field(MakeTag(1, wrong), 1, <<>>)}

Init ==
   /\ cls \in Classes
   /\ wire = <<>>
   /\ room = MaxFields
   /\ from = "peer"

\* The last field was not cut off and does not end a group.
GoesOn == wire # <<>> => /\ ~Last(wire).cut
                         /\ WireType(Last(wire).tag) # END_GROUP

Send(f) ==
   /\ from = "peer" /\ room > 0 /\ GoesOn
   /\ wire' = Append(wire, f)
   /\ room' = room - 1
   /\ UNCHANGED <<cls, from>>

SendField ==
   /\ room > 0
   /\ \E f \in KnownFields(cls) \union UnknownFields(cls) : Send(f)

\* What a scalar would have held does not matter then.
StopInField ==
   /\ room > 0
   /\ \E f \in {g \in KnownFields(cls) : g.n = 0} \union UnknownFields(cls) :
         Send([f EXCEPT !.cut = TRUE])

SendGroupEnd == Send(Field(8 + END_GROUP, 0, <<>>))

SendAll ==
   /\ from = "peer" /\ wire = <<>> /\ room = MaxFields
   /\ wire' = Full(cls)
   /\ room' = room - 1
   /\ UNCHANGED <<cls, from>>

Answer(c, m) ==
   /\ cls' = c
   /\ wire' = Serialize(c, m)
   /\ from' = "server"
   /\ UNCHANGED room

Reply == from = "peer" /\ wire = <<>> /\ \E m \in Replies(cls) : Answer(cls, m)

\* EchoMsgHandle answers with what was parsed, even if parsing failed.
EchoMsgHandle ==
   /\ cls = "Echo" /\ from = "peer"
   /\ Answer("Echo", Set("Echo", ParseFromString("Echo", wire).msg, <<1>>))

\* MoveChessHandle announces the move it has received.
MoveChessHandle ==
   LET r == ParseFromString("MoveChess", wire)
   IN  /\ cls = "MoveChess" /\ from = "peer" /\ r.ok
       /\ Answer("MoveAction", AnnounceMove(r.msg))

Next == \/ SendField \/ StopInField \/ SendGroupEnd \/ SendAll
        \/ Reply \/ EchoMsgHandle \/ MoveChessHandle

Spec == Init /\ [][Next]_vars

-----------------------------------------------------------------------------
(***************************************************************************)
(* What message.proto says of a stream.                                    *)
(***************************************************************************)
DeclaredType(c, num) == Declared[c][num][2]
DeclaredTag(c, num) == MakeTag(num, DeclaredType(c, num))
Sent(c, s, num) == SelectSeq(s, LAMBDA f : f.tag = DeclaredTag(c, num))
SubStreams(fs) == [k \in DOMAIN fs |-> fs[k].sub]

RECURSIVE Acceptable(_, _)
Acceptable(c, s) ==
   /\ \A k \in DOMAIN s : ~s[k].cut /\ WireType(s[k].tag) # END_GROUP
   /\ \A num \in DOMAIN Declared[c] :
         LET fs == Sent(c, s, num)
             type == DeclaredType(c, num)
         IN  /\ Declared[c][num][1] = "required" => fs # <<>>
             /\ type \notin Scalar /\ fs # <<>> =>
                  IF Declared[c][num][1] = "repeated"
                  THEN \A k \in DOMAIN fs : Acceptable(type, fs[k].sub)
                  ELSE Acceptable(type, FlattenSeq(SubStreams(fs)))

RECURSIVE Meaning(_, _)
Meaning(c, s) ==
   LET Value(num) ==
          LET fs == Sent(c, s, num)
              type == DeclaredType(c, num)
          IN  CASE Declared[c][num][1] = "repeated" ->
                     [k \in DOMAIN fs |-> Meaning(type, fs[k].sub)]
                [] type \in Scalar /\ fs = <<>> -> 0
                [] type \in Integer /\ fs # <<>> -> Decode(type, Last(fs).n)
                [] type \in {"string", "bytes"} /\ fs # <<>> -> Last(fs).n
                [] OTHER -> Meaning(type, FlattenSeq(SubStreams(fs)))
   IN  [present |-> {num \in DOMAIN Declared[c] : Sent(c, s, num) # <<>>},
        val     |-> [num \in DOMAIN Declared[c] |-> Value(num)],
        unknown |-> SelectSeq(s, LAMBDA f : \A num \in DOMAIN Declared[c] :
                                              f.tag # DeclaredTag(c, num))]

\* The same of a message in memory.
RECURSIVE View(_, _)
View(c, m) ==
   LET Value(num) ==
          CASE Repeated(c, num) ->
                 [k \in DOMAIN m.val[num] |-> View(TypeOf(c, num), m.val[num][k])]
            [] ~Repeated(c, num) /\ TypeOf(c, num) \in Scalar -> m.val[num]
            [] OTHER -> View(TypeOf(c, num), m.val[num])
   IN  [present |-> {num \in Numbers(c) : IF Repeated(c, num) THEN m.val[num] # <<>>
                                           ELSE HasBit(c, m, num)},
        val     |-> [num \in Numbers(c) |-> Value(num)],
        unknown |-> m.unknown]

Parsed == ParseFromString(cls, wire)

RECURSIVE WellTyped(_, _)
WellTyped(c, m) ==
   /\ m.bits \subseteq {Has[c][num] : num \in Numbers(c)} \ {0}
   /\ \A num \in Numbers(c) :
         LET type == TypeOf(c, num)
         IN  CASE type = "bool" -> m.val[num] \in 0..1
               [] type = "int32" ->
                    m.val[num] \in -(2^(IntBits - 1))..(2^(IntBits - 1) - 1)
               [] type = "uint32" -> m.val[num] \in 0..(2^IntBits - 1)
               [] type \in {"string", "bytes"} -> m.val[num] \in Nat
               [] Repeated(c, num) /\ type \notin Scalar ->
                    \A k \in DOMAIN m.val[num] : WellTyped(type, m.val[num][k])
               [] OTHER -> WellTyped(type, m.val[num])

\* Whatever comes in, the members of the object that is filled stay within
\* their types, even when parsing fails; and a class reads a stream as
\* message.proto declares it: it accepts exactly the streams with all
\* required fields, at every depth, and takes the last value of a field, the
\* union of the parts of a message, all the elements of a repeated field,
\* and keeps the rest, whatever the order and whether or not the jumps of
\* MergePartialFromCodedStream are taken.
ReadsAsDeclared ==
   LET p == Parsed
   IN  /\ WellTyped(cls, p.msg)
       /\ p.ok <=> Acceptable(cls, wire)
       /\ p.ok => View(cls, p.msg) = Meaning(cls, wire)

\* What a class writes, it reads back as the same message, with the fields
\* it does not know.
RoundTrip ==
   LET p == Parsed
   IN  p.ok => ParseFromString(cls, Serialize(cls, p.msg)) = p

\* ByteSize, which becomes the length in front of a nested message and the
\* size of the buffer, is the number of bytes the writer produces.
SizeIsExact ==
   LET p == Parsed
   IN  p.ok => ByteSize(cls, p.msg) = StreamSize(Serialize(cls, p.msg))

\* MergeFrom does to messages what concatenation does to their streams, so
\* copying a message (CopyFrom, as MoveChessHandle does) loses nothing.
MergeIsConcatenation ==
   GoesOn =>
      LET Message(s) == MergeStream(cls, New(cls), s, 0).msg
          whole == Message(wire)
      IN  \A k \in 0..Len(wire) :
             MergeFrom(cls, Message(SubSeq(wire, 1, k)),
                            Message(SubSeq(wire, k + 1, Len(wire)))) = whole

\* Every reply of the server has the fields the client's parser requires,
\* and the client reads the fields that were set.
RepliesAreComplete ==
   from = "server" => LET p == Parsed
                      IN  p.ok /\ Serialize(cls, p.msg) = wire
=============================================================================
