----------------------------- MODULE FrameReader -----------------------------
(***************************************************************************)
(* How a work thread cuts the bytes of a connection into messages          *)
(* (WorkThread::OnReadCb, MessageHandle and the 60 second timer of a       *)
(* session), over any number of connections that use one UserSession in    *)
(* turn.                                                                   *)
(*                                                                         *)
(* A message is a header (total size and type) and a body.  TCP delivers   *)
(* the bytes in order but in pieces of any length, so a read may end inside*)
(* a header or a body, or run over into the next message.  The unit of the *)
(* model is a piece of a message that is never cut: << i, p >> is the p-th *)
(* piece of the i-th message of the connection.                            *)
(*                                                                         *)
(* Operators named X_Fault, before X, are faulty variants of X used to show*)
(* that a property depends on it; no specification uses them.              *)
(***************************************************************************)
EXTENDS Naturals, Sequences

CONSTANTS
    HEAD,        \* pieces of a header: DATA_HEAD_LENGTH
    Sizes,       \* total sizes of messages, header included
    MaxFrames,   \* bound: messages a client sends on one connection
    MaxIdle      \* timer ticks until TimerOutHandle (tv, 60 seconds)

ASSUME HeadAssumption == HEAD \in Nat \ {0}
ASSUME SizeAssumption == Sizes \subseteq {z \in Nat : z >= HEAD}
ASSUME BoundAssumption == MaxFrames \in Nat /\ MaxIdle \in Nat \ {0}

(* What becomes of a message: the type or the size in its header is out of *)
(* range; its handler returns false; or its handler returns true.          *)
Kinds == {"invalid", "refused", "ok"}

VARIABLES
    conn,      \* is there a connection (clifd # -1)?
    patient,   \* does its client wait for each answer before it sends on?
    sent,      \* messages the client has begun to send
    wire,      \* pieces on their way
    input,     \* bev->input
    buf_info,  \* ReadBufInfo
    handled,   \* what MessageHandle was given
    idle       \* ticks since evtimer_add

vars == << conn, patient, sent, wire, input, buf_info, handled, idle >>

ResetInfo == [total_size |-> 0, msg_type |-> "none", got_head |-> FALSE]

Pieces(i, size) == [p \in 1 .. size |-> << i, p >>]

Init ==
    /\ conn = FALSE
    /\ patient = FALSE
    /\ sent = << >>
    /\ wire = << >>
    /\ input = << >>
    /\ buf_info = ResetInfo
    /\ handled = << >>
    /\ idle = 0

-----------------------------------------------------------------------------
(* NotifyReceivedProcess gives the next connection the session, whose      *)
(* buf_info is as the last one left it, and arms the timer.                *)
Connect ==
    /\ ~conn
    /\ conn' = TRUE
    /\ patient' \in BOOLEAN
    /\ idle' = 0
    /\ UNCHANGED << sent, wire, input, buf_info, handled >>

(* The client sends a message.                                             *)
Send(size, kind) ==
    /\ conn
    /\ Len(sent) < MaxFrames
    /\ patient => Len(handled) = Len(sent)
    /\ sent' = Append(sent, [size |-> size, kind |-> kind])
    /\ wire' = wire \o Pieces(Len(sent'), size)
    /\ UNCHANGED << conn, patient, input, buf_info, handled, idle >>

(* ClosingClientCon and DestructResource: the bufferevent goes with all it *)
(* holds, and buf_info is reset for the next user of the session.          *)
ClosingClientCon_KeepsInfo ==
    /\ conn' = FALSE
    /\ sent' = << >>
    /\ wire' = << >>
    /\ input' = << >>
    /\ handled' = << >>
    /\ UNCHANGED << patient, buf_info, idle >>

ClosingClientCon ==
    /\ conn' = FALSE
    /\ sent' = << >>
    /\ wire' = << >>
    /\ input' = << >>
    /\ buf_info' = ResetInfo
    /\ handled' = << >>
    /\ UNCHANGED << patient, idle >>

(* The header is copied out once, when there is enough for it.             *)
ReadHead(buf) ==
    IF ~buf_info.got_head /\ Len(buf) >= HEAD
      THEN LET head == sent[buf[1][1]]
           IN  [total_size |-> head.size, msg_type |-> head.kind, got_head |-> TRUE]
      ELSE buf_info

(* A message is handled when the input is exactly as long as its header    *)
(* says.                                                                   *)
Complete_HeadOnly(buf, info) == info.got_head

Complete(buf, info) == info.got_head /\ Len(buf) = info.total_size

(* MessageHandle: false closes the connection, true resets the timer and   *)
(* then buf_info.                                                          *)
MessageHandle_KeepsInfo(buf, info, rest) ==
    \/ /\ info.msg_type = "refused"
       /\ ClosingClientCon
    \/ /\ info.msg_type = "ok"
       /\ handled' = Append(handled, buf)
       /\ input' = << >>
       /\ wire' = rest
       /\ buf_info' = info
       /\ idle' = 0
       /\ UNCHANGED << conn, patient, sent >>

MessageHandle(buf, info, rest) ==
    \/ /\ info.msg_type = "refused"
       /\ ClosingClientCon
    \/ /\ info.msg_type = "ok"
       /\ handled' = Append(handled, buf)
       /\ input' = << >>
       /\ wire' = rest
       /\ buf_info' = ResetInfo
       /\ idle' = 0
       /\ UNCHANGED << conn, patient, sent >>

(* OnReadCb after n more pieces have arrived.                              *)
OnReadCb(n) ==
    LET buf  == input \o SubSeq(wire, 1, n)
        info == ReadHead(buf)
        rest == SubSeq(wire, n + 1, Len(wire))
    IN  /\ conn
        /\ \/ /\ info.msg_type = "invalid"
              /\ ClosingClientCon
           \/ /\ info.msg_type # "invalid"
              /\ Complete(buf, info)
              /\ MessageHandle(buf, info, rest)
           \/ /\ info.msg_type # "invalid"
              /\ ~Complete(buf, info)
              /\ input' = buf
              /\ wire' = rest
              /\ buf_info' = info
              /\ UNCHANGED << conn, patient, sent, handled, idle >>

(* OnEventCb: end of file, error or a write timeout.                       *)
OnEventCb ==
    /\ conn
    /\ ClosingClientCon

(* Time passes; after MaxIdle ticks without a message handled the timer    *)
(* fires.                                                                  *)
Tick ==
    /\ conn
    /\ idle < MaxIdle
    /\ idle' = idle + 1
    /\ UNCHANGED << conn, patient, sent, wire, input, buf_info, handled >>

TimerOutHandle_NotArmed ==
    /\ conn
    /\ idle = MaxIdle
    /\ handled # << >>
    /\ ClosingClientCon

TimerOutHandle ==
    /\ conn
    /\ idle = MaxIdle
    /\ ClosingClientCon

Next ==
    \/ Connect
    \/ \E size \in Sizes, kind \in Kinds : Send(size, kind)
    \/ \E n \in 1 .. Len(wire) : OnReadCb(n)
    \/ OnEventCb
    \/ Tick
    \/ TimerOutHandle

(* Time passes and libevent runs an expired timer.  No fairness is asked of*)
(* the client or of the network.                                           *)
Spec == Init /\ [][Next]_vars /\ WF_vars(Tick) /\ WF_vars(TimerOutHandle)

-----------------------------------------------------------------------------
(* Type invariant.                                                         *)
TypeOK ==
    /\ conn \in BOOLEAN
    /\ patient \in BOOLEAN
    /\ sent \in Seq([size : Sizes, kind : Kinds])
    /\ wire \in Seq(Nat \X Nat)
    /\ input \in Seq(Nat \X Nat)
    /\ buf_info \in [total_size : Sizes \cup {0}, msg_type : Kinds \cup {"none"},
                     got_head : BOOLEAN]
    /\ handled \in Seq(Seq(Nat \X Nat))
    /\ idle \in 0 .. MaxIdle

(* MessageHandle gets the messages of this connection whole, in the order  *)
(* they were sent and none twice, however TCP cut the bytes.               *)
WholeFramesInOrder ==
    \A i \in 1 .. Len(handled) : handled[i] = Pieces(i, sent[i].size)

(* The header OnReadCb acts on is that of the message the input starts     *)
(* with: never the middle of a message, nor what a former message or the   *)
(* session's former connection left in buf_info.                           *)
HeadOfThisFrame ==
    buf_info.got_head =>
       LET i == Len(handled) + 1
       IN  /\ input # << >> /\ input[1] = << i, 1 >>
           /\ buf_info.total_size = sent[i].size
           /\ buf_info.msg_type = sent[i].kind

(* A client that waits for each answer is never stuck: once all of a       *)
(* request has arrived nothing of it is left in the input.                 *)
RequestIsHandled == conn /\ patient /\ wire = << >> => input = << >>

(* A client that does not wait may get stuck, because a read that runs over*)
(* the end of a message makes the input longer than total_size for good;   *)
(* the timer, which only a handled message resets, then frees the session. *)
StuckIsClosed == input # << >> ~> input = << >>
=============================================================================
