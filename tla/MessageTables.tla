--------------------------- MODULE MessageTables ---------------------------
(***************************************************************************)
(* What the generated classes of message.pb.cpp and message.pb.h know      *)
(* about their fields.  A class has four tables, one for each of the       *)
(* places where the generated code spells its fields out:                  *)
(*                                                                         *)
(*   X_has    the bit of _has_bits_ that the accessors of a field use, in  *)
(*            the order of the field numbers; 0 for a repeated field       *)
(*   X_merge  the cases of the switch in MergePartialFromCodedStream:      *)
(*            number, type read, tag that ExpectTag waits for afterwards   *)
(*            and the case it jumps to (0, 0 for ExpectAtEnd)              *)
(*   X_write  the fields in the order they are written, with their types,  *)
(*            the same in both writers and in ByteSize                     *)
(*   X_init   the fields MergeFrom copies, the mask of IsInitialized and   *)
(*            the fields whose own IsInitialized it asks                   *)
(*                                                                         *)
(* A type that is the name of a class is a field that holds a message.     *)
(***************************************************************************)
EXTENDS Naturals, Sequences

Echo_has == <<1>>
Echo_merge == <<<<1, "string", 0, 0>>>>
Echo_write == <<<<1, "string">>>>
Echo_init == [merged |-> {1}, mask |-> 0, nested |-> {}]

LogOnorOut_has == <<1, 2>>
LogOnorOut_merge == <<<<1, "string", 18, 2>>, <<2, "string", 0, 0>>>>
LogOnorOut_write == <<<<1, "string">>, <<2, "string">>>>
LogOnorOut_init == [merged |-> {1, 2}, mask |-> 3, nested |-> {}]

ImageVersion_has == <<1, 2>>
ImageVersion_merge == <<<<1, "string", 16, 2>>, <<2, "bool", 0, 0>>>>
ImageVersion_write == <<<<1, "string">>, <<2, "bool">>>>
ImageVersion_init == [merged |-> {1, 2}, mask |-> 3, nested |-> {}]

\* The jump after the case of status, taken to the case of the version.
ReplyStatus_merge_Fault == <<<<1, "uint32", 18, 3>>,
   <<2, "ChessBoardUser", 26, 3>>, <<3, "ImageVersion", 0, 0>>>>

ReplyStatus_has == <<1, 2, 4>>
ReplyStatus_merge == <<<<1, "uint32", 18, 2>>, <<2, "ChessBoardUser", 26, 3>>,
   <<3, "ImageVersion", 0, 0>>>>
ReplyStatus_write == <<<<1, "uint32">>, <<2, "ChessBoardUser">>,
   <<3, "ImageVersion">>>>
ReplyStatus_init == [merged |-> 1..3, mask |-> 1, nested |-> {2, 3}]

Register_has == <<1, 2, 4>>
Register_merge == <<<<1, "string", 18, 2>>, <<2, "string", 26, 3>>,
   <<3, "string", 0, 0>>>>
Register_write == <<<<1, "string">>, <<2, "string">>, <<3, "string">>>>
Register_init == [merged |-> 1..3, mask |-> 3, nested |-> {}]

ChessBoardUser_has == <<1, 2, 4, 8, 16, 32, 64, 128>>
ChessBoardUser_merge == <<<<1, "bool", 18, 2>>, <<2, "string", 26, 3>>,
   <<3, "string", 32, 4>>, <<4, "int32", 42, 5>>, <<5, "string", 50, 6>>,
   <<6, "string", 58, 7>>, <<7, "bytes", 64, 8>>, <<8, "uint32", 0, 0>>>>
ChessBoardUser_write == <<<<1, "bool">>, <<2, "string">>, <<3, "string">>,
   <<4, "int32">>, <<5, "string">>, <<6, "string">>, <<7, "bytes">>,
   <<8, "uint32">>>>
ChessBoardUser_init == [merged |-> 1..8, mask |-> 1, nested |-> {}]

ChessBoardInfoReq_has == <<1, 2>>
ChessBoardInfoReq_merge == <<<<1, "int32", 16, 2>>, <<2, "int32", 0, 0>>>>
ChessBoardInfoReq_write == <<<<1, "int32">>, <<2, "int32">>>>
ChessBoardInfoReq_init == [merged |-> {1, 2}, mask |-> 1, nested |-> {}]

ChessBoardInfo_has == <<1, 2, 4, 8, 16>>
ChessBoardInfo_merge == <<<<1, "uint32", 16, 2>>, <<2, "uint32", 26, 3>>,
   <<3, "ChessBoardUser", 34, 4>>, <<4, "ChessBoardUser", 42, 5>>,
   <<5, "ChessBoardUser", 0, 0>>>>
ChessBoardInfo_write == <<<<1, "uint32">>, <<2, "uint32">>,
   <<3, "ChessBoardUser">>, <<4, "ChessBoardUser">>, <<5, "ChessBoardUser">>>>
ChessBoardInfo_init == [merged |-> 1..5, mask |-> 31, nested |-> 3..5]

HallInfoReq_has == <<1, 2>>
HallInfoReq_merge == <<<<1, "int32", 16, 2>>, <<2, "int32", 0, 0>>>>
HallInfoReq_write == <<<<1, "int32">>, <<2, "int32">>>>
HallInfoReq_init == [merged |-> {1, 2}, mask |-> 1, nested |-> {}]

HallInfo_has == <<1, 2, 4, 8, 0>>
HallInfo_merge == <<<<1, "int32", 16, 2>>, <<2, "uint32", 24, 3>>,
   <<3, "uint32", 32, 4>>, <<4, "uint32", 42, 5>>,
   <<5, "ChessBoardInfo", 42, 5>>>>
HallInfo_write == <<<<1, "int32">>, <<2, "uint32">>, <<3, "uint32">>,
   <<4, "uint32">>, <<5, "ChessBoardInfo">>>>
HallInfo_init == [merged |-> 1..5, mask |-> 7, nested |-> {5}]

GameHallSumaryReq_has == <<1>>
GameHallSumaryReq_merge == <<<<1, "int32", 0, 0>>>>
GameHallSumaryReq_write == <<<<1, "int32">>>>
GameHallSumaryReq_init == [merged |-> {1}, mask |-> 0, nested |-> {}]

GameHallSumary_has == <<1, 2, 4, 8, 16, 32, 64, 0>>
GameHallSumary_merge == <<<<1, "string", 18, 2>>, <<2, "string", 24, 3>>,
   <<3, "int32", 32, 4>>, <<4, "uint32", 42, 5>>, <<5, "string", 50, 6>>,
   <<6, "string", 58, 7>>, <<7, "string", 66, 8>>, <<8, "HallInfo", 66, 8>>>>
GameHallSumary_write == <<<<1, "string">>, <<2, "string">>, <<3, "int32">>,
   <<4, "uint32">>, <<5, "string">>, <<6, "string">>, <<7, "string">>,
   <<8, "HallInfo">>>>
GameHallSumary_init == [merged |-> 1..8, mask |-> 63, nested |-> {8}]

RequestPlay_has == <<1, 2, 4>>
RequestPlay_merge == <<<<1, "int32", 16, 2>>, <<2, "int32", 24, 3>>,
   <<3, "int32", 0, 0>>>>
RequestPlay_write == <<<<1, "int32">>, <<2, "int32">>, <<3, "int32">>>>
RequestPlay_init == [merged |-> 1..3, mask |-> 7, nested |-> {}]

RequestPlayReply_has == <<1, 2, 4>>
RequestPlayReply_merge == <<<<1, "int32", 16, 2>>, <<2, "uint32", 26, 3>>,
   <<3, "ChessBoardInfo", 0, 0>>>>
RequestPlayReply_write == <<<<1, "int32">>, <<2, "uint32">>,
   <<3, "ChessBoardInfo">>>>
RequestPlayReply_init == [merged |-> 1..3, mask |-> 3, nested |-> {3}]

\* The capture's target is not written.
MoveChess_write_Fault == <<<<1, "int32">>, <<2, "int32">>, <<3, "int32">>,
   <<4, "int32">>, <<5, "int32">>, <<6, "int32">>, <<7, "bool">>, <<8, "int32">>>>

MoveChess_has == <<1, 2, 4, 8, 16, 32, 64, 128, 256>>
MoveChess_merge == <<<<1, "int32", 16, 2>>, <<2, "int32", 24, 3>>,
   <<3, "int32", 32, 4>>, <<4, "int32", 40, 5>>, <<5, "int32", 48, 6>>,
   <<6, "int32", 56, 7>>, <<7, "bool", 64, 8>>, <<8, "int32", 72, 9>>,
   <<9, "uint32", 0, 0>>>>
MoveChess_write == <<<<1, "int32">>, <<2, "int32">>, <<3, "int32">>,
   <<4, "int32">>, <<5, "int32">>, <<6, "int32">>, <<7, "bool">>,
   <<8, "int32">>, <<9, "uint32">>>>
MoveChess_init == [merged |-> 1..9, mask |-> 127, nested |-> {}]

MoveAction_has == <<1, 2, 4>>
MoveAction_merge == <<<<1, "uint32", 18, 2>>, <<2, "MoveChess", 24, 3>>,
   <<3, "uint32", 0, 0>>>>
MoveAction_write == <<<<1, "uint32">>, <<2, "MoveChess">>, <<3, "uint32">>>>
MoveAction_init == [merged |-> 1..3, mask |-> 7, nested |-> {2}]

UserMessage_has == <<1, 2>>
UserMessage_merge == <<<<1, "uint32", 18, 2>>, <<2, "string", 0, 0>>>>
UserMessage_write == <<<<1, "uint32">>, <<2, "string">>>>
UserMessage_init == [merged |-> {1, 2}, mask |-> 3, nested |-> {}]

SystemMessage_has == <<1>>
SystemMessage_merge == <<<<1, "string", 0, 0>>>>
SystemMessage_write == <<<<1, "string">>>>
SystemMessage_init == [merged |-> {1}, mask |-> 1, nested |-> {}]

Reconciled_has == <<1, 2, 4, 8>>
Reconciled_merge == <<<<1, "uint32", 16, 2>>, <<2, "uint32", 24, 3>>,
   <<3, "uint32", 34, 4>>, <<4, "string", 0, 0>>>>
Reconciled_write == <<<<1, "uint32">>, <<2, "uint32">>, <<3, "uint32">>,
   <<4, "string">>>>
Reconciled_init == [merged |-> 1..4, mask |-> 7, nested |-> {}]

GiveUp_has == <<1, 2>>
GiveUp_merge == <<<<1, "uint32", 18, 2>>, <<2, "string", 0, 0>>>>
GiveUp_write == <<<<1, "uint32">>, <<2, "string">>>>
GiveUp_init == [merged |-> {1, 2}, mask |-> 1, nested |-> {}]

Undo_has == <<1, 2, 4, 8>>
Undo_merge == <<<<1, "uint32", 16, 2>>, <<2, "uint32", 24, 3>>,
   <<3, "uint32", 32, 4>>, <<4, "bool", 0, 0>>>>
Undo_write == <<<<1, "uint32">>, <<2, "uint32">>, <<3, "uint32">>,
   <<4, "bool">>>>
Undo_init == [merged |-> 1..4, mask |-> 7, nested |-> {}]

GameReadyReq_has == <<1, 2, 4, 8>>
GameReadyReq_merge == <<<<1, "uint32", 16, 2>>, <<2, "uint32", 24, 3>>,
   <<3, "uint32", 32, 4>>, <<4, "uint32", 0, 0>>>>
GameReadyReq_write == <<<<1, "uint32">>, <<2, "uint32">>, <<3, "uint32">>,
   <<4, "uint32">>>>
GameReadyReq_init == [merged |-> 1..4, mask |-> 1, nested |-> {}]

GameStatusReply_has == <<1, 2, 4, 8, 16, 32>>
GameStatusReply_merge == <<<<1, "bool", 16, 2>>, <<2, "bool", 24, 3>>,
   <<3, "bool", 32, 4>>, <<4, "uint32", 40, 5>>, <<5, "uint32", 48, 6>>,
   <<6, "uint32", 0, 0>>>>
GameStatusReply_write == <<<<1, "bool">>, <<2, "bool">>, <<3, "bool">>,
   <<4, "uint32">>, <<5, "uint32">>, <<6, "uint32">>>>
GameStatusReply_init == [merged |-> 1..6, mask |-> 63, nested |-> {}]

FindPassword_has == <<1, 2>>
FindPassword_merge == <<<<1, "string", 18, 2>>, <<2, "string", 0, 0>>>>
FindPassword_write == <<<<1, "string">>, <<2, "string">>>>
FindPassword_init == [merged |-> {1, 2}, mask |-> 1, nested |-> {}]

UpdateUserInfo_has == <<1, 2, 4, 8, 16, 32>>
UpdateUserInfo_merge == <<<<1, "string", 18, 2>>, <<2, "string", 26, 3>>,
   <<3, "string", 34, 4>>, <<4, "string", 42, 5>>, <<5, "string", 50, 6>>,
   <<6, "bytes", 0, 0>>>>
UpdateUserInfo_write == <<<<1, "string">>, <<2, "string">>, <<3, "string">>,
   <<4, "string">>, <<5, "string">>, <<6, "bytes">>>>
UpdateUserInfo_init == [merged |-> 1..6, mask |-> 7, nested |-> {}]

AdPictureItemReply_has == <<1, 2, 4, 8, 16, 32, 64>>
AdPictureItemReply_merge == <<<<1, "uint32", 16, 2>>, <<2, "bool", 26, 3>>,
   <<3, "string", 34, 4>>, <<4, "string", 42, 5>>, <<5, "string", 50, 6>>,
   <<6, "string", 56, 7>>, <<7, "uint32", 0, 0>>>>
AdPictureItemReply_write == <<<<1, "uint32">>, <<2, "bool">>, <<3, "string">>,
   <<4, "string">>, <<5, "string">>, <<6, "string">>, <<7, "uint32">>>>
AdPictureItemReply_init == [merged |-> 1..7, mask |-> 3, nested |-> {}]

AdPictureReq_has == <<1, 2, 4>>
AdPictureReq_merge == <<<<1, "uint32", 16, 2>>, <<2, "uint32", 24, 3>>,
   <<3, "bool", 0, 0>>>>
AdPictureReq_write == <<<<1, "uint32">>, <<2, "uint32">>, <<3, "bool">>>>
AdPictureReq_init == [merged |-> 1..3, mask |-> 3, nested |-> {}]

AdPictureContentReply_has == <<1, 2>>
AdPictureContentReply_merge == <<<<1, "bool", 18, 2>>, <<2, "bytes", 0, 0>>>>
AdPictureContentReply_write == <<<<1, "bool">>, <<2, "bytes">>>>
AdPictureContentReply_init == [merged |-> {1, 2}, mask |-> 1, nested |-> {}]

----------------------------------------------------------------------------
Has == [Echo |-> Echo_has, LogOnorOut |-> LogOnorOut_has,
   ImageVersion |-> ImageVersion_has, ReplyStatus |-> ReplyStatus_has,
   Register |-> Register_has, ChessBoardUser |-> ChessBoardUser_has,
   ChessBoardInfoReq |-> ChessBoardInfoReq_has,
   ChessBoardInfo |-> ChessBoardInfo_has, HallInfoReq |-> HallInfoReq_has,
   HallInfo |-> HallInfo_has, GameHallSumaryReq |-> GameHallSumaryReq_has,
   GameHallSumary |-> GameHallSumary_has, RequestPlay |-> RequestPlay_has,
   RequestPlayReply |-> RequestPlayReply_has, MoveChess |-> MoveChess_has,
   MoveAction |-> MoveAction_has, UserMessage |-> UserMessage_has,
   SystemMessage |-> SystemMessage_has, Reconciled |-> Reconciled_has,
   GiveUp |-> GiveUp_has, Undo |-> Undo_has,
   GameReadyReq |-> GameReadyReq_has, GameStatusReply |-> GameStatusReply_has,
   FindPassword |-> FindPassword_has, UpdateUserInfo |-> UpdateUserInfo_has,
   AdPictureItemReply |-> AdPictureItemReply_has,
   AdPictureReq |-> AdPictureReq_has,
   AdPictureContentReply |-> AdPictureContentReply_has]

Merge == [Echo |-> Echo_merge, LogOnorOut |-> LogOnorOut_merge,
   ImageVersion |-> ImageVersion_merge, ReplyStatus |-> ReplyStatus_merge,
   Register |-> Register_merge, ChessBoardUser |-> ChessBoardUser_merge,
   ChessBoardInfoReq |-> ChessBoardInfoReq_merge,
   ChessBoardInfo |-> ChessBoardInfo_merge, HallInfoReq |-> HallInfoReq_merge,
   HallInfo |-> HallInfo_merge, GameHallSumaryReq |-> GameHallSumaryReq_merge,
   GameHallSumary |-> GameHallSumary_merge, RequestPlay |-> RequestPlay_merge,
   RequestPlayReply |-> RequestPlayReply_merge, MoveChess |-> MoveChess_merge,
   MoveAction |-> MoveAction_merge, UserMessage |-> UserMessage_merge,
   SystemMessage |-> SystemMessage_merge, Reconciled |-> Reconciled_merge,
   GiveUp |-> GiveUp_merge, Undo |-> Undo_merge,
   GameReadyReq |-> GameReadyReq_merge,
   GameStatusReply |-> GameStatusReply_merge,
   FindPassword |-> FindPassword_merge,
   UpdateUserInfo |-> UpdateUserInfo_merge,
   AdPictureItemReply |-> AdPictureItemReply_merge,
   AdPictureReq |-> AdPictureReq_merge,
   AdPictureContentReply |-> AdPictureContentReply_merge]

Write == [Echo |-> Echo_write, LogOnorOut |-> LogOnorOut_write,
   ImageVersion |-> ImageVersion_write, ReplyStatus |-> ReplyStatus_write,
   Register |-> Register_write, ChessBoardUser |-> ChessBoardUser_write,
   ChessBoardInfoReq |-> ChessBoardInfoReq_write,
   ChessBoardInfo |-> ChessBoardInfo_write, HallInfoReq |-> HallInfoReq_write,
   HallInfo |-> HallInfo_write, GameHallSumaryReq |-> GameHallSumaryReq_write,
   GameHallSumary |-> GameHallSumary_write, RequestPlay |-> RequestPlay_write,
   RequestPlayReply |-> RequestPlayReply_write, MoveChess |-> MoveChess_write,
   MoveAction |-> MoveAction_write, UserMessage |-> UserMessage_write,
   SystemMessage |-> SystemMessage_write, Reconciled |-> Reconciled_write,
   GiveUp |-> GiveUp_write, Undo |-> Undo_write,
   GameReadyReq |-> GameReadyReq_write,
   GameStatusReply |-> GameStatusReply_write,
   FindPassword |-> FindPassword_write,
   UpdateUserInfo |-> UpdateUserInfo_write,
   AdPictureItemReply |-> AdPictureItemReply_write,
   AdPictureReq |-> AdPictureReq_write,
   AdPictureContentReply |-> AdPictureContentReply_write]

Inits == [Echo |-> Echo_init, LogOnorOut |-> LogOnorOut_init,
   ImageVersion |-> ImageVersion_init, ReplyStatus |-> ReplyStatus_init,
   Register |-> Register_init, ChessBoardUser |-> ChessBoardUser_init,
   ChessBoardInfoReq |-> ChessBoardInfoReq_init,
   ChessBoardInfo |-> ChessBoardInfo_init, HallInfoReq |-> HallInfoReq_init,
   HallInfo |-> HallInfo_init, GameHallSumaryReq |-> GameHallSumaryReq_init,
   GameHallSumary |-> GameHallSumary_init, RequestPlay |-> RequestPlay_init,
   RequestPlayReply |-> RequestPlayReply_init, MoveChess |-> MoveChess_init,
   MoveAction |-> MoveAction_init, UserMessage |-> UserMessage_init,
   SystemMessage |-> SystemMessage_init, Reconciled |-> Reconciled_init,
   GiveUp |-> GiveUp_init, Undo |-> Undo_init,
   GameReadyReq |-> GameReadyReq_init,
   GameStatusReply |-> GameStatusReply_init,
   FindPassword |-> FindPassword_init, UpdateUserInfo |-> UpdateUserInfo_init,
   AdPictureItemReply |-> AdPictureItemReply_init,
   AdPictureReq |-> AdPictureReq_init,
   AdPictureContentReply |-> AdPictureContentReply_init]

(***************************************************************************)
(* The fields as message.proto declares them, in the order of the numbers. *)
(***************************************************************************)
Declared == [
   Echo |-> <<<<"optional", "string">>>>,
   LogOnorOut |-> <<<<"required", "string">>, <<"required", "string">>>>,
   ImageVersion |-> <<<<"required", "string">>, <<"required", "bool">>>>,
   ReplyStatus |-> <<<<"required", "uint32">>,
      <<"optional", "ChessBoardUser">>, <<"optional", "ImageVersion">>>>,
   Register |-> <<<<"required", "string">>, <<"required", "string">>,
      <<"optional", "string">>>>,
   ChessBoardUser |-> <<<<"required", "bool">>, <<"optional", "string">>,
      <<"optional", "string">>, <<"optional", "int32">>,
      <<"optional", "string">>, <<"optional", "string">>,
      <<"optional", "bytes">>, <<"optional", "uint32">>>>,
   ChessBoardInfoReq |-> <<<<"required", "int32">>, <<"optional", "int32">>>>,
   ChessBoardInfo |-> <<<<"required", "uint32">>, <<"required", "uint32">>,
      <<"required", "ChessBoardUser">>, <<"required", "ChessBoardUser">>,
      <<"required", "ChessBoardUser">>>>,
   HallInfoReq |-> <<<<"required", "int32">>, <<"optional", "int32">>>>,
   HallInfo |-> <<<<"required", "int32">>, <<"required", "uint32">>,
      <<"required", "uint32">>, <<"optional", "uint32">>,
      <<"repeated", "ChessBoardInfo">>>>,
   GameHallSumaryReq |-> <<<<"optional", "int32">>>>,
   GameHallSumary |-> <<<<"required", "string">>, <<"required", "string">>,
      <<"required", "int32">>, <<"required", "uint32">>,
      <<"required", "string">>, <<"required", "string">>,
      <<"optional", "string">>, <<"repeated", "HallInfo">>>>,
   RequestPlay |-> <<<<"required", "int32">>, <<"required", "int32">>,
      <<"required", "int32">>>>,
   RequestPlayReply |-> <<<<"required", "int32">>, <<"required", "uint32">>,
      <<"optional", "ChessBoardInfo">>>>,
   MoveChess |-> <<<<"required", "int32">>, <<"required", "int32">>,
      <<"required", "int32">>, <<"required", "int32">>,
      <<"required", "int32">>, <<"required", "int32">>,
      <<"required", "bool">>, <<"optional", "int32">>,
      <<"optional", "uint32">>>>,
   MoveAction |-> <<<<"required", "uint32">>, <<"required", "MoveChess">>,
      <<"required", "uint32">>>>,
   UserMessage |-> <<<<"required", "uint32">>, <<"required", "string">>>>,
   SystemMessage |-> <<<<"required", "string">>>>,
   Reconciled |-> <<<<"required", "uint32">>, <<"required", "uint32">>,
      <<"required", "uint32">>, <<"optional", "string">>>>,
   GiveUp |-> <<<<"required", "uint32">>, <<"optional", "string">>>>,
   Undo |-> <<<<"required", "uint32">>, <<"required", "uint32">>,
      <<"required", "uint32">>, <<"optional", "bool">>>>,
   GameReadyReq |-> <<<<"required", "uint32">>, <<"optional", "uint32">>,
      <<"optional", "uint32">>, <<"optional", "uint32">>>>,
   GameStatusReply |-> <<<<"required", "bool">>, <<"required", "bool">>,
      <<"required", "bool">>, <<"required", "uint32">>,
      <<"required", "uint32">>, <<"required", "uint32">>>>,
   FindPassword |-> <<<<"required", "string">>, <<"optional", "string">>>>,
   UpdateUserInfo |-> <<<<"required", "string">>, <<"required", "string">>,
      <<"required", "string">>, <<"optional", "string">>,
      <<"optional", "string">>, <<"optional", "bytes">>>>,
   AdPictureItemReply |-> <<<<"required", "uint32">>, <<"required", "bool">>,
      <<"optional", "string">>, <<"optional", "string">>,
      <<"optional", "string">>, <<"optional", "string">>,
      <<"optional", "uint32">>>>,
   AdPictureReq |-> <<<<"required", "uint32">>, <<"required", "uint32">>,
      <<"optional", "bool">>>>,
   AdPictureContentReply |-> <<<<"required", "bool">>,
      <<"optional", "bytes">>>>]

Classes == DOMAIN Declared
============================================================================
