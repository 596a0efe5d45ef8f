---------------------------- MODULE MCChessBoard ----------------------------
(***************************************************************************)
(* Model values for ChessBoard.                                            *)
(***************************************************************************)
EXTENDS ChessBoard, TLC

UserSymmetry == Permutations(Users)

(* The locate of a session at no board is overwritten before it is read.   *)
LocateAtBoard ==
    [u \in Users |-> IF currChessBoard[u] = NoBoard THEN "MAX" ELSE locate[u]]

(* No handler reads a score to decide anything, so states that differ only *)
(* in the scores need to be explored once; the properties about scores are *)
(* about the change a step makes, which does not depend on the old value.  *)
ViewWithoutScores ==
    << up, state, status, LocateAtBoard, currChessBoard, seat, currUserNum,
       first_come, times, recent_winner, recent_loser, token >>

(* The handlers read neither the token nor the times either: only clients  *)
(* that keep to the rules and the people at the board do.                  *)
ViewOfHandlers ==
    << up, state, status, LocateAtBoard, currChessBoard, seat, currUserNum,
       first_come, recent_winner, recent_loser >>
=============================================================================
