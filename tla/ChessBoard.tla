----------------------------- MODULE ChessBoard -----------------------------
(***************************************************************************)
(* The boards of the three-player chess server and the sessions sitting at *)
(* them: chessboard.cpp (seats, game status, scores, the handlers behind   *)
(* TranslateMsg), stategameready.cpp and stategameplay.cpp (which handler a*)
(* message of a session reaches) and the part of usersession.cpp that      *)
(* leaves a board when a connection goes away.                             *)
(*                                                                         *)
(* server.cpp starts one work thread, so a libevent callback, and with it  *)
(* the whole handler of one message, runs to its end before the next one:  *)
(* every handler is one action.  A user is an account with at most one     *)
(* session.  A handler acts on the seat its message names (src_user_locate,*)
(* locate), never comparing it with the session that sent the message: who *)
(* sends (u) and who is meant (the user at seat s) are different parameters*)
(* of an action, and Next lets them differ.  Handlers that only forward a  *)
(* message (chat, undo and peace requests, echo, hall and board queries)   *)
(* change none of this state.                                              *)
(***************************************************************************)
EXTENDS Integers, FiniteSets

CONSTANTS
    Users,      \* the accounts that play
    Boards,     \* the boards of all halls
    NoUser,     \* NULL in leftUser, rightUser, bottomUser
    NoBoard,    \* NULL in currChessBoard
    Times,      \* the (total_time, single_step_time) pairs a client may ask for
    NoTimes,    \* the pair (0, 0) of a new board; also: no pair in the message
    ScoreMod,   \* 2^32 in the code: user_info.score is an u_int32
    LateUndo    \* may users undo a move after it has ended the game?

ASSUME NullAssumption == NoUser \notin Users /\ NoBoard \notin Boards
ASSUME ScoreAssumption == ScoreMod \in Nat \ {0}
ASSUME ClientAssumption == LateUndo \in BOOLEAN

(* usersession.h: LOCATION_MAX stands for "nobody".                        *)
Locations == {"LEFT", "RIGHT", "BOTTOM"}
LocationOrMax == Locations \cup {"MAX"}

(* usersession.h: the numbers matter, GameBegan compares them.             *)
NOT_START == 0
EXITED == NOT_START
READY == 1
BEGAN == 2
PLAYING == 3
ENDED == 4
Statuses == NOT_START .. ENDED

VARIABLES
    up,             \* FALSE once a handler has dereferenced NULL
    state,          \* stateMachine->GetType(); "OFF" when not in the halls
    status,         \* UserSession::status
    locate,         \* UserSession::locate
    currChessBoard, \* UserSession::currChessBoard
    score,          \* user_info.score, written through to the database
    seat,           \* leftUser, rightUser and bottomUser of each board
    currUserNum,    \* ChessBoard::currUserNum
    first_come,     \* ChessBoard::first_come_user_locate
    times,          \* ChessBoard::total_time and single_step_time
    recent_winner,  \* ChessBoard::recent_winner_locate
    recent_loser,   \* ChessBoard::recent_loser_locate
    token           \* token_locate of the last announcement on a board

vars == << up, state, status, locate, currChessBoard, score, seat, currUserNum,
           first_come, times, recent_winner, recent_loser, token >>

Init ==
    /\ up = TRUE
    /\ state = [u \in Users |-> "OFF"]
    /\ status = [u \in Users |-> NOT_START]
    /\ locate = [u \in Users |-> "LEFT"]
    /\ currChessBoard = [u \in Users |-> NoBoard]
    /\ score = [u \in Users |-> 100 % ScoreMod]
    /\ seat = [b \in Boards |-> [l \in Locations |-> NoUser]]
    /\ currUserNum = [b \in Boards |-> 0]
    /\ first_come = [b \in Boards |-> "MAX"]
    /\ times = [b \in Boards |-> NoTimes]
    /\ recent_winner = [b \in Boards |-> "MAX"]
    /\ recent_loser = [b \in Boards |-> "MAX"]
    /\ token = [b \in Boards |-> "MAX"]

-----------------------------------------------------------------------------
(* Operators named <Definition>_<Fault> are faulty variants of the          *)
(* definition that follows: each breaks a property stated below.           *)

(* Scores are unsigned: taking 30 from 0 wraps around.                     *)
IncreaseScore(s, d) == (s + d) % ScoreMod
ReduceScore(s, d) == (s - d) % ScoreMod

(* The seats of a board (given as its seat function and the status of all  *)
(* users) whose user has a status in S.                                    *)
SeatsWith(seats, st, S) ==
    {l \in Locations : seats[l] # NoUser /\ st[seats[l]] \in S}

Occupied(seats) == {l \in Locations : seats[l] # NoUser}
Seated(seats) == {seats[l] : l \in Occupied(seats)}

GetActiveUsersNum(seats, st) == Cardinality(SeatsWith(seats, st, {PLAYING}))

GameBegan_OnlyEnded(b) == SeatsWith(seat[b], status, {ENDED}) # {}

(* Anybody at the board is PLAYING or ENDED (status > STATUS_BEGAN).       *)
GameBegan(b) == SeatsWith(seat[b], status, {PLAYING, ENDED}) # {}

(* The users in S get the status x.                                        *)
WithStatus(st, S, x) == [u \in Users |-> IF u \in S THEN x ELSE st[u]]

(* The order of play, and who is announced to hold the token after a move  *)
(* from seat l: the next seat, unless nobody PLAYING sits there.           *)
NextSeat == [l \in Locations |->
               IF l = "LEFT" THEN "BOTTOM"
               ELSE IF l = "BOTTOM" THEN "RIGHT" ELSE "LEFT"]

TokenAfter_NoSkip(seats, st, l) == NextSeat[l]

TokenAfter(seats, st, l) ==
    IF NextSeat[l] \in SeatsWith(seats, st, {PLAYING})
      THEN NextSeat[l]
      ELSE NextSeat[NextSeat[l]]

(* Nobody is found at a number that is no seat ("MAX").                    *)
GetUserByLocation(b, l) == IF l = "MAX" THEN NoUser ELSE seat[b][l]

(* Messages for the board are handed to it while the process lives and the *)
(* session plays at one.                                                   *)
InPlay(u) == up /\ state[u] = "GAME_PLAY" /\ currChessBoard[u] # NoBoard

(* A handler dereferences NULL and the process is gone.                    *)
Crash ==
    /\ up' = FALSE
    /\ UNCHANGED << state, status, locate, currChessBoard, score, seat, currUserNum,
                    first_come, times, recent_winner, recent_loser, token >>

-----------------------------------------------------------------------------
(* A user connects, logs in and has downloaded the advertisements.  The    *)
(* session keeps the locate its previous use left in it.                   *)
EnterHall(u) ==
    /\ up
    /\ state[u] = "OFF"
    /\ state' = [state EXCEPT ![u] = "GAME_READY"]
    /\ UNCHANGED << up, status, locate, currChessBoard, score, seat, currUserNum,
                    first_come, times, recent_winner, recent_loser, token >>

HasFullUsers(b) == currUserNum[b] = 3

(* AddUser's test, for a session whose locate is l.                        *)
CanAddUser(b, l) == ~HasFullUsers(b) /\ l # "MAX" /\ GetUserByLocation(b, l) = NoUser

(* GameRequestHandle for a chess_board_id the hall has no board for.       *)
GameRequestNoBoard(u) ==
    /\ up
    /\ state[u] = "GAME_READY"
    /\ Crash

(* GameRequestHandle, refused: the session keeps the locate it asked for.  *)
GameRequestRefused(u, b, l) ==
    /\ up
    /\ state[u] = "GAME_READY"
    /\ GameBegan(b) \/ ~CanAddUser(b, l)
    /\ locate' = [locate EXCEPT ![u] = l]
    /\ UNCHANGED << up, state, status, currChessBoard, score, seat, currUserNum,
                    first_come, times, recent_winner, recent_loser, token >>

(* GameRequestHandle, accepted: seated, READY, and the first to come if    *)
(* nobody else is at the board.                                            *)
GameRequestAccepted(u, b, l) ==
    /\ up
    /\ state[u] = "GAME_READY"
    /\ ~GameBegan(b)
    /\ CanAddUser(b, l)
    /\ locate' = [locate EXCEPT ![u] = l]
    /\ seat' = [seat EXCEPT ![b][l] = u]
    /\ currUserNum' = [currUserNum EXCEPT ![b] = @ + 1]
    /\ status' = [status EXCEPT ![u] = READY]
    /\ currChessBoard' = [currChessBoard EXCEPT ![u] = b]
    /\ first_come' = [first_come EXCEPT ![b] = IF currUserNum'[b] = 1 THEN l ELSE @]
    /\ state' = [state EXCEPT ![u] = "GAME_PLAY"]
    /\ UNCHANGED << up, score, times, recent_winner, recent_loser, token >>

GameReady_TwoSuffice(b, x, s, t) ==
    LET st == WithStatus(status, {x}, BEGAN)
        began == SeatsWith(seat[b], st, {BEGAN})
    IN  /\ status' = IF Cardinality(began) >= 2
                       THEN WithStatus(st, Seated(seat[b]), PLAYING)
                       ELSE st
        /\ times' = [times EXCEPT ![b] = IF s = first_come[b] /\ t # NoTimes THEN t ELSE @]
        /\ token' = [token EXCEPT ![b] = "BOTTOM"]
        /\ UNCHANGED << up, state, locate, currChessBoard, score, seat,
                        currUserNum, first_come, recent_winner, recent_loser >>

(* GameReadyHandle, where x (NULL or a user) is found at the seat s the    *)
(* message names: x is BEGAN; the first comer may set the times; the third *)
(* BEGAN starts the game.  Every call announces BOTTOM's token.            *)
GameReadyHandle(b, x, s, t) ==
    LET st == WithStatus(status, {x}, BEGAN)
        began == SeatsWith(seat[b], st, {BEGAN})
    IN  /\ status' = IF Cardinality(began) = 3
                       THEN WithStatus(st, Seated(seat[b]), PLAYING)
                       ELSE st
        /\ times' = [times EXCEPT ![b] = IF s = first_come[b] /\ t # NoTimes THEN t ELSE @]
        /\ token' = [token EXCEPT ![b] = "BOTTOM"]
        /\ UNCHANGED << up, state, locate, currChessBoard, score, seat,
                        currUserNum, first_come, recent_winner, recent_loser >>

GameReady(u, s, t) ==
    LET b == currChessBoard[u]
    IN  InPlay(u) /\ GameReadyHandle(b, GetUserByLocation(b, s), s, t)

AnnounceMove_NoLastWinner(b, x, st) ==
    /\ token' = [token EXCEPT ![b] = TokenAfter(seat[b], st, locate[x])]
    /\ status' = st

(* MoveChessHandle, after its capture part has produced the status st: the *)
(* token moves on, or src_user x is the last winner and has ENDED.         *)
AnnounceMove(b, x, st) ==
    LET on == GetActiveUsersNum(seat[b], st) > 1
    IN  /\ token' = [token EXCEPT ![b] =
                       IF on THEN TokenAfter(seat[b], st, locate[x]) ELSE "MAX"]
        /\ status' = IF on THEN st ELSE [st EXCEPT ![x] = ENDED]

(* MoveChessHandle with is_winner unset, from the seat where x sits.       *)
MoveChessHandle(b, x) ==
    /\ recent_winner' = [recent_winner EXCEPT ![b] = "MAX"]
    /\ recent_loser' = [recent_loser EXCEPT ![b] = "MAX"]
    /\ AnnounceMove(b, x, status)
    /\ UNCHANGED << up, state, locate, currChessBoard, score, seat,
                    currUserNum, first_come, times >>

(* src_user is used without a test for NULL.                               *)
MoveChess(u, s) ==
    LET b == currChessBoard[u]
        x == GetUserByLocation(b, s)
    IN  /\ InPlay(u)
        /\ IF x = NoUser THEN Crash ELSE MoveChessHandle(b, x)

CaptureScore_WinnerOnly(x, v) == [score EXCEPT ![x] = IncreaseScore(@, 10)]

CaptureScore(x, v) ==
    LET won == [score EXCEPT ![x] = IncreaseScore(@, 10)]
    IN  [won EXCEPT ![v] = ReduceScore(@, 10)]

(* MoveChessHandle with is_winner set, from seat s where x sits: the user  *)
(* at l, if there is one, is beaten.                                       *)
CaptureHandle(b, x, s, l) ==
    LET v == GetUserByLocation(b, l)
    IN  /\ recent_winner' = [recent_winner EXCEPT ![b] = s]
        /\ recent_loser' = [recent_loser EXCEPT ![b] = l]
        /\ IF v = NoUser
             THEN /\ score' = [score EXCEPT ![x] = IncreaseScore(@, 10)]
                  /\ AnnounceMove(b, x, status)
             ELSE /\ score' = CaptureScore(x, v)
                  /\ AnnounceMove(b, x, [status EXCEPT ![v] = ENDED])
        /\ UNCHANGED << up, state, locate, currChessBoard, seat, currUserNum,
                        first_come, times >>

CaptureChess(u, s, l) ==
    LET b == currChessBoard[u]
        x == GetUserByLocation(b, s)
    IN  /\ InPlay(u)
        /\ IF x = NoUser THEN Crash ELSE CaptureHandle(b, x, s, l)

(* ReconciledHandle with status "All": everybody agreed to a draw.         *)
ReconcileAll(u) ==
    /\ InPlay(u)
    /\ status' = WithStatus(status, Seated(seat[currChessBoard[u]]), ENDED)
    /\ UNCHANGED << up, state, locate, currChessBoard, score, seat, currUserNum,
                    first_come, times, recent_winner, recent_loser, token >>

(* UndoHandle, an accepted undo: the last capture is paid back and the     *)
(* beaten user plays again.  The seats of the winner and of the loser are  *)
(* dereferenced in this order, without a test for NULL.                    *)
UndoPayback(b) ==
    LET w == GetUserByLocation(b, recent_winner[b])
        v == GetUserByLocation(b, recent_loser[b])
        paid == [score EXCEPT ![w] = ReduceScore(@, 10)]
    IN  IF w = NoUser
          THEN up' = FALSE /\ UNCHANGED << score, status >>
        ELSE IF v = NoUser
          THEN /\ up' = FALSE
               /\ score' = paid
               /\ UNCHANGED status
        ELSE /\ score' = [paid EXCEPT ![v] = IncreaseScore(@, 10)]
             /\ status' = [status EXCEPT ![v] = PLAYING]
             /\ UNCHANGED up

UndoAccept(u) ==
    LET b == currChessBoard[u]
    IN  /\ InPlay(u)
        /\ recent_winner[b] # "MAX"
        /\ UndoPayback(b)
        /\ UNCHANGED << state, locate, currChessBoard, seat, currUserNum,
                        first_come, times, recent_winner, recent_loser, token >>

(* GameAgainHandle, accepted (a refusal changes nothing): the user at seat *)
(* s of this board, if a game has begun on the board c the message names.  *)
GameAgainHandle(x, c) ==
    /\ GameBegan(c)
    /\ status[x] = ENDED
    /\ status' = [status EXCEPT ![x] = READY]
    /\ UNCHANGED << up, state, locate, currChessBoard, score, seat, currUserNum,
                    first_come, times, recent_winner, recent_loser, token >>

GameAgain(u, s, c) ==
    LET x == GetUserByLocation(currChessBoard[u], s)
    IN  /\ InPlay(u)
        /\ x # NoUser
        /\ IF c = NoBoard THEN Crash ELSE GameAgainHandle(x, c)

-----------------------------------------------------------------------------
LeaveOutRoom_KeepsCount(b, x) ==
    LET l == locate[x]
    IN  /\ seat' = [seat EXCEPT ![b][l] = NoUser]
        /\ first_come' = [first_come EXCEPT ![b] = IF @ = l THEN "MAX" ELSE @]
        /\ UNCHANGED currUserNum

LeaveOutRoom_KeepsFirstCome(b, x) ==
    LET l == locate[x]
    IN  /\ seat' = [seat EXCEPT ![b][l] = NoUser]
        /\ currUserNum' = [currUserNum EXCEPT ![b] = @ - 1]
        /\ UNCHANGED first_come

(* LeaveOutRoom(user): the seat at the user's locate is emptied, whoever   *)
(* sits there.                                                             *)
LeaveOutRoom(b, x) ==
    LET l == locate[x]
    IN  /\ IF currUserNum[b] > 0 /\ seat[b][l] # NoUser
             THEN /\ seat' = [seat EXCEPT ![b][l] = NoUser]
                  /\ currUserNum' = [currUserNum EXCEPT ![b] = @ - 1]
             ELSE UNCHANGED << seat, currUserNum >>
        /\ first_come' = [first_come EXCEPT ![b] = IF @ = l THEN "MAX" ELSE @]

(* The last part of LeaveRoomHandle, from the seats and the status st that *)
(* remain: a user left alone in the game is the last winner, and a game    *)
(* somebody walked out of (penalised) is over for everybody.               *)
LastWinners(seats, st) ==
    IF GetActiveUsersNum(seats, st) = 1
      THEN {seats[l] : l \in SeatsWith(seats, st, {PLAYING})}
      ELSE {}

SettleGame_OthersPlayOn(u, penalised, seats, st) ==
    /\ status' = WithStatus(st, LastWinners(seats, st), ENDED)
    /\ score' = [v \in Users |->
                   IF v \in LastWinners(seats, st) THEN IncreaseScore(score[v], 10)
                   ELSE IF v = u /\ penalised THEN ReduceScore(score[v], 30)
                   ELSE score[v]]

SettleGame(u, penalised, seats, st) ==
    /\ status' = WithStatus(st, LastWinners(seats, st) \cup
                                  (IF penalised THEN Seated(seats) ELSE {}), ENDED)
    /\ score' = [v \in Users |->
                   IF v \in LastWinners(seats, st) THEN IncreaseScore(score[v], 10)
                   ELSE IF v = u /\ penalised THEN ReduceScore(score[v], 30)
                   ELSE score[v]]

LeaveRoomHandle_KeepsStatus(b, x, st, really_leave) ==
    /\ IF really_leave
         THEN LeaveOutRoom(b, x)
         ELSE UNCHANGED << seat, currUserNum, first_come >>
    /\ SettleGame(x, st[x] = PLAYING, seat'[b],
                  IF really_leave THEN st ELSE [st EXCEPT ![x] = ENDED])

(* LeaveRoomHandle(user, really_leave) of board b for a user x whose status*)
(* is st[x] when it is called.                                             *)
LeaveRoomHandle(b, x, st, really_leave) ==
    /\ IF really_leave
         THEN LeaveOutRoom(b, x)
         ELSE UNCHANGED << seat, currUserNum, first_come >>
    /\ SettleGame(x, st[x] = PLAYING, seat'[b],
                  [st EXCEPT ![x] = IF really_leave THEN EXITED ELSE ENDED])

(* GiveUpHandle without "exit": the user at seat s stays at the board.  If *)
(* nobody sits there, nothing happens.                                     *)
GiveUp(u, s) ==
    LET b == currChessBoard[u]
        x == GetUserByLocation(b, s)
    IN  /\ InPlay(u)
        /\ x # NoUser
        /\ LeaveRoomHandle(b, x, status, FALSE)
        /\ UNCHANGED << up, state, locate, currChessBoard, times, recent_winner,
                        recent_loser, token >>

GiveUpExit_KeepsBoard(u, s) ==
    LET b == currChessBoard[u]
        x == GetUserByLocation(b, s)
    IN  /\ InPlay(u)
        /\ x # NoUser
        /\ LeaveRoomHandle(b, x, status, TRUE)
        /\ state' = IF x = u THEN [state EXCEPT ![u] = "GAME_READY"] ELSE state
        /\ UNCHANGED << up, locate, currChessBoard, times, recent_winner,
                        recent_loser, token >>

(* GiveUpHandle with "exit": the user at seat s is to go back to the halls.*)
(* MessageHandle takes that step for the sender of the message; anybody    *)
(* else is left in the GAME_PLAY state, without a board.                   *)
GiveUpExit(u, s) ==
    LET b == currChessBoard[u]
        x == GetUserByLocation(b, s)
    IN  /\ InPlay(u)
        /\ x # NoUser
        /\ LeaveRoomHandle(b, x, status, TRUE)
        /\ state' = IF x = u THEN [state EXCEPT ![u] = "GAME_READY"] ELSE state
        /\ currChessBoard' = [currChessBoard EXCEPT ![x] = NoBoard]
        /\ UNCHANGED << up, locate, times, recent_winner, recent_loser, token >>

(* The next message of such a user: one for the board is handed to NULL,   *)
(* any other (echo, hall query, update) is answered and takes him to the   *)
(* halls.                                                                  *)
MsgWithoutBoard(u) ==
    /\ up
    /\ state[u] = "GAME_PLAY" /\ currChessBoard[u] = NoBoard
    /\ \/ Crash
       \/ /\ state' = [state EXCEPT ![u] = "GAME_READY"]
          /\ UNCHANGED << up, status, locate, currChessBoard, score, seat, currUserNum,
                          first_come, times, recent_winner, recent_loser, token >>

(* DestructResource, for a session whose status is st[u].                  *)
DestructResource(u, st) ==
    /\ IF currChessBoard[u] # NoBoard
         THEN LeaveRoomHandle(currChessBoard[u], u, st, TRUE)
         ELSE status' = st /\ UNCHANGED << seat, currUserNum, first_come, score >>
    /\ currChessBoard' = [currChessBoard EXCEPT ![u] = NoBoard]
    /\ state' = [state EXCEPT ![u] = "OFF"]
    /\ UNCHANGED << up, locate, times, recent_winner, recent_loser, token >>

(* The connection is lost, times out, or its 60 s timer expires.           *)
Disconnect(u) ==
    /\ up
    /\ state[u] # "OFF"
    /\ DestructResource(u, status)

(* A message the state has no case for (a logout, say) closes the          *)
(* connection; StateGamePlay::MsgHandle first forgets the user's status.   *)
UnhandledMsg(u) ==
    /\ up
    /\ state[u] # "OFF"
    /\ DestructResource(u, IF state[u] = "GAME_PLAY"
                             THEN [status EXCEPT ![u] = NOT_START]
                             ELSE status)

-----------------------------------------------------------------------------
(* Everything the server accepts from the sessions it has, whatever seats  *)
(* and boards the messages name.                                           *)
Next ==
    \E u \in Users :
       \/ EnterHall(u)
       \/ \E b \in Boards, l \in LocationOrMax :
             \/ GameRequestRefused(u, b, l)
             \/ GameRequestAccepted(u, b, l)
       \/ GameRequestNoBoard(u)
       \/ \E s \in LocationOrMax :
             \/ \E t \in Times \cup {NoTimes} : GameReady(u, s, t)
             \/ MoveChess(u, s)
             \/ \E l \in LocationOrMax : CaptureChess(u, s, l)
             \/ \E c \in Boards \cup {NoBoard} : GameAgain(u, s, c)
             \/ GiveUp(u, s)
             \/ GiveUpExit(u, s)
       \/ ReconcileAll(u)
       \/ UndoAccept(u)
       \/ MsgWithoutBoard(u)
       \/ Disconnect(u)
       \/ UnhandledMsg(u)

Spec == Init /\ [][Next]_vars

(* The same with clients that keep to the rules of the game (the client is *)
(* not part of the repository): they name their own seat and board, the    *)
(* token holder moves and captures a user who plays, only users in a game  *)
(* agree to a draw or give up, or agree to an undo (with LateUndo also     *)
(* after the game), a READY user gets ready once nobody plays any more, and*)
(* nobody logs out without leaving the board.                              *)
HoldsToken(u) == status[u] = PLAYING /\ token[currChessBoard[u]] = locate[u]

MayGetReady(u) ==
    /\ status[u] = READY
    /\ SeatsWith(seat[currChessBoard[u]], status, {PLAYING}) = {}

MayUndo(u) == status[u] = PLAYING \/ (LateUndo /\ status[u] = ENDED)

PlayNext ==
    \E u \in Users :
       \/ EnterHall(u)
       \/ \E b \in Boards, l \in Locations :
             \/ GameRequestRefused(u, b, l)
             \/ GameRequestAccepted(u, b, l)
       \/ \E t \in Times \cup {NoTimes} : MayGetReady(u) /\ GameReady(u, locate[u], t)
       \/ HoldsToken(u) /\ MoveChess(u, locate[u])
       \/ \E l \in Locations :
             /\ HoldsToken(u)
             /\ l \in SeatsWith(seat[currChessBoard[u]], status, {PLAYING}) \ {locate[u]}
             /\ CaptureChess(u, locate[u], l)
       \/ status[u] = PLAYING /\ ReconcileAll(u)
       \/ MayUndo(u) /\ UndoAccept(u)
       \/ GameAgain(u, locate[u], currChessBoard[u])
       \/ status[u] = PLAYING /\ GiveUp(u, locate[u])
       \/ GiveUpExit(u, locate[u])
       \/ Disconnect(u)

PlaySpec == Init /\ [][PlayNext]_vars

(* ... except that a user may log out in the middle of a game.             *)
LogoutNext == PlayNext \/ \E u \in Users : UnhandledMsg(u)

LogoutSpec == Init /\ [][LogoutNext]_vars

-----------------------------------------------------------------------------
(* Type invariant: scores stay unsigned, seats hold users, and             *)
(* first_come_user_locate and the recent winner and loser are seats or MAX.*)
TypeOK ==
    /\ up \in BOOLEAN
    /\ state \in [Users -> {"OFF", "GAME_READY", "GAME_PLAY"}]
    /\ status \in [Users -> Statuses]
    /\ locate \in [Users -> LocationOrMax]
    /\ currChessBoard \in [Users -> Boards \cup {NoBoard}]
    /\ score \in [Users -> 0 .. (ScoreMod - 1)]
    /\ seat \in [Boards -> [Locations -> Users \cup {NoUser}]]
    /\ currUserNum \in [Boards -> 0 .. 3]
    /\ first_come \in [Boards -> LocationOrMax]
    /\ times \in [Boards -> Times \cup {NoTimes}]
    /\ recent_winner \in [Boards -> LocationOrMax]
    /\ recent_loser \in [Boards -> LocationOrMax]
    /\ token \in [Boards -> LocationOrMax]

(* A seat and the session in it point at each other, whatever seats the    *)
(* messages name: LeaveOutRoom empties the seat at the locate of the user  *)
(* it is called for, whoever sits there, and only currChessBoard says which*)
(* seats DestructResource has to give back.  So nobody sits twice, no seat *)
(* keeps a session that has gone back to the halls or to the session pool, *)
(* and a session with a board is in the GAME_PLAY state.  (A session in the*)
(* GAME_PLAY state may have lost its board to somebody else's "exit".)     *)
SeatsAndSessionsAgree ==
    /\ \A b \in Boards, l \in Locations :
          seat[b][l] # NoUser => /\ currChessBoard[seat[b][l]] = b
                                 /\ locate[seat[b][l]] = l
    /\ \A u \in Users :
          currChessBoard[u] # NoBoard => /\ state[u] = "GAME_PLAY"
                                         /\ locate[u] \in Locations
                                         /\ seat[currChessBoard[u]][locate[u]] = u

(* currUserNum, which decides whether a board is full, whether a comer is  *)
(* the first and what the hall list shows, is the number of taken seats,   *)
(* whatever order users come, exit and vanish in.                          *)
CountMatchesSeats ==
    \A b \in Boards : currUserNum[b] = Cardinality(Occupied(seat[b]))

(* A session that is at no board has no game status left in it: a recycled *)
(* session or a user back in the halls never starts as PLAYING or ENDED.   *)
NoStatusWithoutSeat ==
    \A u \in Users : currChessBoard[u] = NoBoard => status[u] = NOT_START

(* The right to set the times belongs to somebody who is still at the      *)
(* board: LeaveOutRoom takes it back from a first comer who leaves.        *)
FirstComerIsSeated ==
    \A b \in Boards : first_come[b] # "MAX" => seat[b][first_come[b]] # NoUser

(* A user starts playing only together with the two others at a full board,*)
(* all of them ready (GameReadyHandle), or by being restored as the loser  *)
(* of the last capture (UndoHandle): nobody drops into a running game.     *)
PlayersStartTogether ==
    [][\A u \in Users :
          (status[u] # PLAYING /\ status'[u] = PLAYING) =>
             LET b == currChessBoard[u]
             IN  /\ b # NoBoard
                 /\ \/ SeatsWith(seat'[b], status', {PLAYING}) = Locations
                    \/ recent_loser[b] # "MAX" /\ seat[b][recent_loser[b]] = u]_vars

(* While anybody plays at a board, the users sitting there can only become *)
(* fewer: GameRequestHandle lets nobody in, even to a seat just vacated.   *)
NoEntryDuringGame ==
    [][\A b \in Boards :
          SeatsWith(seat[b], status, {PLAYING}) # {} =>
             Seated(seat'[b]) \subseteq Seated(seat[b])]_vars

(* LeaveRoomHandle's promise: a user who leaves the board while PLAYING    *)
(* pays 30, and the game is over for everybody who stays.                  *)
LeavingEndsTheGame ==
    [][\A u \in Users :
          LET b == currChessBoard[u]
          IN  (status[u] = PLAYING /\ b # NoBoard /\ currChessBoard'[u] = NoBoard) =>
                 /\ score'[u] = (score[u] - 30) % ScoreMod
                 /\ SeatsWith(seat'[b], status', {PLAYING}) = {}]_vars

(* The token that moves and ready messages announce is held by a user who  *)
(* plays, as long as two users are in the game: the game never waits for a *)
(* seat that is empty or beaten.                                           *)
TokenHeldByPlayer ==
    up => \A b \in Boards :
             GetActiveUsersNum(seat[b], status) > 1 =>
                token[b] \in SeatsWith(seat[b], status, {PLAYING})

(* A game ends when one user is left ("the last winner"): no user is ever  *)
(* left PLAYING alone at a board.                                          *)
NoLonePlayer ==
    \A b \in Boards : GetActiveUsersNum(seat[b], status) # 1

(* Points are moved, not made: a step pays 10 from one user to another at  *)
(* the same board (a capture, or its undo), or somebody ends his part in a *)
(* running game by leaving or giving up and pays 30, of which 10 go to the *)
(* last winner if a single other user was in the game.  Nobody else's score*)
(* changes, and nobody is paid or charged twice.                           *)
ScoresConserved ==
    [][up' => \/ UNCHANGED score
              \/ \E w, v \in Users :
                    /\ w # v /\ currChessBoard[w] = currChessBoard[v]
                    /\ currChessBoard[w] # NoBoard
                    /\ score' = [score EXCEPT ![w] = (@ + 10) % ScoreMod,
                                             ![v] = (@ - 10) % ScoreMod]
              \/ \E u \in Users :
                    /\ status[u] = PLAYING /\ status'[u] # PLAYING
                    /\ LET others == {w \in Users \ {u} :
                                       /\ currChessBoard[w] = currChessBoard[u]
                                       /\ status[w] = PLAYING}
                       IN  score' = [w \in Users |->
                                       IF w = u THEN (score[w] - 30) % ScoreMod
                                       ELSE IF others = {w} THEN (score[w] + 10) % ScoreMod
                                       ELSE score[w]]]_vars

(* No message of a client makes a handler dereference an empty seat.       *)
ServerStaysUp == up

-----------------------------------------------------------------------------
(* What the people at a board see of it: who sits there, who is in the     *)
(* game, and whose turn was announced.                                     *)
PlayersAt(b) == {u \in Seated(seat[b]) : status[u] = PLAYING}

TurnAt(b) == IF PlayersAt(b) = {} THEN NoUser ELSE seat[b][token[b]]

Promise == INSTANCE BoardSpec WITH
              sitting <- [b \in Boards |-> Seated(seat[b])],
              players <- [b \in Boards |-> PlayersAt(b)],
              turn    <- [b \in Boards |-> TurnAt(b)]

(* A board keeps the promise of BoardSpec: whatever the order of messages, *)
(* captures, undos, departures and lost connections, games begin for three,*)
(* nobody joins them, the turn goes to somebody else who plays, and they   *)
(* end for all at once.                                                    *)
GamesAsPromised == Promise!Spec

=============================================================================
