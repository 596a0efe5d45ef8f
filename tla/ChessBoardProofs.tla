-------------------------- MODULE ChessBoardProofs --------------------------
(***************************************************************************)
(* Proofs about ChessBoard, for any sets of users, boards and times and any*)
(* width of the scores.                                                    *)
(***************************************************************************)
EXTENDS ChessBoard, FiniteSetTheorems, TLAPS

(* The inductive invariant.  The range of currUserNum needs the seats to be*)
(* counted right, counting needs a user who leaves to sit at its locate,   *)
(* and that needs the seats and the sessions to agree.                     *)
IInv ==
    /\ TypeOK
    /\ SeatsAndSessionsAgree
    /\ CountMatchesSeats
    /\ NoStatusWithoutSeat
    /\ FirstComerIsSeated

(* A handler acts for the user at the seat its message names, whoever sent*)
(* the message.  What these users are made to do:                          *)
ReadySelf(x, t) == InPlay(x) /\ GameReadyHandle(currChessBoard[x], x, locate[x], t)

MoveSelf(x) == InPlay(x) /\ MoveChessHandle(currChessBoard[x], x)

CaptureSelf(x, l) == InPlay(x) /\ CaptureHandle(currChessBoard[x], x, locate[x], l)

AgainSelf(x, c) == InPlay(x) /\ GameAgainHandle(x, c)

GiveUpSelf(x) ==
    /\ InPlay(x)
    /\ LeaveRoomHandle(currChessBoard[x], x, status, FALSE)
    /\ UNCHANGED << up, state, locate, currChessBoard, times, recent_winner,
                    recent_loser, token >>

(* Who is made to leave stays in the GAME_PLAY state unless he asked for it*)
(* himself.                                                                *)
ExitSelf(x) ==
    /\ InPlay(x)
    /\ LeaveRoomHandle(currChessBoard[x], x, status, TRUE)
    /\ state' \in {state, [state EXCEPT ![x] = "GAME_READY"]}
    /\ currChessBoard' = [currChessBoard EXCEPT ![x] = NoBoard]
    /\ UNCHANGED << up, locate, times, recent_winner, recent_loser, token >>

SelfNext ==
    \E u \in Users :
       \/ EnterHall(u)
       \/ \E b \in Boards, l \in LocationOrMax :
             GameRequestRefused(u, b, l) \/ GameRequestAccepted(u, b, l)
       \/ \E t \in Times \cup {NoTimes} :
             \/ ReadySelf(u, t)
             \/ \E b \in Boards, s \in LocationOrMax : GameReadyHandle(b, NoUser, s, t)
       \/ MoveSelf(u)
       \/ \E l \in LocationOrMax : CaptureSelf(u, l)
       \/ ReconcileAll(u) \/ UndoAccept(u)
       \/ \E c \in Boards : AgainSelf(u, c)
       \/ GiveUpSelf(u) \/ ExitSelf(u)
       \/ MsgWithoutBoard(u) \/ Disconnect(u) \/ UnhandledMsg(u)
       \/ Crash

-----------------------------------------------------------------------------
(* Scores stay in the range of an unsigned integer.                        *)
LEMMA ScoreType ==
    ASSUME NEW s \in 0 .. (ScoreMod - 1), NEW d \in {10, 30}
    PROVE  /\ IncreaseScore(s, d) \in 0 .. (ScoreMod - 1)
           /\ ReduceScore(s, d) \in 0 .. (ScoreMod - 1)
BY ScoreAssumption DEF IncreaseScore, ReduceScore

(* A board has three seats.                                                *)
LEMMA ThreeSeats == IsFiniteSet(Locations) /\ Cardinality(Locations) = 3
<1>1. /\ IsFiniteSet({"LEFT"} \cup {"RIGHT"})
      /\ Cardinality({"LEFT"} \cup {"RIGHT"}) = 2
  <2>1. IsFiniteSet({"LEFT"}) /\ Cardinality({"LEFT"}) = 1
    BY FS_Singleton
  <2>2. QED BY <2>1, FS_AddElement
<1>2. Locations = ({"LEFT"} \cup {"RIGHT"}) \cup {"BOTTOM"}
  BY DEF Locations
<1>3. "BOTTOM" \notin {"LEFT"} \cup {"RIGHT"}
  OBVIOUS
<1>4. QED BY <1>1, <1>2, <1>3, FS_AddElement

(* There are at most three taken seats.                                    *)
LEMMA OccupiedRange ==
    ASSUME NEW seats
    PROVE  /\ IsFiniteSet(Occupied(seats))
           /\ Cardinality(Occupied(seats)) \in 0 .. 3
<1>1. Occupied(seats) \subseteq Locations
  BY DEF Occupied
<1>2. QED BY <1>1, ThreeSeats, FS_Subset, FS_CardinalityType

(* Taking an empty seat adds one taken seat.                               *)
LEMMA OccupiedAdd ==
    ASSUME NEW seats \in [Locations -> Users \cup {NoUser}],
           NEW l \in Locations, NEW u \in Users, seats[l] = NoUser
    PROVE  Cardinality(Occupied([seats EXCEPT ![l] = u])) =
             Cardinality(Occupied(seats)) + 1
<1>1. Occupied([seats EXCEPT ![l] = u]) = Occupied(seats) \cup {l}
  BY NullAssumption DEF Occupied
<1>2. l \notin Occupied(seats)
  BY DEF Occupied
<1>3. QED BY <1>1, <1>2, OccupiedRange, FS_AddElement

(* Emptying a taken seat removes one.                                      *)
LEMMA OccupiedRemove ==
    ASSUME NEW seats \in [Locations -> Users \cup {NoUser}],
           NEW l \in Locations, seats[l] # NoUser
    PROVE  Cardinality(Occupied([seats EXCEPT ![l] = NoUser])) =
             Cardinality(Occupied(seats)) - 1
<1>1. Occupied([seats EXCEPT ![l] = NoUser]) = Occupied(seats) \ {l}
  BY DEF Occupied
<1>2. l \in Occupied(seats)
  BY DEF Occupied
<1>3. QED BY <1>1, <1>2, OccupiedRange, FS_RemoveElement

(* Changing the status of some users keeps the function's type.            *)
LEMMA WithStatusType ==
    ASSUME NEW st \in [Users -> Statuses], NEW S, NEW x \in Statuses
    PROVE  /\ WithStatus(st, S, x) \in [Users -> Statuses]
           /\ \A u \in Users : u \notin S => WithStatus(st, S, x)[u] = st[u]
BY DEF WithStatus

(* The values of enum UserGameStatus are statuses.                         *)
LEMMA StatusConstants ==
    /\ {NOT_START, EXITED, READY, BEGAN, PLAYING, ENDED} \subseteq Statuses
    /\ EXITED = NOT_START
BY DEF Statuses, NOT_START, EXITED, READY, BEGAN, PLAYING, ENDED

(* Whoever is seated has a board.                                          *)
LEMMA SeatedHaveBoards ==
    ASSUME TypeOK, SeatsAndSessionsAgree, NEW b \in Boards
    PROVE  Seated(seat[b]) \subseteq {u \in Users : currChessBoard[u] # NoBoard}
BY NullAssumption DEF Seated, Occupied, TypeOK, SeatsAndSessionsAgree

-----------------------------------------------------------------------------
(* A step that changes nobody's seat, board or session state keeps IInv if *)
(* it keeps the types and gives a status only to users at a board.         *)
LEMMA SeatsUntouched ==
    ASSUME IInv,
           status' \in [Users -> Statuses],
           score' \in [Users -> 0 .. (ScoreMod - 1)],
           up' \in BOOLEAN,
           times' \in [Boards -> Times \cup {NoTimes}],
           recent_winner' \in [Boards -> LocationOrMax],
           recent_loser' \in [Boards -> LocationOrMax],
           token' \in [Boards -> LocationOrMax],
           \A u \in Users : currChessBoard[u] = NoBoard => status'[u] = status[u],
           UNCHANGED << state, locate, currChessBoard, seat, currUserNum, first_come >>
    PROVE  IInv'
<1>1. TypeOK'
  BY DEF IInv, TypeOK
<1>2. SeatsAndSessionsAgree'
  BY DEF IInv, SeatsAndSessionsAgree
<1>3. CountMatchesSeats'
  BY DEF IInv, CountMatchesSeats
<1>4. NoStatusWithoutSeat'
  BY DEF IInv, NoStatusWithoutSeat
<1>5. FirstComerIsSeated'
  BY DEF IInv, FirstComerIsSeated
<1>6. QED BY <1>1, <1>2, <1>3, <1>4, <1>5 DEF IInv

(* A session with a board sits there, at its locate.                       *)
LEMMA InPlayIsSeated ==
    ASSUME IInv, NEW u \in Users, currChessBoard[u] # NoBoard
    PROVE  /\ currChessBoard[u] \in Boards
           /\ locate[u] \in Locations
           /\ seat[currChessBoard[u]][locate[u]] = u
BY DEF IInv, TypeOK, SeatsAndSessionsAgree

(* The user a handler finds at a seat plays at that board, and the seat is *)
(* the one his session knows.                                              *)
LEMMA FoundPlays ==
    ASSUME IInv, NEW b \in Boards, NEW s, s \in LocationOrMax,
           NEW x, x = GetUserByLocation(b, s), x # NoUser
    PROVE  /\ x \in Users /\ currChessBoard[x] = b /\ locate[x] = s
           /\ state[x] = "GAME_PLAY" /\ s \in Locations
<1>1. s \in Locations /\ x = seat[b][s]
  BY DEF GetUserByLocation, LocationOrMax
<1>2. x \in Users
  BY <1>1 DEF IInv, TypeOK
<1>3. currChessBoard[x] = b /\ locate[x] = s
  BY <1>1 DEF IInv, SeatsAndSessionsAgree
<1>4. QED BY <1>1, <1>2, <1>3, NullAssumption DEF IInv, SeatsAndSessionsAgree

(* A handler finds the sender at the sender's own seat.                    *)
LEMMA FoundSelf ==
    ASSUME IInv, NEW u \in Users, currChessBoard[u] # NoBoard
    PROVE  GetUserByLocation(currChessBoard[u], locate[u]) = u
BY InPlayIsSeated DEF GetUserByLocation, Locations

(* So every message has the effect of one that the user at the seat it     *)
(* names had sent for himself, or ends the process.                        *)
LEMMA ActsForNamed ==
    ASSUME IInv, Next
    PROVE  SelfNext
<1>1. PICK u \in Users :
         \/ EnterHall(u)
         \/ \E b \in Boards, l \in LocationOrMax :
               GameRequestRefused(u, b, l) \/ GameRequestAccepted(u, b, l)
         \/ GameRequestNoBoard(u)
         \/ \E s \in LocationOrMax :
               \/ \E t \in Times \cup {NoTimes} : GameReady(u, s, t)
               \/ MoveChess(u, s)
               \/ \E l \in LocationOrMax : CaptureChess(u, s, l)
               \/ \E c \in Boards \cup {NoBoard} : GameAgain(u, s, c)
               \/ GiveUp(u, s) \/ GiveUpExit(u, s)
         \/ ReconcileAll(u) \/ UndoAccept(u) \/ MsgWithoutBoard(u)
         \/ Disconnect(u) \/ UnhandledMsg(u)
  BY DEF Next
<1>2. ASSUME NEW s \in LocationOrMax, InPlay(u)
      PROVE  LET b == currChessBoard[u]
                 x == GetUserByLocation(b, s)
             IN  /\ b \in Boards
                 /\ x # NoUser => /\ x \in Users /\ InPlay(x)
                                  /\ currChessBoard[x] = b /\ locate[x] = s
  BY <1>2, InPlayIsSeated, FoundPlays, NullAssumption DEF InPlay
<1>3. ASSUME NEW s \in LocationOrMax, NEW t \in Times \cup {NoTimes}, GameReady(u, s, t)
      PROVE  \/ \E x \in Users : ReadySelf(x, t)
             \/ \E b \in Boards : GameReadyHandle(b, NoUser, s, t)
  BY <1>2, <1>3 DEF GameReady, ReadySelf
<1>4. ASSUME NEW s \in LocationOrMax, MoveChess(u, s)
      PROVE  Crash \/ \E x \in Users : MoveSelf(x)
  BY <1>2, <1>4 DEF MoveChess, MoveSelf
<1>5. ASSUME NEW s \in LocationOrMax, NEW l \in LocationOrMax, CaptureChess(u, s, l)
      PROVE  Crash \/ \E x \in Users : CaptureSelf(x, l)
  BY <1>2, <1>5 DEF CaptureChess, CaptureSelf
<1>6. ASSUME NEW s \in LocationOrMax, NEW c \in Boards \cup {NoBoard}, GameAgain(u, s, c)
      PROVE  Crash \/ (c \in Boards /\ \E x \in Users : AgainSelf(x, c))
  BY <1>2, <1>6 DEF GameAgain, AgainSelf
<1>7. ASSUME NEW s \in LocationOrMax, GiveUp(u, s)
      PROVE  \E x \in Users : GiveUpSelf(x)
  BY <1>2, <1>7 DEF GiveUp, GiveUpSelf
<1>8. ASSUME NEW s \in LocationOrMax, GiveUpExit(u, s)
      PROVE  \E x \in Users : ExitSelf(x)
  BY <1>2, <1>8 DEF GiveUpExit, ExitSelf
<1>9. GameRequestNoBoard(u) => Crash
  BY DEF GameRequestNoBoard
<1>10. QED BY <1>1, <1>3, <1>4, <1>5, <1>6, <1>7, <1>8, <1>9 DEF SelfNext

(* The token announced after a move names a seat.                          *)
LEMMA TokenType ==
    ASSUME NEW seats, NEW st, NEW l \in Locations
    PROVE  TokenAfter(seats, st, l) \in LocationOrMax
BY DEF TokenAfter, NextSeat, LocationOrMax, Locations

-----------------------------------------------------------------------------
(* One lemma per action: it keeps IInv.                                    *)
LEMMA EnterHallKeepsIInv ==
    ASSUME IInv, NEW u \in Users, EnterHall(u)
    PROVE  IInv'
<1>1. TypeOK'
  BY DEF IInv, TypeOK, EnterHall
<1>2. SeatsAndSessionsAgree'
  BY DEF IInv, TypeOK, SeatsAndSessionsAgree, EnterHall
<1>3. CountMatchesSeats' /\ NoStatusWithoutSeat' /\ FirstComerIsSeated'
  BY DEF IInv, CountMatchesSeats, NoStatusWithoutSeat, FirstComerIsSeated, EnterHall
<1>4. QED BY <1>1, <1>2, <1>3 DEF IInv

(* A refused GameRequestHandle changes only an unseated session.           *)
LEMMA GameRequestRefusedKeepsIInv ==
    ASSUME IInv, NEW u \in Users, NEW b \in Boards, NEW l \in LocationOrMax,
           GameRequestRefused(u, b, l)
    PROVE  IInv'
<1>1. TypeOK'
  BY DEF IInv, TypeOK, GameRequestRefused
<1>2. SeatsAndSessionsAgree'
  <2>1. /\ currChessBoard[u] = NoBoard /\ state[u] # "GAME_PLAY"
        /\ UNCHANGED << seat, state, currChessBoard >>
    BY DEF GameRequestRefused, IInv, SeatsAndSessionsAgree
  <2>2. \A v \in Users : v # u => locate'[v] = locate[v]
    BY DEF GameRequestRefused, IInv, TypeOK
  <2>3. \A c \in Boards, k \in Locations :
           seat[c][k] # NoUser => seat[c][k] \in Users /\ seat[c][k] # u
    BY <2>1, NullAssumption DEF IInv, TypeOK, SeatsAndSessionsAgree
  <2>4. QED BY <2>1, <2>2, <2>3 DEF IInv, SeatsAndSessionsAgree
<1>3. CountMatchesSeats' /\ NoStatusWithoutSeat' /\ FirstComerIsSeated'
  BY DEF IInv, CountMatchesSeats, NoStatusWithoutSeat, FirstComerIsSeated, GameRequestRefused
<1>4. QED BY <1>1, <1>2, <1>3 DEF IInv

(* An accepted GameRequestHandle seats a session at an empty seat.         *)
LEMMA GameRequestAcceptedKeepsIInv ==
    ASSUME IInv, NEW u \in Users, NEW b \in Boards, NEW l \in LocationOrMax,
           GameRequestAccepted(u, b, l)
    PROVE  IInv'
<1>0. l \in Locations /\ seat[b][l] = NoUser
  BY DEF GameRequestAccepted, CanAddUser, GetUserByLocation, LocationOrMax
<1> USE DEF IInv, GameRequestAccepted, CanAddUser, HasFullUsers
<1>1. CountMatchesSeats'
  <2>1. Cardinality(Occupied(seat'[b])) = Cardinality(Occupied(seat[b])) + 1
    <3>1. seat'[b] = [seat[b] EXCEPT ![l] = u]
      BY DEF TypeOK
    <3>2. QED BY <1>0, <3>1, OccupiedAdd DEF TypeOK
  <2>2. \A c \in Boards : c # b => seat'[c] = seat[c] /\ currUserNum'[c] = currUserNum[c]
    BY DEF TypeOK
  <2>3. currUserNum'[b] = currUserNum[b] + 1
    BY DEF TypeOK
  <2>4. QED BY <2>1, <2>2, <2>3 DEF CountMatchesSeats
<1>2. currUserNum' \in [Boards -> 0 .. 3]
  <2>1. currUserNum \in [Boards -> 0 .. 3] /\ currUserNum[b] # 3
    BY DEF TypeOK
  <2>2. currUserNum[b] + 1 \in 0 .. 3
    BY <2>1
  <2>3. currUserNum' = [currUserNum EXCEPT ![b] = currUserNum[b] + 1]
    OBVIOUS
  <2>4. QED BY <2>1, <2>2, <2>3
<1>3. first_come' \in [Boards -> LocationOrMax]
  BY DEF TypeOK, LocationOrMax
<1>4. TypeOK'
  BY <1>0, <1>2, <1>3, StatusConstants DEF TypeOK
<1>5. currChessBoard[u] = NoBoard
  BY DEF SeatsAndSessionsAgree
<1>6. SeatsAndSessionsAgree'
  BY <1>0, <1>5, NullAssumption DEF TypeOK, SeatsAndSessionsAgree
<1>7. NoStatusWithoutSeat'
  BY NullAssumption DEF TypeOK, NoStatusWithoutSeat
<1>8. FirstComerIsSeated'
  BY <1>0, NullAssumption DEF TypeOK, FirstComerIsSeated, LocationOrMax
<1>9. QED BY <1>1, <1>4, <1>6, <1>7, <1>8 DEF IInv

(* GameReadyHandle changes the status of users at the board only.          *)
LEMMA GameReadyKeepsIInv ==
    ASSUME IInv, NEW b \in Boards, NEW x, NEW s, NEW t \in Times \cup {NoTimes},
           x = NoUser \/ (x \in Users /\ currChessBoard[x] = b),
           GameReadyHandle(b, x, s, t)
    PROVE  IInv'
<1> DEFINE st == WithStatus(status, {x}, BEGAN)
<1>1. b # NoBoard
  BY NullAssumption
<1>2. st \in [Users -> Statuses] /\ \A v \in Users : v # x => st[v] = status[v]
  BY StatusConstants DEF WithStatus, IInv, TypeOK
<1>3. Seated(seat[b]) \subseteq {v \in Users : currChessBoard[v] # NoBoard}
  BY SeatedHaveBoards DEF IInv
<1>4. WithStatus(st, Seated(seat[b]), PLAYING) \in [Users -> Statuses]
  BY <1>2, WithStatusType, StatusConstants
<1>5. status' \in {st, WithStatus(st, Seated(seat[b]), PLAYING)}
  BY DEF GameReadyHandle
<1>6. \A v \in Users : currChessBoard[v] = NoBoard => status'[v] = status[v]
  <2> SUFFICES ASSUME NEW v \in Users, currChessBoard[v] = NoBoard
               PROVE  status'[v] = status[v]
    OBVIOUS
  <2>1. st[v] = status[v]
    BY <1>1, <1>2, NullAssumption
  <2>2. v \notin Seated(seat[b])
    BY <1>3
  <2>3. WithStatus(st, Seated(seat[b]), PLAYING)[v] = st[v]
    BY <2>2 DEF WithStatus
  <2>4. QED BY <1>5, <2>1, <2>3
<1>7. times' \in [Boards -> Times \cup {NoTimes}]
  BY DEF GameReadyHandle, IInv, TypeOK
<1>8. token' \in [Boards -> LocationOrMax]
  BY DEF GameReadyHandle, IInv, TypeOK, LocationOrMax, Locations
<1>9. UNCHANGED << up, state, locate, currChessBoard, score, seat, currUserNum,
                   first_come, recent_winner, recent_loser >>
  BY DEF GameReadyHandle
<1> HIDE DEF st
<1>10. QED
  BY <1>2, <1>4, <1>5, <1>6, <1>7, <1>8, <1>9, SeatsUntouched DEF IInv, TypeOK

(* The status a move leaves behind, and the token it announces.            *)
LEMMA AnnounceMoveType ==
    ASSUME IInv, NEW u \in Users, currChessBoard[u] # NoBoard,
           NEW st \in [Users -> Statuses],
           \A v \in Users : currChessBoard[v] = NoBoard => st[v] = status[v],
           AnnounceMove(currChessBoard[u], u, st)
    PROVE  /\ status' \in [Users -> Statuses]
           /\ \A v \in Users : currChessBoard[v] = NoBoard => status'[v] = status[v]
           /\ token' \in [Boards -> LocationOrMax]
<1>1. /\ currChessBoard[u] \in Boards
      /\ currChessBoard[u] # NoBoard
      /\ locate[u] \in Locations
  BY InPlayIsSeated, NullAssumption
<1>2. token' \in [Boards -> LocationOrMax]
  <2>1. TokenAfter(seat[currChessBoard[u]], st, locate[u]) \in LocationOrMax
    BY <1>1, TokenType
  <2>2. "MAX" \in LocationOrMax
    BY DEF LocationOrMax
  <2>3. QED BY <2>1, <2>2 DEF AnnounceMove, IInv, TypeOK
<1>3. status' = st \/ status' = [st EXCEPT ![u] = ENDED]
  BY DEF AnnounceMove
<1>4. QED BY <1>1, <1>2, <1>3, StatusConstants

(* MoveChessHandle without a capture keeps the invariant.                  *)
LEMMA MoveChessKeepsIInv ==
    ASSUME IInv, NEW u \in Users, MoveSelf(u)
    PROVE  IInv'
<1>1. currChessBoard[u] # NoBoard /\ AnnounceMove(currChessBoard[u], u, status)
  BY DEF MoveSelf, MoveChessHandle, InPlay
<1>2. status \in [Users -> Statuses]
  BY DEF IInv, TypeOK
<1>3. /\ status' \in [Users -> Statuses]
      /\ \A v \in Users : currChessBoard[v] = NoBoard => status'[v] = status[v]
      /\ token' \in [Boards -> LocationOrMax]
  BY <1>1, <1>2, AnnounceMoveType
<1>4. /\ recent_winner' \in [Boards -> LocationOrMax]
      /\ recent_loser' \in [Boards -> LocationOrMax]
  BY DEF MoveSelf, MoveChessHandle, IInv, TypeOK, LocationOrMax
<1>5. UNCHANGED << up, state, locate, currChessBoard, score, seat, currUserNum,
                   first_come, times >>
  BY DEF MoveSelf, MoveChessHandle
<1>6. QED BY <1>3, <1>4, <1>5, SeatsUntouched DEF IInv, TypeOK

(* MoveChessHandle with a capture keeps it, even of an empty seat.         *)
LEMMA CaptureChessKeepsIInv ==
    ASSUME IInv, NEW u \in Users, NEW l \in LocationOrMax, CaptureSelf(u, l)
    PROVE  IInv'
<1> DEFINE b == currChessBoard[u]
           v == GetUserByLocation(b, l)
<1>1. currChessBoard[u] # NoBoard /\ b \in Boards /\ locate[u] \in Locations
  BY InPlayIsSeated DEF CaptureSelf, CaptureHandle, InPlay
<1>2. status \in [Users -> Statuses] /\ score \in [Users -> 0 .. (ScoreMod - 1)]
  BY DEF IInv, TypeOK
<1>3. /\ recent_winner' \in [Boards -> LocationOrMax]
      /\ recent_loser' \in [Boards -> LocationOrMax]
  BY <1>1 DEF CaptureSelf, CaptureHandle, IInv, TypeOK, LocationOrMax
<1>4. UNCHANGED << up, state, locate, currChessBoard, seat, currUserNum,
                   first_come, times >>
  BY DEF CaptureSelf, CaptureHandle
<1>5. CASE v = NoUser
  <2>1. score' = [score EXCEPT ![u] = IncreaseScore(@, 10)] /\ AnnounceMove(currChessBoard[u], u, status)
    BY <1>5 DEF CaptureSelf, CaptureHandle
  <2>2. score' \in [Users -> 0 .. (ScoreMod - 1)]
    BY <1>2, <2>1, ScoreType
  <2>3. QED
    BY <1>1, <1>2, <1>3, <1>4, <2>1, <2>2, AnnounceMoveType, SeatsUntouched
       DEF IInv, TypeOK
<1>6. CASE v # NoUser
  <2>1. v \in Users /\ currChessBoard[v] # NoBoard
    BY <1>1, <1>6, FoundPlays, NullAssumption
  <2>2. score' = CaptureScore(u, v) /\ AnnounceMove(currChessBoard[u], u, [status EXCEPT ![v] = ENDED])
    BY <1>6 DEF CaptureSelf, CaptureHandle
  <2>3. score' \in [Users -> 0 .. (ScoreMod - 1)]
    <3> DEFINE won == [score EXCEPT ![u] = IncreaseScore(@, 10)]
    <3>1. won \in [Users -> 0 .. (ScoreMod - 1)]
      BY <1>2, ScoreType
    <3>2. score' = [won EXCEPT ![v] = ReduceScore(@, 10)]
      BY <2>2 DEF CaptureScore
    <3>3. ReduceScore(won[v], 10) \in 0 .. (ScoreMod - 1)
      BY <2>1, <3>1, ScoreType
    <3> HIDE DEF won
    <3>4. QED BY <2>1, <3>1, <3>2, <3>3
  <2>4. /\ [status EXCEPT ![v] = ENDED] \in [Users -> Statuses]
        /\ \A w \in Users : currChessBoard[w] = NoBoard =>
              [status EXCEPT ![v] = ENDED][w] = status[w]
    BY <1>2, <2>1, StatusConstants
  <2>5. /\ status' \in [Users -> Statuses]
        /\ \A w \in Users : currChessBoard[w] = NoBoard => status'[w] = status[w]
        /\ token' \in [Boards -> LocationOrMax]
    BY <1>1, <2>2, <2>4, AnnounceMoveType
  <2>6. QED BY <1>3, <1>4, <2>3, <2>5, SeatsUntouched DEF IInv, TypeOK
<1>7. QED BY <1>5, <1>6

(* ReconciledHandle with "All" ends the game of seated users only.         *)
LEMMA ReconcileAllKeepsIInv ==
    ASSUME IInv, NEW u \in Users, ReconcileAll(u)
    PROVE  IInv'
<1> DEFINE b == currChessBoard[u]
<1>1. b \in Boards
  BY InPlayIsSeated DEF ReconcileAll, InPlay
<1>2. Seated(seat[b]) \subseteq {v \in Users : currChessBoard[v] # NoBoard}
  BY <1>1, SeatedHaveBoards DEF IInv
<1>3. status' = WithStatus(status, Seated(seat[b]), ENDED)
  BY DEF ReconcileAll
<1>4. status' \in [Users -> Statuses]
  BY <1>3, StatusConstants DEF WithStatus, IInv, TypeOK
<1>5. \A v \in Users : currChessBoard[v] = NoBoard => status'[v] = status[v]
  BY <1>2, <1>3 DEF WithStatus
<1>6. UNCHANGED << up, state, locate, currChessBoard, score, seat, currUserNum,
                   first_come, times, recent_winner, recent_loser, token >>
  BY DEF ReconcileAll
<1>7. QED BY <1>4, <1>5, <1>6, SeatsUntouched DEF IInv, TypeOK

(* UndoHandle keeps the invariant, also when it meets an empty seat.       *)
LEMMA UndoAcceptKeepsIInv ==
    ASSUME IInv, NEW u \in Users, UndoAccept(u)
    PROVE  IInv'
<1> DEFINE b == currChessBoard[u]
           w == GetUserByLocation(b, recent_winner[b])
           v == GetUserByLocation(b, recent_loser[b])
<1>1. /\ b \in Boards
      /\ recent_winner[b] \in LocationOrMax
      /\ recent_loser[b] \in LocationOrMax
  BY InPlayIsSeated DEF UndoAccept, InPlay, IInv, TypeOK
<1>2. status \in [Users -> Statuses] /\ score \in [Users -> 0 .. (ScoreMod - 1)]
  BY DEF IInv, TypeOK
<1>3. UNCHANGED << state, locate, currChessBoard, seat, currUserNum, first_come,
                   times, recent_winner, recent_loser, token >>
  BY DEF UndoAccept
<1>4. UndoPayback(b)
  BY DEF UndoAccept
<1>5. CASE w = NoUser
  <2>1. up' = FALSE /\ UNCHANGED << score, status >>
    BY <1>4, <1>5 DEF UndoPayback
  <2>2. QED BY <1>2, <1>3, <2>1, SeatsUntouched DEF IInv, TypeOK
<1>6. CASE w # NoUser /\ v = NoUser
  <2>1. /\ up' = FALSE
        /\ score' = [score EXCEPT ![w] = ReduceScore(@, 10)]
        /\ status' = status
    BY <1>4, <1>6 DEF UndoPayback
  <2>2. score' \in [Users -> 0 .. (ScoreMod - 1)]
    BY <1>2, <2>1, ScoreType
  <2>3. QED BY <1>2, <1>3, <2>1, <2>2, SeatsUntouched DEF IInv, TypeOK
<1>7. CASE w # NoUser /\ v # NoUser
  <2>1. /\ up' = up
        /\ score' = [[score EXCEPT ![w] = ReduceScore(@, 10)]
                       EXCEPT ![v] = IncreaseScore(@, 10)]
        /\ status' = [status EXCEPT ![v] = PLAYING]
    BY <1>4, <1>7 DEF UndoPayback
  <2>2. v \in Users /\ currChessBoard[v] # NoBoard
    BY <1>1, <1>7, FoundPlays, NullAssumption
  <2>3. w \in Users
    BY <1>1, <1>7, FoundPlays
  <2>4. score' \in [Users -> 0 .. (ScoreMod - 1)]
    <3> DEFINE paid == [score EXCEPT ![w] = ReduceScore(@, 10)]
    <3>1. paid \in [Users -> 0 .. (ScoreMod - 1)]
      BY <1>2, <2>3, ScoreType
    <3>2. score' = [paid EXCEPT ![v] = IncreaseScore(@, 10)]
      BY <2>1
    <3>3. IncreaseScore(paid[v], 10) \in 0 .. (ScoreMod - 1)
      BY <2>2, <3>1, ScoreType
    <3> HIDE DEF paid
    <3>4. QED BY <2>2, <3>1, <3>2, <3>3
  <2>6. status' \in [Users -> Statuses]
    BY <1>2, <2>1, StatusConstants
  <2>7. \A x \in Users : currChessBoard[x] = NoBoard => status'[x] = status[x]
    BY <1>2, <2>1, <2>2
  <2>8. QED BY <1>3, <2>1, <2>4, <2>6, <2>7, SeatsUntouched DEF IInv, TypeOK
<1>8. QED BY <1>5, <1>6, <1>7

(* GameAgainHandle changes the status of a seated user only.               *)
LEMMA GameAgainKeepsIInv ==
    ASSUME IInv, NEW u \in Users, NEW c, AgainSelf(u, c)
    PROVE  IInv'
<1>1. currChessBoard[u] # NoBoard
  BY InPlayIsSeated, NullAssumption DEF AgainSelf, GameAgainHandle, InPlay
<1>2. status' \in [Users -> Statuses]
  BY StatusConstants DEF AgainSelf, GameAgainHandle, IInv, TypeOK
<1>3. \A v \in Users : currChessBoard[v] = NoBoard => status'[v] = status[v]
  BY <1>1 DEF AgainSelf, GameAgainHandle, IInv, TypeOK
<1>4. UNCHANGED << up, state, locate, currChessBoard, score, seat, currUserNum,
                   first_come, times, recent_winner, recent_loser, token >>
  BY DEF AgainSelf, GameAgainHandle
<1>5. QED BY <1>2, <1>3, <1>4, SeatsUntouched DEF IInv, TypeOK

-----------------------------------------------------------------------------
(* Settling a game changes the status only of users at the board (all of   *)
(* them have a board, and the one who leaves is not among them).           *)
LEMMA SettleGameType ==
    ASSUME IInv, NEW u \in Users, NEW p \in BOOLEAN, NEW seats,
           NEW st \in [Users -> Statuses],
           SettleGame(u, p, seats, st)
    PROVE  /\ status' \in [Users -> Statuses]
           /\ score' \in [Users -> 0 .. (ScoreMod - 1)]
           /\ \A v \in Users : v \notin Seated(seats) => status'[v] = st[v]
<1> DEFINE S == LastWinners(seats, st) \cup (IF p THEN Seated(seats) ELSE {})
<1>1. S \subseteq Seated(seats)
  BY DEF LastWinners, SeatsWith, Seated, Occupied
<1>2. status' = WithStatus(st, S, ENDED)
  BY DEF SettleGame
<1> HIDE DEF S
<1>3. status' \in [Users -> Statuses]
  BY <1>2, StatusConstants DEF WithStatus
<1>4. \A v \in Users : v \notin Seated(seats) => status'[v] = st[v]
  BY <1>1, <1>2 DEF WithStatus
<1>5. \A v \in Users : /\ score[v] \in 0 .. (ScoreMod - 1)
                       /\ IncreaseScore(score[v], 10) \in 0 .. (ScoreMod - 1)
                       /\ ReduceScore(score[v], 30) \in 0 .. (ScoreMod - 1)
  BY ScoreType DEF IInv, TypeOK
<1>6. score' \in [Users -> 0 .. (ScoreMod - 1)]
  BY <1>5 DEF SettleGame
<1>7. QED BY <1>3, <1>4, <1>6

(* GiveUpHandle without "exit" keeps the invariant.                        *)
LEMMA GiveUpKeepsIInv ==
    ASSUME IInv, NEW u \in Users, GiveUpSelf(u)
    PROVE  IInv'
<1> DEFINE b == currChessBoard[u]
           st == [status EXCEPT ![u] = ENDED]
<1>1. b \in Boards /\ b # NoBoard
  BY InPlayIsSeated, NullAssumption DEF GiveUpSelf, InPlay
<1>2. UNCHANGED << up, state, locate, currChessBoard, seat, currUserNum, first_come,
                   times, recent_winner, recent_loser, token >>
  BY DEF GiveUpSelf, LeaveRoomHandle
<1>3. SettleGame(u, status[u] = PLAYING, seat[b], st)
  BY <1>2 DEF GiveUpSelf, LeaveRoomHandle
<1>4. st \in [Users -> Statuses] /\ \A v \in Users : v # u => st[v] = status[v]
  BY StatusConstants DEF IInv, TypeOK
<1>5. /\ status' \in [Users -> Statuses]
      /\ score' \in [Users -> 0 .. (ScoreMod - 1)]
      /\ \A v \in Users : v \notin Seated(seat[b]) => status'[v] = st[v]
  <2> DEFINE p == status[u] = PLAYING
  <2>1. p \in BOOLEAN /\ SettleGame(u, p, seat[b], st)
    BY <1>3
  <2> HIDE DEF p, st, b
  <2>2. QED BY <1>4, <2>1, SettleGameType
<1>6. \A v \in Users : currChessBoard[v] = NoBoard => status'[v] = status[v]
  BY <1>1, <1>4, <1>5, SeatedHaveBoards DEF IInv
<1>7. QED BY <1>2, <1>5, <1>6, SeatsUntouched DEF IInv, TypeOK

(* Leaving a board for good, from a session that plays there (its own      *)
(* status st[u] may already have been overwritten).                        *)
LEMMA LeavingKeepsIInv ==
    ASSUME IInv, NEW u \in Users, currChessBoard[u] # NoBoard,
           NEW st \in [Users -> Statuses],
           \A v \in Users : v # u => st[v] = status[v],
           LeaveRoomHandle(currChessBoard[u], u, st, TRUE),
           currChessBoard' = [currChessBoard EXCEPT ![u] = NoBoard],
           NEW x \in {"OFF", "GAME_READY", "GAME_PLAY"},
           state' = [state EXCEPT ![u] = x],
           UNCHANGED << up, locate, times, recent_winner, recent_loser, token >>
    PROVE  IInv'
<1> DEFINE b == currChessBoard[u]
           l == locate[u]
           gone == [st EXCEPT ![u] = EXITED]
<1>1. b \in Boards /\ l \in Locations /\ seat[b][l] = u /\ b # NoBoard /\ u # NoUser
  BY InPlayIsSeated, NullAssumption
<1>2. Cardinality(Occupied(seat[b])) > 0 /\ currUserNum[b] \in 1 .. 3
  <2>1. l \in Occupied(seat[b])
    BY <1>1 DEF Occupied
  <2>2. Cardinality(Occupied(seat[b])) # 0
    BY <2>1, OccupiedRange, FS_EmptySet
  <2>3. QED BY <1>1, <2>2, OccupiedRange DEF IInv, CountMatchesSeats
<1>3. /\ seat' = [seat EXCEPT ![b][l] = NoUser]
      /\ currUserNum' = [currUserNum EXCEPT ![b] = @ - 1]
      /\ first_come' = [first_come EXCEPT ![b] = IF @ = l THEN "MAX" ELSE @]
  BY <1>1, <1>2 DEF LeaveRoomHandle, LeaveOutRoom
<1>4. seat'[b] = [seat[b] EXCEPT ![l] = NoUser]
  BY <1>1, <1>3 DEF IInv, TypeOK
<1>5. gone \in [Users -> Statuses] /\ gone[u] = NOT_START
  BY StatusConstants
<1>6. /\ status' \in [Users -> Statuses]
      /\ score' \in [Users -> 0 .. (ScoreMod - 1)]
      /\ \A v \in Users : v \notin Seated(seat'[b]) => status'[v] = gone[v]
  <2> DEFINE p == st[u] = PLAYING
             seats == seat'[b]
  <2>1. p \in BOOLEAN /\ SettleGame(u, p, seats, gone)
    BY DEF LeaveRoomHandle
  <2> HIDE DEF p, gone, seats
  <2>2. /\ status' \in [Users -> Statuses]
        /\ score' \in [Users -> 0 .. (ScoreMod - 1)]
        /\ \A v \in Users : v \notin Seated(seats) => status'[v] = gone[v]
    BY <1>5, <2>1, SettleGameType
  <2>3. QED BY <2>2 DEF seats
<1>7. TypeOK'
  <2>1. seat' \in [Boards -> [Locations -> Users \cup {NoUser}]]
    BY <1>1, <1>3 DEF IInv, TypeOK
  <2>2. currUserNum' \in [Boards -> 0 .. 3]
    <3>1. currUserNum[b] - 1 \in 0 .. 3
      BY <1>2
    <3>2. QED BY <1>1, <1>3, <3>1 DEF IInv, TypeOK
  <2>3. first_come' \in [Boards -> LocationOrMax]
    BY <1>1, <1>3 DEF IInv, TypeOK, LocationOrMax
  <2>4. QED BY <1>6, <2>1, <2>2, <2>3 DEF IInv, TypeOK
<1>8. CountMatchesSeats'
  <2>1. Cardinality(Occupied(seat'[b])) = Cardinality(Occupied(seat[b])) - 1
    BY <1>1, <1>4, OccupiedRemove DEF IInv, TypeOK
  <2>2. currUserNum'[b] = currUserNum[b] - 1
    BY <1>1, <1>3 DEF IInv, TypeOK
  <2>3. \A c \in Boards : c # b => seat'[c] = seat[c] /\ currUserNum'[c] = currUserNum[c]
    BY <1>1, <1>3 DEF IInv, TypeOK
  <2>4. QED BY <2>1, <2>2, <2>3 DEF IInv, CountMatchesSeats
<1>9. SeatsAndSessionsAgree'
  BY <1>1, <1>3, NullAssumption DEF IInv, TypeOK, SeatsAndSessionsAgree
<1>10. Seated(seat'[b]) \subseteq Seated(seat[b]) \ {u}
  BY <1>1, <1>4 DEF Seated, Occupied, IInv, TypeOK, SeatsAndSessionsAgree
<1>11. NoStatusWithoutSeat'
  <2> SUFFICES ASSUME NEW v \in Users, currChessBoard'[v] = NoBoard
               PROVE  status'[v] = NOT_START
    BY DEF NoStatusWithoutSeat
  <2>1. CASE v = u
    BY <1>5, <1>6, <1>10, <2>1
  <2>2. CASE v # u
    <3>1. currChessBoard[v] = NoBoard
      BY <2>2 DEF IInv, TypeOK
    <3>2. v \notin Seated(seat[b])
      BY <1>1, <3>1, SeatedHaveBoards DEF IInv
    <3>3. QED BY <1>6, <1>10, <2>2, <3>1, <3>2 DEF IInv, NoStatusWithoutSeat
  <2>3. QED BY <2>1, <2>2
<1>12. FirstComerIsSeated'
  BY <1>1, <1>3 DEF IInv, TypeOK, FirstComerIsSeated, LocationOrMax
<1>13. QED BY <1>7, <1>8, <1>9, <1>11, <1>12 DEF IInv

(* GiveUpHandle with "exit" frees the seat and the session together.       *)
LEMMA GiveUpExitKeepsIInv ==
    ASSUME IInv, NEW u \in Users, ExitSelf(u)
    PROVE  IInv'
<1>1. /\ currChessBoard[u] # NoBoard
      /\ LeaveRoomHandle(currChessBoard[u], u, status, TRUE)
      /\ currChessBoard' = [currChessBoard EXCEPT ![u] = NoBoard]
      /\ UNCHANGED << up, locate, times, recent_winner, recent_loser, token >>
  BY DEF ExitSelf, InPlay
<1>2. status \in [Users -> Statuses]
  BY DEF IInv, TypeOK
<1>3. \E x \in {"GAME_READY", "GAME_PLAY"} : state' = [state EXCEPT ![u] = x]
  <2>1. state = [state EXCEPT ![u] = "GAME_PLAY"]
    BY DEF ExitSelf, InPlay, IInv, TypeOK
  <2>2. QED BY <2>1 DEF ExitSelf
<1>4. QED BY <1>1, <1>2, <1>3, LeavingKeepsIInv

(* DestructResource, whatever status the session of u was given before.    *)
LEMMA DestructResourceKeepsIInv ==
    ASSUME IInv, NEW u \in Users,
           NEW st \in [Users -> Statuses],
           \A v \in Users : v # u => st[v] = status[v],
           currChessBoard[u] = NoBoard => st[u] = status[u],
           DestructResource(u, st)
    PROVE  IInv'
<1>1. /\ currChessBoard' = [currChessBoard EXCEPT ![u] = NoBoard]
      /\ state' = [state EXCEPT ![u] = "OFF"]
      /\ UNCHANGED << up, locate, times, recent_winner, recent_loser, token >>
  BY DEF DestructResource
<1>2. CASE currChessBoard[u] # NoBoard
  <2>1. LeaveRoomHandle(currChessBoard[u], u, st, TRUE)
    BY <1>2 DEF DestructResource
  <2>2. QED BY <1>1, <1>2, <2>1, LeavingKeepsIInv
<1>3. CASE currChessBoard[u] = NoBoard
  <2>1. currChessBoard[u] = NoBoard
    BY <1>3
  <2>2. status' = st /\ UNCHANGED << seat, currUserNum, first_come, score >>
    BY <2>1 DEF DestructResource
  <2>3. currChessBoard' = currChessBoard
    BY <1>1, <2>1 DEF IInv, TypeOK
  <2>4. \A v \in Users : status'[v] = status[v]
    BY <1>3, <2>2
  <2>5. TypeOK'
    BY <1>1, <2>2, <2>3 DEF IInv, TypeOK
  <2>6. SeatsAndSessionsAgree'
    BY <1>1, <1>3, <2>1, <2>2, <2>3 DEF IInv, TypeOK, SeatsAndSessionsAgree
  <2>7. NoStatusWithoutSeat'
    BY <2>3, <2>4 DEF IInv, NoStatusWithoutSeat
  <2>8. CountMatchesSeats' /\ FirstComerIsSeated'
    BY <1>1, <2>2 DEF IInv, CountMatchesSeats, FirstComerIsSeated
  <2>9. QED BY <2>5, <2>6, <2>7, <2>8 DEF IInv
<1>4. QED BY <1>2, <1>3

(* A lost connection keeps the invariant.                                  *)
LEMMA DisconnectKeepsIInv ==
    ASSUME IInv, NEW u \in Users, Disconnect(u)
    PROVE  IInv'
<1>1. status \in [Users -> Statuses]
  BY DEF IInv, TypeOK
<1>2. QED BY <1>1, DestructResourceKeepsIInv DEF Disconnect

(* A message without a handler keeps the invariant.                        *)
LEMMA UnhandledMsgKeepsIInv ==
    ASSUME IInv, NEW u \in Users, UnhandledMsg(u)
    PROVE  IInv'
<1> DEFINE st == IF state[u] = "GAME_PLAY"
                   THEN [status EXCEPT ![u] = NOT_START] ELSE status
<1>1. /\ st \in [Users -> Statuses]
      /\ \A v \in Users : v # u => st[v] = status[v]
      /\ currChessBoard[u] = NoBoard => st[u] = status[u]
  BY StatusConstants DEF IInv, TypeOK, NoStatusWithoutSeat
<1>2. DestructResource(u, st)
  BY DEF UnhandledMsg
<1> HIDE DEF st
<1>3. QED BY <1>1, <1>2, DestructResourceKeepsIInv

(* A process that is gone keeps its last state.                            *)
LEMMA CrashKeepsIInv ==
    ASSUME IInv, Crash
    PROVE  IInv'
<1>1. status \in [Users -> Statuses] /\ UNCHANGED status
  BY DEF IInv, TypeOK, Crash
<1>2. QED BY <1>1, SeatsUntouched DEF IInv, TypeOK, Crash

(* A session that somebody else has taken from its board has no seat, so   *)
(* going back to the halls disturbs none.                                  *)
LEMMA MsgWithoutBoardKeepsIInv ==
    ASSUME IInv, NEW u \in Users, MsgWithoutBoard(u)
    PROVE  IInv'
<1>1. CASE Crash
  BY <1>1, CrashKeepsIInv
<1>2. CASE /\ state' = [state EXCEPT ![u] = "GAME_READY"]
           /\ UNCHANGED << up, status, locate, currChessBoard, score, seat, currUserNum,
                           first_come, times, recent_winner, recent_loser, token >>
  <2>1. TypeOK'
    BY <1>2 DEF IInv, TypeOK
  <2>2. SeatsAndSessionsAgree'
    BY <1>2 DEF IInv, TypeOK, SeatsAndSessionsAgree, MsgWithoutBoard
  <2>3. CountMatchesSeats' /\ NoStatusWithoutSeat' /\ FirstComerIsSeated'
    BY <1>2 DEF IInv, CountMatchesSeats, NoStatusWithoutSeat, FirstComerIsSeated
  <2>4. QED BY <2>1, <2>2, <2>3 DEF IInv
<1>3. QED BY <1>1, <1>2 DEF MsgWithoutBoard

-----------------------------------------------------------------------------
(* The invariant holds before anybody connects.                            *)
LEMMA InitIInv == Init => IInv
<1> SUFFICES ASSUME Init PROVE IInv
  OBVIOUS
<1>1. \A b \in Boards : Occupied(seat[b]) = {}
  BY DEF Init, Occupied
<1>2. CountMatchesSeats
  BY <1>1, FS_EmptySet DEF Init, CountMatchesSeats
<1>3. 100 % ScoreMod \in 0 .. (ScoreMod - 1)
  BY ScoreAssumption
<1>4. TypeOK
  BY <1>3, StatusConstants DEF Init, TypeOK, LocationOrMax, Locations
<1>5. SeatsAndSessionsAgree
  BY DEF Init, SeatsAndSessionsAgree
<1>6. NoStatusWithoutSeat /\ FirstComerIsSeated
  BY DEF Init, NoStatusWithoutSeat, FirstComerIsSeated
<1>7. QED BY <1>2, <1>4, <1>5, <1>6 DEF IInv

(* Every step keeps the invariant.                                         *)
LEMMA NextIInv == IInv /\ [Next]_vars => IInv'
<1> SUFFICES ASSUME IInv, [Next]_vars PROVE IInv'
  OBVIOUS
<1>1. CASE UNCHANGED vars
  BY <1>1 DEF vars, IInv, TypeOK, SeatsAndSessionsAgree, CountMatchesSeats,
              NoStatusWithoutSeat, FirstComerIsSeated
<1>2. ASSUME NEW u \in Users, EnterHall(u) PROVE IInv'
  BY <1>2, EnterHallKeepsIInv
<1>3. ASSUME NEW u \in Users, NEW b \in Boards, NEW l \in LocationOrMax,
             GameRequestRefused(u, b, l) \/ GameRequestAccepted(u, b, l)
      PROVE  IInv'
  BY <1>3, GameRequestRefusedKeepsIInv, GameRequestAcceptedKeepsIInv
<1>4. ASSUME NEW u \in Users, NEW t \in Times \cup {NoTimes}, ReadySelf(u, t)
      PROVE  IInv'
  BY <1>4, InPlayIsSeated, GameReadyKeepsIInv DEF ReadySelf, InPlay
<1>5. ASSUME NEW b \in Boards, NEW s, NEW t \in Times \cup {NoTimes},
             GameReadyHandle(b, NoUser, s, t)
      PROVE  IInv'
  BY <1>5, GameReadyKeepsIInv
<1>6. ASSUME NEW u \in Users, MoveSelf(u) PROVE IInv'
  BY <1>6, MoveChessKeepsIInv
<1>7. ASSUME NEW u \in Users, NEW l \in LocationOrMax, CaptureSelf(u, l) PROVE IInv'
  BY <1>7, CaptureChessKeepsIInv
<1>8. ASSUME NEW u \in Users, ReconcileAll(u) \/ UndoAccept(u) PROVE IInv'
  BY <1>8, ReconcileAllKeepsIInv, UndoAcceptKeepsIInv
<1>9. ASSUME NEW u \in Users, NEW c \in Boards, AgainSelf(u, c) PROVE IInv'
  BY <1>9, GameAgainKeepsIInv
<1>10. ASSUME NEW u \in Users, GiveUpSelf(u) \/ ExitSelf(u) PROVE IInv'
  BY <1>10, GiveUpKeepsIInv, GiveUpExitKeepsIInv
<1>11. ASSUME NEW u \in Users, MsgWithoutBoard(u) \/ Disconnect(u) \/ UnhandledMsg(u)
       PROVE  IInv'
  BY <1>11, MsgWithoutBoardKeepsIInv, DisconnectKeepsIInv, UnhandledMsgKeepsIInv
<1>12. CASE Next
  BY <1>2, <1>3, <1>4, <1>5, <1>6, <1>7, <1>8, <1>9, <1>10, <1>11, <1>12,
     CrashKeepsIInv, ActsForNamed DEF SelfNext
<1>13. QED BY <1>1, <1>12

(* The inductive invariant holds in every state the server reaches,        *)
(* whatever its clients send and whenever connections are lost.            *)
THEOREM Invariance == Spec => []IInv
<1>1. Init => IInv
  BY InitIInv
<1>2. IInv /\ [Next]_vars => IInv'
  BY NextIInv
<1>3. QED BY <1>1, <1>2, PTL DEF Spec

(* Type correctness: in particular currUserNum stays in 0..3 and the scores*)
(* stay unsigned.                                                          *)
THEOREM TypeCorrect == Spec => []TypeOK
<1>1. IInv => TypeOK
  BY DEF IInv
<1>2. QED BY <1>1, Invariance, PTL

(* Seats and sessions point at each other, whoever comes, leaves, vanishes *)
(* or is recycled.                                                         *)
THEOREM SeatsCorrect == Spec => []SeatsAndSessionsAgree
<1>1. IInv => SeatsAndSessionsAgree
  BY DEF IInv
<1>2. QED BY <1>1, Invariance, PTL

(* A session at no board carries no status of a game (DestructResource does*)
(* not reset it; the ways to leave a board do).                            *)
THEOREM StatusCorrect == Spec => []NoStatusWithoutSeat
<1>1. IInv => NoStatusWithoutSeat
  BY DEF IInv
<1>2. QED BY <1>1, Invariance, PTL

(* currUserNum is the number of taken seats.                               *)
THEOREM CountCorrect == Spec => []CountMatchesSeats
<1>1. IInv => CountMatchesSeats
  BY DEF IInv
<1>2. QED BY <1>1, Invariance, PTL

(* The first comer, who may set the times of the game, is at the board.    *)
THEOREM FirstComerCorrect == Spec => []FirstComerIsSeated
<1>1. IInv => FirstComerIsSeated
  BY DEF IInv
<1>2. QED BY <1>1, Invariance, PTL

-----------------------------------------------------------------------------
(* The seats after a step: a user more at a board where nobody is in a game*)
(* or has just ended one, one user less, or the same.                      *)
LEMMA SeatChanges ==
    ASSUME IInv, [Next]_vars
    PROVE  \/ seat' = seat
           \/ \E u \in Users, b \in Boards, l \in Locations :
                 seat' = [seat EXCEPT ![b][l] = u] /\ ~GameBegan(b)
           \/ \E b \in Boards, l \in Locations : seat' = [seat EXCEPT ![b][l] = NoUser]
<1>1. ASSUME NEW u \in Users, LeaveOutRoom(currChessBoard[u], u), currChessBoard[u] # NoBoard
      PROVE  \/ seat' = seat
             \/ \E b \in Boards, l \in Locations :
                   seat' = [seat EXCEPT ![b][l] = NoUser]
  BY <1>1, InPlayIsSeated DEF LeaveOutRoom
<1>2. ASSUME NEW u \in Users, NEW st, DestructResource(u, st)
      PROVE  \/ seat' = seat
             \/ \E b \in Boards, l \in Locations :
                   seat' = [seat EXCEPT ![b][l] = NoUser]
  <2>1. CASE currChessBoard[u] = NoBoard
    BY <1>2, <2>1 DEF DestructResource
  <2>2. CASE currChessBoard[u] # NoBoard
    <3>1. LeaveOutRoom(currChessBoard[u], u)
      BY <1>2, <2>2 DEF DestructResource, LeaveRoomHandle
    <3>2. QED BY <1>1, <2>2, <3>1
  <2>3. QED BY <2>1, <2>2
<1>3. CASE UNCHANGED vars
  BY <1>3 DEF vars
<1>4. ASSUME NEW u \in Users, NEW b \in Boards, NEW l \in LocationOrMax,
             GameRequestAccepted(u, b, l)
      PROVE  l \in Locations /\ seat' = [seat EXCEPT ![b][l] = u] /\ ~GameBegan(b)
  BY <1>4 DEF GameRequestAccepted, CanAddUser, LocationOrMax
<1>5. ASSUME NEW u \in Users, NEW b \in Boards, NEW l,
             EnterHall(u) \/ GameRequestRefused(u, b, l)
      PROVE  seat' = seat
  BY <1>5 DEF EnterHall, GameRequestRefused
<1>6. ASSUME NEW u \in Users, NEW b, NEW s, NEW t,
             ReadySelf(u, t) \/ GameReadyHandle(b, NoUser, s, t)
      PROVE  seat' = seat
  BY <1>6 DEF ReadySelf, GameReadyHandle
<1>7. ASSUME NEW u \in Users, NEW l, MoveSelf(u) \/ CaptureSelf(u, l)
      PROVE  seat' = seat
  BY <1>7 DEF MoveSelf, MoveChessHandle, CaptureSelf, CaptureHandle
<1>8. ASSUME NEW u \in Users, NEW c,
             \/ EnterHall(u) \/ ReconcileAll(u) \/ UndoAccept(u) \/ AgainSelf(u, c)
             \/ GiveUpSelf(u) \/ MsgWithoutBoard(u) \/ Crash
      PROVE  seat' = seat
  BY <1>8 DEF EnterHall, ReconcileAll, UndoAccept, AgainSelf, GameAgainHandle,
              GiveUpSelf, LeaveRoomHandle, MsgWithoutBoard, Crash
<1>9. ASSUME NEW u \in Users, ExitSelf(u)
      PROVE  \/ seat' = seat
             \/ \E b \in Boards, l \in Locations :
                   seat' = [seat EXCEPT ![b][l] = NoUser]
  BY <1>1, <1>9 DEF ExitSelf, LeaveRoomHandle, InPlay
<1>10. ASSUME NEW u \in Users, Disconnect(u) \/ UnhandledMsg(u)
       PROVE  \/ seat' = seat
              \/ \E b \in Boards, l \in Locations :
                    seat' = [seat EXCEPT ![b][l] = NoUser]
  BY <1>2, <1>10 DEF Disconnect, UnhandledMsg
<1>11. CASE Next
  <2>1. SelfNext
    BY <1>11, ActsForNamed
  <2>2. QED BY <1>4, <1>5, <1>6, <1>7, <1>8, <1>9, <1>10, <2>1 DEF SelfNext
<1>12. QED BY <1>3, <1>11

(* While anybody plays at a board, nobody new sits down there.             *)
THEOREM EntryCorrect == Spec => NoEntryDuringGame
<1> DEFINE Shrinks == \A b \in Boards :
                         SeatsWith(seat[b], status, {PLAYING}) # {} =>
                            Seated(seat'[b]) \subseteq Seated(seat[b])
<1>1. ASSUME IInv, [Next]_vars PROVE [Shrinks]_vars
  <2> SUFFICES ASSUME NEW b \in Boards, SeatsWith(seat[b], status, {PLAYING}) # {}
               PROVE  Seated(seat'[b]) \subseteq Seated(seat[b])
    OBVIOUS
  <2>1. GameBegan(b)
    BY DEF GameBegan, SeatsWith
  <2>2. ASSUME NEW u \in Users, NEW c \in Boards, NEW l \in Locations,
               seat' = [seat EXCEPT ![c][l] = u], ~GameBegan(c)
        PROVE  seat'[b] = seat[b]
    BY <2>1, <2>2, <1>1 DEF IInv, TypeOK
  <2>3. ASSUME NEW c \in Boards, NEW l \in Locations,
               seat' = [seat EXCEPT ![c][l] = NoUser]
        PROVE  \A k \in Locations : seat'[b][k] # NoUser => seat'[b][k] = seat[b][k]
    BY <2>3, <1>1 DEF IInv, TypeOK
  <2>4. \A k \in Locations : seat'[b][k] # NoUser => seat'[b][k] = seat[b][k]
    BY <1>1, <2>2, <2>3, SeatChanges
  <2>5. QED BY <2>4 DEF Seated, Occupied
<1>2. QED BY <1>1, Invariance, PTL DEF Spec, NoEntryDuringGame

(* The third user to get ready starts the game for the three of them.      *)
LEMMA ReadyStartsAll ==
    ASSUME IInv, NEW b \in Boards, NEW x, NEW s, NEW t, GameReadyHandle(b, x, s, t),
           NEW v \in Users, status[v] # PLAYING, status'[v] = PLAYING
    PROVE  /\ currChessBoard[v] # NoBoard
           /\ SeatsWith(seat'[currChessBoard[v]], status', {PLAYING}) = Locations
<1> DEFINE st == WithStatus(status, {x}, BEGAN)
           began == SeatsWith(seat[b], st, {BEGAN})
<1>1. b # NoBoard /\ seat' = seat
  BY NullAssumption DEF GameReadyHandle
<1>2. st[v] # PLAYING
  BY DEF WithStatus, BEGAN, PLAYING
<1>3. Cardinality(began) = 3 /\ status' = WithStatus(st, Seated(seat[b]), PLAYING)
  BY <1>2 DEF GameReadyHandle
<1>4. v \in Seated(seat[b])
  BY <1>2, <1>3 DEF WithStatus
<1>5. currChessBoard[v] = b
  BY <1>1, <1>4 DEF Seated, Occupied, IInv, SeatsAndSessionsAgree
<1>6. began = Locations
  <2>1. began \subseteq Locations
    BY DEF SeatsWith
  <2>2. QED BY <1>3, <2>1, ThreeSeats, FS_Subset
<1>7. \A l \in Locations : seat[b][l] # NoUser /\ seat[b][l] \in Seated(seat[b])
  BY <1>6 DEF SeatsWith, Seated, Occupied
<1>8. \A l \in Locations : seat[b][l] \in Users
  BY <1>1, <1>7 DEF IInv, TypeOK
<1>9. \A l \in Locations : status'[seat[b][l]] = PLAYING
  BY <1>3, <1>7, <1>8 DEF WithStatus
<1>10. QED BY <1>1, <1>5, <1>7, <1>9 DEF SeatsWith

(* An undo lets only the loser of the last capture play again.             *)
LEMMA UndoRestoresLoser ==
    ASSUME IInv, NEW u \in Users, UndoAccept(u),
           NEW v \in Users, status[v] # PLAYING, status'[v] = PLAYING
    PROVE  LET b == currChessBoard[v]
           IN  b # NoBoard /\ recent_loser[b] # "MAX" /\ seat[b][recent_loser[b]] = v
<1> DEFINE b == currChessBoard[u]
<1>1. b \in Boards /\ b # NoBoard /\ recent_loser[b] \in LocationOrMax
  BY InPlayIsSeated, NullAssumption DEF UndoAccept, InPlay, IInv, TypeOK
<1>2. GetUserByLocation(b, recent_loser[b]) = v /\ v # NoUser
  BY NullAssumption DEF UndoAccept, UndoPayback, IInv, TypeOK
<1>3. currChessBoard[v] = b /\ recent_loser[b] \in Locations
  BY <1>1, <1>2, FoundPlays
<1>4. QED BY <1>1, <1>2, <1>3 DEF GetUserByLocation, Locations

(* Settling a game lets nobody start to play.                              *)
LEMMA SettlingStartsNobody ==
    ASSUME NEW u \in Users, NEW p, NEW seats, NEW st, SettleGame(u, p, seats, st),
           NEW v \in Users, status'[v] = PLAYING
    PROVE  st[v] = PLAYING
BY DEF SettleGame, WithStatus, PLAYING, ENDED

(* Nobody drops into a running game.                                       *)
THEOREM StartCorrect == Spec => PlayersStartTogether
<1> DEFINE Start ==
      \A u \in Users :
         (status[u] # PLAYING /\ status'[u] = PLAYING) =>
            LET b == currChessBoard[u]
            IN  /\ b # NoBoard
                /\ \/ SeatsWith(seat'[b], status', {PLAYING}) = Locations
                   \/ recent_loser[b] # "MAX" /\ seat[b][recent_loser[b]] = u
<1>1. ASSUME IInv, [Next]_vars PROVE [Start]_vars
  <2> SUFFICES ASSUME NEW v \in Users, status[v] # PLAYING, status'[v] = PLAYING
               PROVE  LET b == currChessBoard[v]
                      IN  /\ b # NoBoard
                          /\ \/ SeatsWith(seat'[b], status', {PLAYING}) = Locations
                             \/ recent_loser[b] # "MAX" /\ seat[b][recent_loser[b]] = v
    OBVIOUS
  <2> USE DEF PLAYING, ENDED, READY, NOT_START, EXITED
  <2>1. status \in [Users -> Statuses]
    BY <1>1 DEF IInv, TypeOK
  <2>2. SelfNext
    BY <1>1, ActsForNamed DEF vars
  <2>3. ASSUME NEW u \in Users, NEW b, NEW l,
               EnterHall(u) \/ GameRequestRefused(u, b, l) \/ GameRequestAccepted(u, b, l)
        PROVE  FALSE
    BY <2>1, <2>3 DEF EnterHall, GameRequestRefused, GameRequestAccepted
  <2>4. ASSUME NEW u \in Users, EnterHall(u) \/ MsgWithoutBoard(u) \/ Crash PROVE FALSE
    BY <2>1, <2>4 DEF EnterHall, MsgWithoutBoard, Crash
  <2>5. ASSUME NEW u \in Users, MoveSelf(u) PROVE FALSE
    BY <2>1, <2>5 DEF MoveSelf, MoveChessHandle, AnnounceMove
  <2>6. ASSUME NEW u \in Users, NEW l, CaptureSelf(u, l) PROVE FALSE
    BY <2>1, <2>6 DEF CaptureSelf, CaptureHandle, AnnounceMove
  <2>7. ASSUME NEW u \in Users, NEW c, ReconcileAll(u) \/ AgainSelf(u, c) PROVE FALSE
    BY <2>1, <2>7 DEF ReconcileAll, AgainSelf, GameAgainHandle, WithStatus
  <2>8. ASSUME NEW u \in Users, NEW st, NEW r,
               st[v] # PLAYING, st \in [Users -> Statuses],
               LeaveRoomHandle(currChessBoard[u], u, st, r)
        PROVE  FALSE
    <3> DEFINE gone == [st EXCEPT ![u] = IF r THEN EXITED ELSE ENDED]
               p == st[u] = PLAYING
               seats == seat'[currChessBoard[u]]
    <3>1. SettleGame(u, p, seats, gone)
      BY <2>8 DEF LeaveRoomHandle
    <3>2. gone[v] # PLAYING
      BY <2>8
    <3> HIDE DEF gone, p, seats
    <3>3. QED BY <3>1, <3>2, SettlingStartsNobody
  <2>9. ASSUME NEW u \in Users, GiveUpSelf(u) \/ ExitSelf(u) PROVE FALSE
    BY <2>1, <2>8, <2>9 DEF GiveUpSelf, ExitSelf
  <2>10. ASSUME NEW u \in Users, NEW st, st[v] # PLAYING,
                st \in [Users -> Statuses], DestructResource(u, st)
         PROVE  FALSE
    BY <2>8, <2>10 DEF DestructResource
  <2>11. ASSUME NEW u \in Users, Disconnect(u) \/ UnhandledMsg(u) PROVE FALSE
    <3>1. [status EXCEPT ![u] = NOT_START] \in [Users -> Statuses]
      BY <2>1, StatusConstants
    <3>2. [status EXCEPT ![u] = NOT_START][v] # PLAYING
      BY <2>1
    <3>3. QED BY <2>1, <2>10, <2>11, <3>1, <3>2 DEF Disconnect, UnhandledMsg
  <2>12. ASSUME NEW b \in Boards, NEW x, NEW s, NEW t, GameReadyHandle(b, x, s, t)
         PROVE  /\ currChessBoard[v] # NoBoard
                /\ SeatsWith(seat'[currChessBoard[v]], status', {PLAYING}) = Locations
    BY <1>1, <2>12, ReadyStartsAll
  <2>13. ASSUME NEW u \in Users, UndoAccept(u)
         PROVE  LET b == currChessBoard[v]
                IN  b # NoBoard /\ recent_loser[b] # "MAX" /\ seat[b][recent_loser[b]] = v
    BY <1>1, <2>13, UndoRestoresLoser
  <2>14. ASSUME NEW u \in Users, NEW t, ReadySelf(u, t)
         PROVE  /\ currChessBoard[v] # NoBoard
                /\ SeatsWith(seat'[currChessBoard[v]], status', {PLAYING}) = Locations
    BY <1>1, <2>12, <2>14, InPlayIsSeated DEF ReadySelf, InPlay
  <2>15. QED
    BY <2>2, <2>3, <2>4, <2>5, <2>6, <2>7, <2>9, <2>11, <2>12, <2>13, <2>14 DEF SelfNext
<1>2. QED BY <1>1, Invariance, PTL DEF Spec, PlayersStartTogether

-----------------------------------------------------------------------------
(* Clients that keep to the rules send nothing else than any client may.   *)
LEMMA RulesRestrict ==
    ASSUME IInv, PlayNext
    PROVE  Next
<1>1. \A u \in Users : locate[u] \in LocationOrMax /\ currChessBoard[u] \in Boards \cup {NoBoard}
  BY DEF IInv, TypeOK
<1>2. Locations \subseteq LocationOrMax
  BY DEF LocationOrMax
<1> PICK u \in Users :
       \/ EnterHall(u)
       \/ \E b \in Boards, l \in Locations :
             GameRequestRefused(u, b, l) \/ GameRequestAccepted(u, b, l)
       \/ \E t \in Times \cup {NoTimes} : GameReady(u, locate[u], t)
       \/ MoveChess(u, locate[u])
       \/ \E l \in Locations : CaptureChess(u, locate[u], l)
       \/ ReconcileAll(u) \/ UndoAccept(u) \/ GameAgain(u, locate[u], currChessBoard[u])
       \/ GiveUp(u, locate[u]) \/ GiveUpExit(u, locate[u]) \/ Disconnect(u)
  BY DEF PlayNext
<1> QED BY <1>1, <1>2 DEF Next

(* They name their own seat, so that every message acts for its sender.    *)
PlaySelfNext ==
    \E u \in Users :
       \/ EnterHall(u)
       \/ \E b \in Boards, l \in Locations :
             GameRequestRefused(u, b, l) \/ GameRequestAccepted(u, b, l)
       \/ \E t \in Times \cup {NoTimes} : MayGetReady(u) /\ ReadySelf(u, t)
       \/ HoldsToken(u) /\ MoveSelf(u)
       \/ \E l \in Locations :
             /\ HoldsToken(u)
             /\ l \in SeatsWith(seat[currChessBoard[u]], status, {PLAYING}) \ {locate[u]}
             /\ CaptureSelf(u, l)
       \/ status[u] = PLAYING /\ ReconcileAll(u)
       \/ MayUndo(u) /\ UndoAccept(u)
       \/ AgainSelf(u, currChessBoard[u])
       \/ status[u] = PLAYING /\ GiveUpSelf(u)
       \/ ExitSelf(u)
       \/ Disconnect(u)

(* A message that names its sender's seat acts for its sender.             *)
LEMMA PlaysForSelf ==
    ASSUME IInv, PlayNext
    PROVE  PlaySelfNext
<1>1. ASSUME NEW u \in Users, NEW t, GameReady(u, locate[u], t) PROVE ReadySelf(u, t)
  BY <1>1, FoundSelf DEF GameReady, ReadySelf, InPlay
<1>2. ASSUME NEW u \in Users, MoveChess(u, locate[u]) PROVE MoveSelf(u)
  BY <1>2, FoundSelf, NullAssumption DEF MoveChess, MoveSelf, InPlay
<1>3. ASSUME NEW u \in Users, NEW l, CaptureChess(u, locate[u], l) PROVE CaptureSelf(u, l)
  BY <1>3, FoundSelf, NullAssumption DEF CaptureChess, CaptureSelf, InPlay
<1>4. ASSUME NEW u \in Users, GameAgain(u, locate[u], currChessBoard[u])
      PROVE  AgainSelf(u, currChessBoard[u])
  BY <1>4, FoundSelf, NullAssumption DEF GameAgain, AgainSelf, InPlay
<1>5. ASSUME NEW u \in Users, GiveUp(u, locate[u]) PROVE GiveUpSelf(u)
  BY <1>5, FoundSelf DEF GiveUp, GiveUpSelf, InPlay
<1>6. ASSUME NEW u \in Users, GiveUpExit(u, locate[u]) PROVE ExitSelf(u)
  BY <1>6, FoundSelf DEF GiveUpExit, ExitSelf, InPlay
<1>7. PICK u \in Users :
       \/ EnterHall(u)
       \/ \E b \in Boards, l \in Locations :
             GameRequestRefused(u, b, l) \/ GameRequestAccepted(u, b, l)
       \/ \E t \in Times \cup {NoTimes} : MayGetReady(u) /\ GameReady(u, locate[u], t)
       \/ HoldsToken(u) /\ MoveChess(u, locate[u])
       \/ \E l \in Locations :
             /\ HoldsToken(u)
             /\ l \in SeatsWith(seat[currChessBoard[u]], status, {PLAYING}) \ {locate[u]}
             /\ CaptureChess(u, locate[u], l)
       \/ status[u] = PLAYING /\ ReconcileAll(u)
       \/ MayUndo(u) /\ UndoAccept(u)
       \/ GameAgain(u, locate[u], currChessBoard[u])
       \/ status[u] = PLAYING /\ GiveUp(u, locate[u])
       \/ GiveUpExit(u, locate[u])
       \/ Disconnect(u)
  BY DEF PlayNext
<1>8. QED BY <1>1, <1>2, <1>3, <1>4, <1>5, <1>6, <1>7 DEF PlaySelfNext

(* The invariant holds for clients that keep to the rules.                 *)
LEMMA PlayInvariance == PlaySpec => []IInv
<1>1. Init => IInv
  BY InitIInv
<1>2. IInv /\ [PlayNext]_vars => IInv'
  BY NextIInv, RulesRestrict
<1>3. QED BY <1>1, <1>2, PTL DEF PlaySpec

(* LeaveRoomHandle, called for a user whose status still is PLAYING.       *)
LEMMA LeavingSettles ==
    ASSUME IInv, NEW u \in Users, LeaveRoomHandle(currChessBoard[u], u, status, TRUE),
           status[u] = PLAYING, currChessBoard[u] # NoBoard
    PROVE  /\ score'[u] = (score[u] - 30) % ScoreMod
           /\ SeatsWith(seat'[currChessBoard[u]], status', {PLAYING}) = {}
<1> DEFINE seats == seat'[currChessBoard[u]]
           gone == [status EXCEPT ![u] = EXITED]
<1>1. SettleGame(u, TRUE, seats, gone)
  BY DEF LeaveRoomHandle
<1>2. gone \in [Users -> Statuses] /\ gone[u] # PLAYING
  BY StatusConstants DEF IInv, TypeOK, EXITED, NOT_START, PLAYING
<1> HIDE DEF gone
<1>3. u \notin LastWinners(seats, gone)
  BY <1>2 DEF LastWinners, SeatsWith
<1>4. score'[u] = (score[u] - 30) % ScoreMod
  BY <1>1, <1>3 DEF SettleGame, ReduceScore
<1>5. \A l \in Locations : seats[l] # NoUser => seats[l] \in Users
  <2>1. currChessBoard[u] \in Boards /\ locate[u] \in Locations
    BY InPlayIsSeated
  <2>2. \/ seat' = seat
        \/ seat' = [seat EXCEPT ![currChessBoard[u]][locate[u]] = NoUser]
    BY DEF LeaveRoomHandle, LeaveOutRoom
  <2>3. QED BY <2>1, <2>2 DEF IInv, TypeOK
<1>6. \A v \in Users : v \in Seated(seats) => status'[v] = ENDED
  BY <1>1 DEF SettleGame, WithStatus
<1>7. QED BY <1>4, <1>5, <1>6 DEF SeatsWith, Seated, Occupied, PLAYING, ENDED

(* If clients keep to the rules, a user who leaves while PLAYING pays 30   *)
(* and nobody at the board plays on.                                       *)
THEOREM LeaveCorrect == PlaySpec => LeavingEndsTheGame
<1> DEFINE Settled ==
      \A u \in Users :
         LET b == currChessBoard[u]
         IN  (status[u] = PLAYING /\ b # NoBoard /\ currChessBoard'[u] = NoBoard) =>
                /\ score'[u] = (score[u] - 30) % ScoreMod
                /\ SeatsWith(seat'[b], status', {PLAYING}) = {}
<1>1. ASSUME IInv, [PlayNext]_vars PROVE [Settled]_vars
  <2> SUFFICES ASSUME NEW v \in Users, status[v] = PLAYING,
                      currChessBoard[v] # NoBoard, currChessBoard'[v] = NoBoard
               PROVE  LeaveRoomHandle(currChessBoard[v], v, status, TRUE)
    BY <1>1, LeavingSettles
  <2>1. currChessBoard \in [Users -> Boards \cup {NoBoard}]
    BY <1>1 DEF IInv, TypeOK
  <2>2. PlaySelfNext
    BY <1>1, PlaysForSelf DEF vars
  <2>3. ASSUME NEW u \in Users, NEW b \in Boards, NEW l,
               GameRequestRefused(u, b, l) \/ GameRequestAccepted(u, b, l)
        PROVE  FALSE
    BY <2>1, <2>3, NullAssumption DEF GameRequestRefused, GameRequestAccepted
  <2>4. ASSUME NEW u \in Users, NEW t, ReadySelf(u, t) PROVE FALSE
    BY <2>4 DEF ReadySelf, GameReadyHandle
  <2>5. ASSUME NEW u \in Users, NEW l, MoveSelf(u) \/ CaptureSelf(u, l) PROVE FALSE
    BY <2>5 DEF MoveSelf, MoveChessHandle, CaptureSelf, CaptureHandle
  <2>6. ASSUME NEW u \in Users, NEW c,
               \/ EnterHall(u) \/ ReconcileAll(u) \/ UndoAccept(u)
               \/ AgainSelf(u, c) \/ GiveUpSelf(u)
        PROVE  FALSE
    BY <2>6 DEF EnterHall, ReconcileAll, UndoAccept, AgainSelf, GameAgainHandle, GiveUpSelf
  <2>7. ASSUME NEW u \in Users, ExitSelf(u) \/ Disconnect(u)
        PROVE  LeaveRoomHandle(currChessBoard[v], v, status, TRUE)
    <3>1. currChessBoard' = [currChessBoard EXCEPT ![u] = NoBoard]
      BY <2>7 DEF ExitSelf, Disconnect, DestructResource
    <3>2. u = v
      BY <2>1, <3>1
    <3>3. QED BY <2>7, <3>2 DEF ExitSelf, Disconnect, DestructResource
  <2>8. QED BY <2>2, <2>3, <2>4, <2>5, <2>6, <2>7 DEF PlaySelfNext
<1>2. QED BY <1>1, PlayInvariance, PTL DEF PlaySpec, LeavingEndsTheGame

-----------------------------------------------------------------------------
(* What TokenHeldByPlayer and NoLonePlayer say together, and what is       *)
(* inductive: at a board nobody plays, or the holder of the token plays and*)
(* so does somebody else.                                                  *)
RunsOn(seats, st, tok) ==
    LET playing == SeatsWith(seats, st, {PLAYING})
    IN  playing = {} \/ (tok \in playing /\ playing \ {tok} # {})

GamesRunOn == \A b \in Boards : RunsOn(seat[b], status, token[b])

(* How GetActiveUsersNum tells no, one and more players apart.             *)
LEMMA ActiveUsers ==
    ASSUME NEW seats, NEW st
    PROVE  LET playing == SeatsWith(seats, st, {PLAYING})
               n == GetActiveUsersNum(seats, st)
           IN  /\ n \in Nat
               /\ n = 0 <=> playing = {}
               /\ \A l \in playing : n > 1 <=> playing \ {l} # {}
<1> DEFINE playing == SeatsWith(seats, st, {PLAYING})
<1>1. IsFiniteSet(playing)
  <2>1. playing \subseteq Locations
    BY DEF SeatsWith
  <2>2. QED BY <2>1, ThreeSeats, FS_Subset
<1>2. Cardinality(playing) \in Nat
  BY <1>1, FS_CardinalityType
<1>3. Cardinality(playing) = 0 <=> playing = {}
  BY <1>1, FS_EmptySet
<1>4. ASSUME NEW l \in playing
      PROVE  Cardinality(playing) > 1 <=> playing \ {l} # {}
  <2>1. /\ IsFiniteSet(playing \ {l})
        /\ Cardinality(playing \ {l}) = Cardinality(playing) - 1
    BY <1>1, <1>4, FS_RemoveElement
  <2>2. Cardinality(playing \ {l}) \in Nat
    BY <2>1, FS_CardinalityType
  <2>3. Cardinality(playing \ {l}) = 0 <=> playing \ {l} = {}
    BY <2>1, FS_EmptySet
  <2> HIDE DEF playing
  <2>4. QED BY <1>2, <2>1, <2>2, <2>3
<1>5. GetActiveUsersNum(seats, st) = Cardinality(playing)
  BY DEF GetActiveUsersNum
<1> HIDE DEF playing
<1>6. QED BY <1>2, <1>3, <1>4, <1>5 DEF playing

(* Where a game runs on, the token is held by a player and nobody plays    *)
(* alone.                                                                  *)
LEMMA RunsOnCounts ==
    ASSUME NEW seats, NEW st, NEW tok, RunsOn(seats, st, tok)
    PROVE  /\ GetActiveUsersNum(seats, st) # 1
           /\ GetActiveUsersNum(seats, st) > 1 => tok \in SeatsWith(seats, st, {PLAYING})
<1> DEFINE playing == SeatsWith(seats, st, {PLAYING})
           n == GetActiveUsersNum(seats, st)
<1>1. /\ n \in Nat /\ (n = 0 <=> playing = {})
      /\ \A l \in playing : n > 1 <=> playing \ {l} # {}
  BY ActiveUsers
<1>2. playing = {} \/ (tok \in playing /\ playing \ {tok} # {})
  BY DEF RunsOn
<1> HIDE DEF playing, n
<1>3. n # 1 /\ (n > 1 => tok \in playing)
  BY <1>1, <1>2
<1>4. QED BY <1>3 DEF playing, n

(* A step that concerns one board leaves the games at the others alone.    *)
LEMMA OtherGames ==
    ASSUME IInv, GamesRunOn, NEW b \in Boards,
           \A c \in Boards \ {b} : seat'[c] = seat[c] /\ token'[c] = token[c],
           \A v \in Users : currChessBoard[v] \in Boards \ {b} => status'[v] = status[v],
           RunsOn(seat'[b], status', token'[b])
    PROVE  GamesRunOn'
<1> SUFFICES ASSUME NEW c \in Boards, c # b
             PROVE  RunsOn(seat'[c], status', token'[c])
  BY DEF GamesRunOn
<1>1. \A l \in Locations : seat[c][l] # NoUser =>
         seat[c][l] \in Users /\ currChessBoard[seat[c][l]] = c
  BY DEF IInv, TypeOK, SeatsAndSessionsAgree
<1>2. \A l \in Locations : seat[c][l] # NoUser =>
         status'[seat[c][l]] = status[seat[c][l]]
  BY <1>1
<1>3. SeatsWith(seat'[c], status', {PLAYING}) = SeatsWith(seat[c], status, {PLAYING})
  BY <1>2 DEF SeatsWith
<1>4. RunsOn(seat[c], status, token[c]) /\ token'[c] = token[c]
  BY DEF GamesRunOn
<1>5. QED BY <1>3, <1>4 DEF RunsOn

(* Whoever sits at another board than b is not seated at b.                *)
LEMMA SeatedHere ==
    ASSUME IInv, NEW b \in Boards, NEW v \in Users, v \in Seated(seat[b])
    PROVE  currChessBoard[v] = b
BY NullAssumption DEF IInv, SeatsAndSessionsAgree, Seated, Occupied

(* The order of play visits the two other seats, so a user who plays beside*)
(* the mover is the next or the one after.                                 *)
LEMMA TokenReachesPlayer ==
    ASSUME NEW seats, NEW st, NEW l \in Locations,
           SeatsWith(seats, st, {PLAYING}) \ {l} # {}
    PROVE  TokenAfter(seats, st, l) \in SeatsWith(seats, st, {PLAYING}) \ {l}
<1> DEFINE playing == SeatsWith(seats, st, {PLAYING})
<1>1. playing \subseteq {"LEFT", "RIGHT", "BOTTOM"} /\ l \in {"LEFT", "RIGHT", "BOTTOM"}
  BY DEF SeatsWith, Locations
<1>2. TokenAfter(seats, st, l) =
        IF NextSeat[l] \in playing THEN NextSeat[l] ELSE NextSeat[NextSeat[l]]
  BY DEF TokenAfter
<1>3. /\ NextSeat["LEFT"] = "BOTTOM" /\ NextSeat["BOTTOM"] = "RIGHT"
      /\ NextSeat["RIGHT"] = "LEFT"
  BY DEF NextSeat, Locations
<1>4. playing \ {l} # {}
  OBVIOUS
<1> HIDE DEF playing
<1>5. TokenAfter(seats, st, l) \in playing \ {l}
  BY <1>1, <1>2, <1>3, <1>4
<1>6. QED BY <1>5 DEF playing

(* MoveChessHandle from the status st in which the mover plays: the token  *)
(* goes to a player, or the mover was the last one and the game is over.   *)
LEMMA MovingRunsOn ==
    ASSUME IInv, NEW u \in Users, currChessBoard[u] # NoBoard,
           NEW st \in [Users -> Statuses], st[u] = PLAYING,
           AnnounceMove(currChessBoard[u], u, st)
    PROVE  RunsOn(seat[currChessBoard[u]], status', token'[currChessBoard[u]])
<1> PICK b : b = currChessBoard[u]
  OBVIOUS
<1> PICK l : l = locate[u]
  OBVIOUS
<1> DEFINE playing == SeatsWith(seat[b], st, {PLAYING})
           n == GetActiveUsersNum(seat[b], st)
<1>1. b \in Boards /\ l \in Locations /\ seat[b][l] = u
  BY InPlayIsSeated
<1>2. l \in playing
  BY <1>1, NullAssumption DEF SeatsWith
<1>3. n > 1 <=> playing \ {l} # {}
  BY <1>2, ActiveUsers
<1>4. token'[b] = IF n > 1 THEN TokenAfter(seat[b], st, l) ELSE "MAX"
  BY <1>1 DEF AnnounceMove, IInv, TypeOK
<1>5. status' = IF n > 1 THEN st ELSE [st EXCEPT ![u] = ENDED]
  BY DEF AnnounceMove
<1>6. CASE playing \ {l} # {}
  <2>1. token'[b] \in playing \ {l} /\ status' = st
    BY <1>1, <1>3, <1>4, <1>5, <1>6, TokenReachesPlayer
  <2>2. QED BY <1>2, <2>1 DEF RunsOn
<1>7. CASE playing \ {l} = {}
  <2>1. status' = [st EXCEPT ![u] = ENDED]
    BY <1>3, <1>5, <1>7
  <2>2. \A k \in Locations : seat[b][k] # NoUser => seat[b][k] \in Users
    BY <1>1 DEF IInv, TypeOK
  <2>3. SeatsWith(seat[b], status', {PLAYING}) \subseteq playing \ {l}
    BY <1>1, <2>1, <2>2 DEF SeatsWith, PLAYING, ENDED
  <2>4. QED BY <1>7, <2>3 DEF RunsOn
<1>8. QED BY <1>6, <1>7

(* A move without a capture.                                               *)
LEMMA MoveRunsOn ==
    ASSUME IInv, GamesRunOn, NEW u \in Users, HoldsToken(u), MoveSelf(u)
    PROVE  GamesRunOn'
<1> PICK b : b = currChessBoard[u]
  OBVIOUS
<1>1. currChessBoard[u] # NoBoard /\ AnnounceMove(currChessBoard[u], u, status) /\ seat' = seat
  BY DEF MoveSelf, MoveChessHandle, InPlay
<1>2. b \in Boards
  BY <1>1, InPlayIsSeated
<1>3. status \in [Users -> Statuses] /\ status[u] = PLAYING
  BY DEF IInv, TypeOK, HoldsToken
<1>4. RunsOn(seat'[b], status', token'[b])
  BY <1>1, <1>3, MovingRunsOn
<1>5. \A c \in Boards \ {b} : token'[c] = token[c]
  BY <1>1 DEF AnnounceMove, IInv, TypeOK
<1>6. \A v \in Users : v # u => status'[v] = status[v]
  BY <1>1, <1>3 DEF AnnounceMove
<1>7. QED BY <1>1, <1>2, <1>4, <1>5, <1>6, OtherGames

(* A capture of another player: the two who remain play on, or the mover is*)
(* the last winner.                                                        *)
LEMMA CaptureRunsOn ==
    ASSUME IInv, GamesRunOn, NEW u \in Users, HoldsToken(u),
           NEW l \in Locations \ {locate[u]}, CaptureSelf(u, l)
    PROVE  GamesRunOn'
<1> PICK b : b = currChessBoard[u]
  OBVIOUS
<1> PICK v : v = seat[b][l]
  OBVIOUS
<1>0. v = GetUserByLocation(b, l)
  BY DEF GetUserByLocation, Locations
<1>1. currChessBoard[u] # NoBoard /\ seat' = seat
  BY DEF CaptureSelf, CaptureHandle, InPlay
<1>2. b \in Boards /\ seat[b][locate[u]] = u
  BY <1>1, InPlayIsSeated
<1>3. status \in [Users -> Statuses] /\ status[u] = PLAYING
  BY DEF IInv, TypeOK, HoldsToken
<1> DEFINE st == IF v = NoUser THEN status ELSE [status EXCEPT ![v] = ENDED]
<1>4. v # NoUser => v \in Users /\ v # u /\ currChessBoard[v] = b
  BY <1>2 DEF IInv, TypeOK, SeatsAndSessionsAgree
<1>5. st \in [Users -> Statuses] /\ st[u] = PLAYING
  BY <1>3, <1>4, StatusConstants
<1>6. \A w \in Users : w # v => st[w] = status[w]
  BY <1>3
<1>7. AnnounceMove(currChessBoard[u], u, st)
  BY <1>0 DEF CaptureSelf, CaptureHandle
<1> HIDE DEF st
<1>8. RunsOn(seat'[b], status', token'[b])
  BY <1>1, <1>5, <1>7, MovingRunsOn
<1>9. \A c \in Boards \ {b} : token'[c] = token[c]
  BY <1>7 DEF AnnounceMove, IInv, TypeOK
<1>10. \A w \in Users : w # u => status'[w] = st[w]
  BY <1>5, <1>7 DEF AnnounceMove
<1>11. \A w \in Users : currChessBoard[w] \in Boards \ {b} => status'[w] = status[w]
  BY <1>4, <1>6, <1>10, NullAssumption
<1>12. QED BY <1>1, <1>2, <1>8, <1>9, <1>11, OtherGames

(* Getting ready where nobody plays: nobody plays yet, or all three do and *)
(* the token is BOTTOM's.                                                  *)
LEMMA ReadyRunsOn ==
    ASSUME IInv, GamesRunOn, NEW u \in Users, NEW t, MayGetReady(u), ReadySelf(u, t)
    PROVE  GamesRunOn'
<1> PICK b : b = currChessBoard[u]
  OBVIOUS
<1> DEFINE st == WithStatus(status, {u}, BEGAN)
           began == SeatsWith(seat[b], st, {BEGAN})
<1>1. currChessBoard[u] # NoBoard /\ seat' = seat
  BY DEF ReadySelf, GameReadyHandle, InPlay
<1>2. b \in Boards /\ seat[b][locate[u]] = u
  BY <1>1, InPlayIsSeated
<1>3. status \in [Users -> Statuses] /\ st \in [Users -> Statuses]
  BY StatusConstants, WithStatusType DEF IInv, TypeOK
<1>4. token'[b] = "BOTTOM" /\ \A c \in Boards \ {b} : token'[c] = token[c]
  BY <1>2 DEF ReadySelf, GameReadyHandle, IInv, TypeOK
<1>5. status' = IF Cardinality(began) = 3 THEN WithStatus(st, Seated(seat[b]), PLAYING)
                ELSE st
  BY DEF ReadySelf, GameReadyHandle
<1>6. \A l \in Locations : seat[b][l] # NoUser => seat[b][l] \in Users
  BY <1>2 DEF IInv, TypeOK
<1>7. SeatsWith(seat[b], status, {PLAYING}) = {}
  BY DEF MayGetReady
<1>8. RunsOn(seat'[b], status', token'[b])
  <2>1. CASE Cardinality(began) = 3
    <3>1. began = Locations
      <4>1. began \subseteq Locations
        BY DEF SeatsWith
      <4>2. QED BY <2>1, <4>1, ThreeSeats, FS_Subset
    <3>2. \A l \in Locations : seat[b][l] # NoUser /\ seat[b][l] \in Seated(seat[b])
      BY <3>1 DEF SeatsWith, Seated, Occupied
    <3>3. \A l \in Locations : status'[seat[b][l]] = PLAYING
      BY <1>5, <1>6, <2>1, <3>2 DEF WithStatus
    <3>4. SeatsWith(seat'[b], status', {PLAYING}) = Locations
      BY <1>1, <3>2, <3>3 DEF SeatsWith
    <3>5. QED BY <1>4, <3>4 DEF RunsOn, Locations
  <2>2. CASE Cardinality(began) # 3
    <3>1. SeatsWith(seat'[b], status', {PLAYING}) = {}
      BY <1>1, <1>3, <1>5, <1>6, <1>7, <2>2 DEF SeatsWith, WithStatus, PLAYING, BEGAN
    <3>2. QED BY <3>1 DEF RunsOn
  <2>3. QED BY <2>1, <2>2
<1>9. \A v \in Users : currChessBoard[v] \in Boards \ {b} => status'[v] = status[v]
  <2> SUFFICES ASSUME NEW v \in Users, currChessBoard[v] \in Boards \ {b}
               PROVE  status'[v] = status[v]
    OBVIOUS
  <2>1. v # u /\ v \notin Seated(seat[b])
    BY <1>2, SeatedHere
  <2>2. QED BY <1>3, <1>5, <2>1 DEF WithStatus
<1>10. QED BY <1>1, <1>2, <1>4, <1>8, <1>9, OtherGames

(* A draw ends the game for everybody at the board.                        *)
LEMMA DrawRunsOn ==
    ASSUME IInv, GamesRunOn, NEW u \in Users, ReconcileAll(u)
    PROVE  GamesRunOn'
<1> PICK b : b = currChessBoard[u]
  OBVIOUS
<1>1. b \in Boards /\ seat' = seat /\ token' = token
  BY InPlayIsSeated DEF ReconcileAll, InPlay
<1>2. status' = WithStatus(status, Seated(seat[b]), ENDED)
  BY DEF ReconcileAll
<1>3. \A l \in Locations : seat[b][l] # NoUser =>
         seat[b][l] \in Users /\ seat[b][l] \in Seated(seat[b])
  BY <1>1 DEF IInv, TypeOK, Seated, Occupied
<1>4. SeatsWith(seat'[b], status', {PLAYING}) = {}
  BY <1>1, <1>2, <1>3 DEF SeatsWith, WithStatus, PLAYING, ENDED
<1>5. \A v \in Users : currChessBoard[v] \in Boards \ {b} => status'[v] = status[v]
  BY <1>1, <1>2, SeatedHere DEF WithStatus
<1>6. QED BY <1>1, <1>4, <1>5, OtherGames DEF RunsOn

(* An undo agreed on by players adds at most a player to their game.       *)
LEMMA UndoRunsOn ==
    ASSUME IInv, GamesRunOn, NEW u \in Users, status[u] = PLAYING, UndoAccept(u)
    PROVE  GamesRunOn'
<1> PICK b : b = currChessBoard[u]
  OBVIOUS
<1>1. currChessBoard[u] # NoBoard /\ seat' = seat /\ token' = token
  BY DEF UndoAccept, InPlay
<1>2. b \in Boards /\ locate[u] \in Locations /\ seat[b][locate[u]] = u
  BY <1>1, InPlayIsSeated
<1>3. recent_loser[b] \in LocationOrMax
  BY <1>2 DEF IInv, TypeOK
<1> PICK v : v = GetUserByLocation(b, recent_loser[b])
  OBVIOUS
<1>4. status' = status \/ (v # NoUser /\ status' = [status EXCEPT ![v] = PLAYING])
  BY DEF UndoAccept, UndoPayback
<1>5. v # NoUser => v \in Users /\ currChessBoard[v] = b
  BY <1>2, <1>3, FoundPlays
<1>6. status \in [Users -> Statuses]
  BY DEF IInv, TypeOK
<1>7. locate[u] \in SeatsWith(seat[b], status, {PLAYING})
  BY <1>2, NullAssumption DEF SeatsWith
<1>8. \A l \in Locations : seat[b][l] # NoUser => seat[b][l] \in Users
  BY <1>2 DEF IInv, TypeOK
<1>9. SeatsWith(seat[b], status, {PLAYING}) \subseteq SeatsWith(seat'[b], status', {PLAYING})
  BY <1>1, <1>4, <1>5, <1>6, <1>8 DEF SeatsWith
<1>10. RunsOn(seat[b], status, token[b])
  BY <1>2 DEF GamesRunOn
<1>11. RunsOn(seat'[b], status', token'[b])
  BY <1>1, <1>7, <1>9, <1>10 DEF RunsOn
<1>12. \A w \in Users : currChessBoard[w] \in Boards \ {b} => status'[w] = status[w]
  BY <1>4, <1>5, <1>6
<1>13. QED BY <1>1, <1>2, <1>11, <1>12, OtherGames

(* LeaveRoomHandle and the seats: only the board of the user who leaves is *)
(* concerned, everybody else keeps his seat, and the user who really leaves*)
(* has none any more.                                                      *)
LEMMA LeavingSeats ==
    ASSUME IInv, NEW u \in Users, currChessBoard[u] # NoBoard,
           NEW st, NEW really_leave \in BOOLEAN,
           LeaveRoomHandle(currChessBoard[u], u, st, really_leave)
    PROVE  LET b == currChessBoard[u]
           IN  /\ really_leave => \A l \in Locations : seat'[b][l] # u
               /\ ~really_leave => seat' = seat
               /\ \A l \in Locations : l # locate[u] => seat'[b][l] = seat[b][l]
               /\ \A l \in Locations : seat'[b][l] # NoUser =>
                     /\ seat'[b][l] = seat[b][l] /\ seat'[b][l] \in Users
                     /\ currChessBoard[seat'[b][l]] = b
               /\ \A c \in Boards \ {b} : seat'[c] = seat[c]
<1> PICK b : b = currChessBoard[u]
  OBVIOUS
<1>1. b \in Boards /\ locate[u] \in Locations /\ seat[b][locate[u]] = u
  BY InPlayIsSeated
<1>2. \/ seat' = seat
      \/ seat' = [seat EXCEPT ![b][locate[u]] = NoUser]
  BY DEF LeaveRoomHandle, LeaveOutRoom
<1>3. really_leave => \A l \in Locations : seat'[b][l] # u
  <2> SUFFICES ASSUME really_leave, NEW l \in Locations PROVE seat'[b][l] # u
    OBVIOUS
  <2>1. LeaveOutRoom(currChessBoard[u], u)
    BY DEF LeaveRoomHandle
  <2>2. currUserNum[b] > 0
    <3>1. locate[u] \in Occupied(seat[b])
      BY <1>1, NullAssumption DEF Occupied
    <3>2. Cardinality(Occupied(seat[b])) # 0
      BY <3>1, OccupiedRange, FS_EmptySet
    <3>3. QED BY <1>1, <3>2, OccupiedRange DEF IInv, CountMatchesSeats
  <2>3. seat' = [seat EXCEPT ![b][locate[u]] = NoUser]
    BY <1>1, <2>1, <2>2, NullAssumption DEF LeaveOutRoom
  <2>4. CASE l = locate[u]
    BY <1>1, <2>3, <2>4, NullAssumption DEF IInv, TypeOK
  <2>5. CASE l # locate[u]
    <3>1. seat'[b][l] = seat[b][l]
      BY <1>1, <2>3, <2>5 DEF IInv, TypeOK
    <3>2. QED BY <1>1, <2>5, <3>1, NullAssumption DEF IInv, SeatsAndSessionsAgree
  <2>6. QED BY <2>4, <2>5
<1>4. \A l \in Locations : seat'[b][l] # NoUser =>
         seat'[b][l] = seat[b][l] /\ seat'[b][l] \in Users /\ currChessBoard[seat'[b][l]] = b
  <2>1. \A l \in Locations : seat'[b][l] # NoUser => seat'[b][l] = seat[b][l]
    BY <1>1, <1>2 DEF IInv, TypeOK
  <2>2. QED BY <1>1, <2>1 DEF IInv, TypeOK, SeatsAndSessionsAgree
<1>5. \A c \in Boards \ {b} : seat'[c] = seat[c]
  BY <1>1, <1>2 DEF IInv, TypeOK
<1>6. \A l \in Locations : l # locate[u] => seat'[b][l] = seat[b][l]
  BY <1>1, <1>2 DEF IInv, TypeOK
<1>7. ~really_leave => seat' = seat
  BY DEF LeaveRoomHandle
<1>8. QED BY <1>3, <1>4, <1>5, <1>6, <1>7

(* LeaveRoomHandle: whoever leaves or gives up a game ends it for all; who *)
(* leaves without playing leaves the game to the players.                  *)
LEMMA LeavingRunsOn ==
    ASSUME IInv, GamesRunOn, NEW u \in Users, currChessBoard[u] # NoBoard,
           NEW really_leave \in BOOLEAN,
           LeaveRoomHandle(currChessBoard[u], u, status, really_leave),
           really_leave \/ status[u] = PLAYING,
           token' = token
    PROVE  GamesRunOn'
<1> PICK b : b = currChessBoard[u]
  OBVIOUS
<1> DEFINE gone == [status EXCEPT ![u] = IF really_leave THEN EXITED ELSE ENDED]
           p == status[u] = PLAYING
           playing == SeatsWith(seat'[b], gone, {PLAYING})
<1>1. b \in Boards /\ locate[u] \in Locations /\ seat[b][locate[u]] = u
  BY InPlayIsSeated
<1>2. SettleGame(u, p, seat'[b], gone)
  BY DEF LeaveRoomHandle
<1>3. /\ \A l \in Locations : l # locate[u] => seat'[b][l] = seat[b][l]
      /\ \A c \in Boards \ {b} : seat'[c] = seat[c]
      /\ really_leave => \A l \in Locations : seat'[b][l] # u
      /\ \A l \in Locations : seat'[b][l] # NoUser =>
            seat'[b][l] = seat[b][l] /\ seat'[b][l] \in Users /\ currChessBoard[seat'[b][l]] = b
  <2> HIDE DEF gone, p, playing
  <2>1. LET c == currChessBoard[u]
        IN  /\ \A l \in Locations : l # locate[u] => seat'[c][l] = seat[c][l]
            /\ \A d \in Boards \ {c} : seat'[d] = seat[d]
            /\ really_leave => \A l \in Locations : seat'[c][l] # u
            /\ \A l \in Locations : seat'[c][l] # NoUser =>
                  /\ seat'[c][l] = seat[c][l] /\ seat'[c][l] \in Users
                  /\ currChessBoard[seat'[c][l]] = c
    BY LeavingSeats
  <2>2. QED BY <2>1
<1>4. /\ status \in [Users -> Statuses] /\ gone \in [Users -> Statuses]
      /\ \A v \in Users : v # u => gone[v] = status[v]
      /\ gone[u] # PLAYING
  BY StatusConstants DEF IInv, TypeOK, EXITED, NOT_START, ENDED, PLAYING
<1> HIDE DEF gone
<1>5. LastWinners(seat'[b], gone) \subseteq Seated(seat'[b])
  BY DEF LastWinners, SeatsWith, Seated, Occupied
<1>6. \A v \in Users : v \notin Seated(seat'[b]) => status'[v] = gone[v]
  BY <1>2, <1>5 DEF SettleGame, WithStatus
<1>7. \A v \in Users : currChessBoard[v] \in Boards \ {b} => status'[v] = status[v]
  <2>1. \A v \in Users : v \in Seated(seat'[b]) => currChessBoard[v] = b
    BY <1>3 DEF Seated, Occupied
  <2>2. QED BY <1>4, <1>6, <2>1
<1>8. RunsOn(seat'[b], status', token'[b])
  <2>1. CASE p
    <3>1. \A v \in Users : v \in Seated(seat'[b]) => status'[v] = ENDED
      BY <1>2, <2>1 DEF SettleGame, WithStatus
    <3>2. SeatsWith(seat'[b], status', {PLAYING}) = {}
      BY <1>3, <3>1 DEF SeatsWith, Seated, Occupied, PLAYING, ENDED
    <3>3. QED BY <3>2 DEF RunsOn
  <2>2. CASE ~p
    <3>1. really_leave
      BY <2>2
    <3>2. SeatsWith(seat[b], status, {PLAYING}) = playing
      <4>1. ASSUME NEW l \in Locations, l # locate[u]
            PROVE  seat'[b][l] = seat[b][l]
        BY <1>3, <4>1
      <4>2. locate[u] \notin SeatsWith(seat[b], status, {PLAYING})
        BY <1>1, <2>2 DEF SeatsWith
      <4>3. locate[u] \notin playing
        BY <1>1, <1>3, <3>1 DEF SeatsWith
      <4>4. \A l \in Locations : l # locate[u] =>
               (l \in SeatsWith(seat[b], status, {PLAYING}) <=> l \in playing)
        BY <1>3, <1>4, <3>1, <4>1 DEF SeatsWith
      <4>5. QED BY <4>2, <4>3, <4>4 DEF SeatsWith
    <3>3. RunsOn(seat'[b], gone, token[b])
      BY <1>1, <3>2 DEF GamesRunOn, RunsOn
    <3>4. LastWinners(seat'[b], gone) = {}
      BY <3>3, RunsOnCounts DEF LastWinners
    <3>5. status' = gone
      BY <1>2, <1>4, <2>2, <3>4 DEF SettleGame, WithStatus
    <3>6. QED BY <3>3, <3>5
  <2>3. QED BY <2>1, <2>2
<1>9. QED BY <1>1, <1>3, <1>7, <1>8, OtherGames

(* Sitting down at a board where no game runs starts none.                 *)
LEMMA JoiningRunsOn ==
    ASSUME IInv, GamesRunOn, NEW u \in Users, NEW b \in Boards, NEW l \in Locations,
           GameRequestAccepted(u, b, l)
    PROVE  GamesRunOn'
<1>1. /\ seat' = [seat EXCEPT ![b][l] = u] /\ status' = [status EXCEPT ![u] = READY]
      /\ token' = token /\ ~GameBegan(b) /\ currChessBoard[u] = NoBoard
  BY DEF GameRequestAccepted, IInv, SeatsAndSessionsAgree
<1>2. \A c \in Boards \ {b} : seat'[c] = seat[c]
  BY <1>1 DEF IInv, TypeOK
<1>3. \A v \in Users : v # u => status'[v] = status[v]
  BY <1>1 DEF IInv, TypeOK
<1>4. \A k \in Locations : seat'[b][k] # NoUser =>
         /\ seat'[b][k] \in Users
         /\ seat'[b][k] = u \/ seat'[b][k] = seat[b][k]
  BY <1>1 DEF IInv, TypeOK
<1>5. SeatsWith(seat'[b], status', {PLAYING}) = {}
  <2>1. status'[u] # PLAYING
    BY <1>1 DEF IInv, TypeOK, READY, PLAYING
  <2>2. \A k \in Locations : seat[b][k] # NoUser => status[seat[b][k]] # PLAYING
    BY <1>1 DEF GameBegan, SeatsWith
  <2>3. QED BY <1>3, <1>4, <2>1, <2>2 DEF SeatsWith
<1>6. QED BY <1>1, <1>2, <1>3, <1>5, OtherGames, NullAssumption DEF RunsOn

(* A user who has ended and wants to play again plays neither before nor   *)
(* after.                                                                  *)
LEMMA AgainRunsOn ==
    ASSUME IInv, GamesRunOn, NEW u \in Users, NEW c, AgainSelf(u, c)
    PROVE  GamesRunOn'
<1> SUFFICES ASSUME NEW b \in Boards PROVE RunsOn(seat'[b], status', token'[b])
  BY DEF GamesRunOn
<1>1. seat' = seat /\ token' = token /\ status[u] = ENDED
      /\ status' = [status EXCEPT ![u] = READY]
  BY DEF AgainSelf, GameAgainHandle
<1>2. \A l \in Locations : seat[b][l] # NoUser => seat[b][l] \in Users
  BY DEF IInv, TypeOK
<1>3. SeatsWith(seat'[b], status', {PLAYING}) = SeatsWith(seat[b], status, {PLAYING})
  BY <1>1, <1>2 DEF SeatsWith, IInv, TypeOK, ENDED, READY, PLAYING
<1>4. RunsOn(seat[b], status, token[b])
  BY DEF GamesRunOn
<1>5. QED BY <1>1, <1>3, <1>4 DEF RunsOn

(* With clients that keep to the rules and undo no move that has ended the *)
(* game, every game has two players or none and the token is with one.     *)
LEMMA PlayRunsOn ==
    ASSUME LateUndo = FALSE, IInv, GamesRunOn, [PlayNext]_vars
    PROVE  GamesRunOn'
<1>1. ASSUME UNCHANGED << seat, status, token >> PROVE GamesRunOn'
  BY <1>1 DEF GamesRunOn
<1>2. CASE UNCHANGED vars
  BY <1>1, <1>2 DEF vars
<1>3. ASSUME NEW u \in Users, NEW b \in Boards, NEW l \in Locations,
             EnterHall(u) \/ GameRequestRefused(u, b, l)
      PROVE  GamesRunOn'
  BY <1>1, <1>3 DEF EnterHall, GameRequestRefused
<1>4. ASSUME NEW u \in Users, EnterHall(u) PROVE GamesRunOn'
  BY <1>1, <1>4 DEF EnterHall
<1>5. ASSUME NEW u \in Users, MayUndo(u), UndoAccept(u) PROVE GamesRunOn'
  BY <1>5, UndoRunsOn DEF MayUndo
<1>6. ASSUME NEW u \in Users, status[u] = PLAYING, GiveUpSelf(u) PROVE GamesRunOn'
  BY <1>6, LeavingRunsOn DEF GiveUpSelf, InPlay
<1>7. ASSUME NEW u \in Users, ExitSelf(u) PROVE GamesRunOn'
  BY <1>7, LeavingRunsOn DEF ExitSelf, InPlay
<1>8. ASSUME NEW u \in Users, Disconnect(u) PROVE GamesRunOn'
  <2>1. CASE currChessBoard[u] = NoBoard
    BY <1>1, <1>8, <2>1 DEF Disconnect, DestructResource
  <2>2. CASE currChessBoard[u] # NoBoard
    BY <1>8, <2>2, LeavingRunsOn DEF Disconnect, DestructResource
  <2>3. QED BY <2>1, <2>2
<1>9. CASE PlaySelfNext
  BY <1>3, <1>4, <1>5, <1>6, <1>7, <1>8, <1>9, JoiningRunsOn, ReadyRunsOn,
     MoveRunsOn, CaptureRunsOn, DrawRunsOn, AgainRunsOn DEF PlaySelfNext
<1>10. QED BY <1>2, <1>9, PlaysForSelf

(* No user plays at a board at first.                                      *)
LEMMA InitRunsOn == Init => GamesRunOn
BY DEF Init, GamesRunOn, RunsOn, SeatsWith

(* The invariant of games among clients that keep to the rules.            *)
LEMMA GamesInvariance == LateUndo = FALSE => (PlaySpec => []GamesRunOn)
<1> SUFFICES ASSUME LateUndo = FALSE PROVE PlaySpec => []GamesRunOn
  OBVIOUS
<1>1. IInv /\ GamesRunOn /\ [PlayNext]_vars => GamesRunOn'
  BY PlayRunsOn
<1>2. QED BY <1>1, InitRunsOn, PlayInvariance, PTL DEF PlaySpec

(* If clients keep to the rules and undo no move that has ended the game,  *)
(* the token that MoveChessHandle and GameReadyHandle announce is with a   *)
(* user who plays, as long as two do.                                      *)
THEOREM TokenCorrect == LateUndo = FALSE => (PlaySpec => []TokenHeldByPlayer)
<1>1. GamesRunOn => TokenHeldByPlayer
  BY RunsOnCounts DEF GamesRunOn, TokenHeldByPlayer
<1>2. QED BY <1>1, GamesInvariance, PTL

(* Under the same conditions nobody is left PLAYING alone: MoveChessHandle *)
(* and LeaveRoomHandle end the game of the last winner.                    *)
THEOREM LonePlayerCorrect == LateUndo = FALSE => (PlaySpec => []NoLonePlayer)
<1>1. GamesRunOn => NoLonePlayer
  BY RunsOnCounts DEF GamesRunOn, NoLonePlayer
<1>2. QED BY <1>1, GamesInvariance, PTL

=============================================================================
