---------------------------- MODULE BoardProofs ----------------------------
(***************************************************************************)
(* Proofs about ChessBoard as the people at a board see it, for clients    *)
(* that keep to the rules: points are moved and not made, and a board      *)
(* implements BoardSpec.                                                   *)
(***************************************************************************)
EXTENDS ChessBoardProofs

(* The users at a board and those in its game, told by their sessions.     *)
UsersAt(b) == {u \in Users : currChessBoard[u] = b}
UsersInGame(b) == {u \in UsersAt(b) : status[u] = PLAYING}

(* The seats of the last capture are not the same seat.                    *)
PairApart == \A b \in Boards : recent_winner[b] # "MAX" =>
                                  recent_winner[b] # recent_loser[b]

-----------------------------------------------------------------------------
(* The users who play at a board and the seats they play from are found    *)
(* from each other.                                                        *)
LEMMA SeatsOfPlayers ==
    ASSUME IInv, NEW b \in Boards
    PROVE  /\ Seated(seat[b]) = UsersAt(b)
           /\ PlayersAt(b) = UsersInGame(b)
           /\ \A l \in Locations : l \in SeatsWith(seat[b], status, {PLAYING}) <=>
                 seat[b][l] \in UsersInGame(b)
           /\ \A u \in UsersAt(b) : /\ locate[u] \in Locations /\ seat[b][locate[u]] = u
                                    /\ state[u] = "GAME_PLAY"
<1>1. \A u \in UsersAt(b) : /\ locate[u] \in Locations /\ seat[b][locate[u]] = u
                            /\ state[u] = "GAME_PLAY"
  BY NullAssumption DEF IInv, TypeOK, SeatsAndSessionsAgree, UsersAt
<1>2. \A l \in Locations : seat[b][l] # NoUser => seat[b][l] \in UsersAt(b)
  BY DEF IInv, TypeOK, SeatsAndSessionsAgree, UsersAt
<1>3. NoUser \notin UsersAt(b)
  BY NullAssumption DEF UsersAt
<1>4. Seated(seat[b]) = UsersAt(b)
  BY <1>1, <1>2, <1>3 DEF Seated, Occupied
<1>5. PlayersAt(b) = UsersInGame(b)
  BY <1>4 DEF PlayersAt, UsersInGame
<1>6. \A l \in Locations : l \in SeatsWith(seat[b], status, {PLAYING}) <=>
         seat[b][l] \in UsersInGame(b)
  BY <1>2, <1>3 DEF SeatsWith, UsersInGame
<1>7. QED BY <1>1, <1>4, <1>5, <1>6

(* The last winner is the user left alone in the game, if one is.          *)
LEMMA LastWinnerIs ==
    ASSUME NEW seats, NEW st
    PROVE  LET players == {seats[l] : l \in SeatsWith(seats, st, {PLAYING})}
           IN  /\ LastWinners(seats, st) \subseteq players
               /\ (\A l, k \in SeatsWith(seats, st, {PLAYING}) :
                      seats[l] = seats[k] => l = k)
                  => \A w : w \in LastWinners(seats, st) <=> players = {w}
<1> DEFINE playing == SeatsWith(seats, st, {PLAYING})
           n == GetActiveUsersNum(seats, st)
           players == {seats[l] : l \in playing}
<1>1. /\ n \in Nat /\ (n = 0 <=> playing = {})
      /\ \A l \in playing : n > 1 <=> playing \ {l} # {}
  BY ActiveUsers
<1>2. LastWinners(seats, st) = IF n = 1 THEN players ELSE {}
  BY DEF LastWinners
<1> HIDE DEF playing, n
<1>3. ASSUME \A l, k \in playing : seats[l] = seats[k] => l = k, NEW w
      PROVE  w \in LastWinners(seats, st) <=> players = {w}
  <2>1. ASSUME n = 1, w \in players PROVE players = {w}
    <3>1. PICK l \in playing : w = seats[l]
      BY <2>1
    <3>2. playing \ {l} = {}
      BY <1>1, <2>1
    <3>3. QED BY <3>1, <3>2
  <2>2. ASSUME players = {w} PROVE n = 1
    <3>1. PICK l \in playing : w = seats[l]
      BY <2>2
    <3>2. \A k \in playing : k = l
      BY <1>3, <2>2, <3>1
    <3>3. playing \ {l} = {} /\ playing # {}
      BY <3>1, <3>2
    <3>4. QED BY <1>1, <3>1, <3>3
  <2>3. QED BY <1>2, <2>1, <2>2
<1>4. QED BY <1>2, <1>3 DEF playing

(* LeaveRoomHandle, seen from the users: who was in the game ends it for   *)
(* all, pays 30 and leaves 10 to a single other player; who was not leaves *)
(* everybody's status and score alone.                                     *)
LEMMA LeavingEffects ==
    ASSUME IInv, GamesRunOn, NEW u \in Users, currChessBoard[u] # NoBoard,
           NEW really_leave \in BOOLEAN,
           LeaveRoomHandle(currChessBoard[u], u, status, really_leave)
    PROVE  LET b == currChessBoard[u]
               others == UsersInGame(b) \ {u}
           IN  /\ status'[u] # PLAYING
               /\ \A v \in Users \ UsersAt(b) : status'[v] = status[v]
               /\ status[u] = PLAYING =>
                     /\ \A v \in UsersAt(b) : status'[v] # PLAYING
                     /\ score' = [w \in Users |->
                                    IF w = u THEN (score[w] - 30) % ScoreMod
                                    ELSE IF others = {w} THEN (score[w] + 10) % ScoreMod
                                    ELSE score[w]]
               /\ status[u] # PLAYING =>
                     /\ \A v \in Users \ {u} : status'[v] = status[v]
                     /\ score' = score
<1> PICK b : b = currChessBoard[u]
  OBVIOUS
<1> DEFINE gone == [status EXCEPT ![u] = IF really_leave THEN EXITED ELSE ENDED]
           p == status[u] = PLAYING
           others == UsersInGame(b) \ {u}
           playing == SeatsWith(seat'[b], gone, {PLAYING})
           winners == LastWinners(seat'[b], gone)
<1>1. b \in Boards /\ locate[u] \in Locations /\ seat[b][locate[u]] = u
  BY InPlayIsSeated
<1>2. /\ status' = WithStatus(gone, winners \cup (IF p THEN Seated(seat'[b]) ELSE {}), ENDED)
      /\ score' = [v \in Users |-> IF v \in winners THEN IncreaseScore(score[v], 10)
                                   ELSE IF v = u /\ p THEN ReduceScore(score[v], 30)
                                   ELSE score[v]]
  BY DEF LeaveRoomHandle, SettleGame
<1>3. /\ \A l \in Locations : l # locate[u] => seat'[b][l] = seat[b][l]
      /\ \A l \in Locations : seat'[b][l] # NoUser =>
            seat'[b][l] = seat[b][l] /\ seat'[b][l] \in Users /\ currChessBoard[seat'[b][l]] = b
  BY LeavingSeats
<1>4. /\ status \in [Users -> Statuses] /\ gone \in [Users -> Statuses]
      /\ score \in [Users -> 0 .. (ScoreMod - 1)]
      /\ \A v \in Users : v # u => gone[v] = status[v]
      /\ gone[u] # PLAYING
  BY StatusConstants DEF IInv, TypeOK, EXITED, NOT_START, ENDED, PLAYING
<1> HIDE DEF gone
<1>5. {seat'[b][l] : l \in playing} = others
  <2>1. \A v \in UsersAt(b) : locate[v] \in Locations /\ seat[b][locate[v]] = v
    BY <1>1, SeatsOfPlayers
  <2>2. ASSUME NEW v \in others PROVE \E l \in playing : v = seat'[b][l]
    <3>1. v \in Users /\ v # u /\ v \in UsersAt(b) /\ status[v] = PLAYING
      BY DEF UsersInGame, UsersAt
    <3>2. locate[v] \in Locations /\ locate[v] # locate[u] /\ seat[b][locate[v]] = v
      BY <1>1, <2>1, <3>1
    <3>3. seat'[b][locate[v]] = v /\ gone[v] = PLAYING /\ v # NoUser
      BY <1>3, <1>4, <3>1, <3>2, NullAssumption
    <3>4. QED BY <3>2, <3>3 DEF SeatsWith
  <2>3. ASSUME NEW l \in playing PROVE seat'[b][l] \in others
    <3>1. l \in Locations /\ seat'[b][l] # NoUser /\ gone[seat'[b][l]] = PLAYING
      BY <2>3 DEF SeatsWith
    <3>2. QED BY <1>3, <1>4, <3>1 DEF UsersInGame, UsersAt
  <2>4. QED BY <2>2, <2>3
<1>6. \A l, k \in playing : seat'[b][l] = seat'[b][k] => l = k
  <2>1. \A l \in playing : l \in Locations /\ seat'[b][l] = seat[b][l] /\ seat[b][l] # NoUser
    BY <1>3 DEF SeatsWith
  <2>2. QED BY <1>1, <2>1 DEF IInv, SeatsAndSessionsAgree
<1>7. winners \subseteq others /\ \A w : w \in winners <=> others = {w}
  <2> DEFINE seats == seat'[b]
  <2>1. /\ {seats[l] : l \in SeatsWith(seats, gone, {PLAYING})} = others
        /\ \A l, k \in SeatsWith(seats, gone, {PLAYING}) : seats[l] = seats[k] => l = k
    BY <1>5, <1>6
  <2> HIDE DEF seats, others, winners, playing, p
  <2>2. /\ LastWinners(seats, gone) \subseteq others
        /\ \A w : w \in LastWinners(seats, gone) <=> others = {w}
    BY <2>1, LastWinnerIs
  <2>3. QED BY <2>2 DEF seats, winners
<1>8. Seated(seat'[b]) \subseteq UsersAt(b)
  BY <1>3 DEF Seated, Occupied, UsersAt
<1>9. others \subseteq Users /\ others \subseteq UsersAt(b) /\ u \notin others
  BY DEF UsersInGame, UsersAt
<1> HIDE DEF winners, others
<1>10. status'[u] # PLAYING
  BY <1>2, <1>4 DEF WithStatus, ENDED, PLAYING
<1>11. \A v \in Users \ UsersAt(b) : status'[v] = status[v]
  <2>1. u \in UsersAt(b)
    BY DEF UsersAt
  <2>2. QED BY <1>2, <1>4, <1>7, <1>8, <1>9, <2>1 DEF WithStatus
<1>12. ASSUME p PROVE \A v \in UsersAt(b) : status'[v] # PLAYING
  <2> SUFFICES ASSUME NEW v \in UsersAt(b), v # u PROVE status'[v] # PLAYING
    BY <1>10
  <2>1. v \in Users /\ locate[v] \in Locations /\ seat[b][locate[v]] = v
    BY <1>1, SeatsOfPlayers DEF UsersAt
  <2>2. seat'[b][locate[v]] = v /\ v # NoUser
    BY <1>1, <1>3, <2>1, NullAssumption
  <2>3. v \in Seated(seat'[b])
    BY <2>1, <2>2 DEF Seated, Occupied
  <2>4. QED BY <1>2, <1>12, <2>1, <2>3 DEF WithStatus, ENDED, PLAYING
<1>13. ASSUME p
       PROVE  score' = [w \in Users |-> IF w = u THEN (score[w] - 30) % ScoreMod
                                        ELSE IF others = {w} THEN (score[w] + 10) % ScoreMod
                                        ELSE score[w]]
  BY <1>2, <1>7, <1>9, <1>13 DEF IncreaseScore, ReduceScore
<1>14. ASSUME ~p PROVE (\A v \in Users \ {u} : status'[v] = status[v]) /\ score' = score
  <2>1. winners = {}
    <3>1. ASSUME NEW w, others = {w} PROVE FALSE
      <4>1. UsersInGame(b) = {w}
        BY <1>14, <3>1 DEF others, UsersInGame
      <4>2. \A l \in Locations : l \in SeatsWith(seat[b], status, {PLAYING}) <=> seat[b][l] = w
        BY <1>1, <4>1, SeatsOfPlayers
      <4>3. w \in UsersAt(b)
        BY <4>1 DEF UsersInGame
      <4>4. locate[w] \in Locations /\ seat[b][locate[w]] = w
        BY <1>1, <4>3, SeatsOfPlayers
      <4>5. w # NoUser
        BY <4>3, NullAssumption DEF UsersAt
      <4>6. \A l \in Locations : seat[b][l] = w => l = locate[w]
        BY <1>1, <4>5 DEF IInv, SeatsAndSessionsAgree
      <4>7. SeatsWith(seat[b], status, {PLAYING}) = {locate[w]}
        BY <4>2, <4>4, <4>6 DEF SeatsWith
      <4>8. RunsOn(seat[b], status, token[b])
        BY <1>1 DEF GamesRunOn
      <4>9. QED BY <4>7, <4>8 DEF RunsOn
    <3>2. QED BY <1>7, <3>1
  <2>2. status' = gone /\ score' = score
    BY <1>2, <1>4, <1>14, <2>1 DEF WithStatus
  <2>3. QED BY <1>4, <2>2
<1>15. QED BY <1>10, <1>11, <1>12, <1>13, <1>14 DEF others

-----------------------------------------------------------------------------
(* A player captures somebody else, so the seats of a capture differ; and  *)
(* nothing but a move changes them.                                        *)
LEMMA PairInvariance == PlaySpec => []PairApart
<1>1. Init => PairApart
  BY DEF Init, PairApart
<1>2. ASSUME IInv, PairApart, [PlayNext]_vars PROVE PairApart'
  <2>1. ASSUME UNCHANGED << recent_winner, recent_loser >> PROVE PairApart'
    BY <1>2, <2>1 DEF PairApart
  <2>2. CASE UNCHANGED vars
    BY <2>1, <2>2 DEF vars
  <2>3. ASSUME NEW u \in Users, MoveSelf(u) PROVE PairApart'
    BY <1>2, <2>3 DEF MoveSelf, MoveChessHandle, PairApart, IInv, TypeOK
  <2>4. ASSUME NEW u \in Users, NEW l \in Locations \ {locate[u]}, CaptureSelf(u, l)
        PROVE  PairApart'
    BY <1>2, <2>4 DEF CaptureSelf, CaptureHandle, PairApart, IInv, TypeOK
  <2>5. ASSUME NEW u \in Users, NEW b, NEW l,
               GameRequestRefused(u, b, l) \/ GameRequestAccepted(u, b, l)
        PROVE  PairApart'
    BY <2>1, <2>5 DEF GameRequestRefused, GameRequestAccepted
  <2>6. ASSUME NEW u \in Users, NEW t, ReadySelf(u, t) PROVE PairApart'
    BY <2>1, <2>6 DEF ReadySelf, GameReadyHandle
  <2>7. ASSUME NEW u \in Users, NEW c,
               \/ EnterHall(u) \/ ReconcileAll(u) \/ UndoAccept(u) \/ AgainSelf(u, c)
               \/ GiveUpSelf(u) \/ ExitSelf(u) \/ Disconnect(u)
        PROVE  PairApart'
    BY <2>1, <2>7 DEF EnterHall, ReconcileAll, UndoAccept, AgainSelf, GameAgainHandle, GiveUpSelf,
                      ExitSelf, Disconnect, DestructResource
  <2>8. CASE PlaySelfNext
    BY <2>3, <2>4, <2>5, <2>6, <2>7, <2>8 DEF PlaySelfNext
  <2>9. QED BY <1>2, <2>2, <2>8, PlaysForSelf
<1>3. QED BY <1>1, <1>2, PlayInvariance, PTL DEF PlaySpec

(* 10 points go from v to w, who sit at one board.                         *)
Paid(w, v) ==
    /\ w # v /\ currChessBoard[w] = currChessBoard[v] /\ currChessBoard[w] # NoBoard
    /\ score' = [score EXCEPT ![w] = (@ + 10) % ScoreMod, ![v] = (@ - 10) % ScoreMod]

(* u ends his part in a game: 30 points, of which a last winner gets 10.   *)
WalkedOut(u) ==
    /\ status[u] = PLAYING /\ status'[u] # PLAYING
    /\ LET others == {w \in Users \ {u} : /\ currChessBoard[w] = currChessBoard[u]
                                          /\ status[w] = PLAYING}
       IN  score' = [w \in Users |->
                       IF w = u THEN (score[w] - 30) % ScoreMod
                       ELSE IF others = {w} THEN (score[w] + 10) % ScoreMod
                       ELSE score[w]]

(* A capture pays the mover from the beaten user.                          *)
LEMMA CapturePays ==
    ASSUME IInv, NEW u \in Users, NEW l, CaptureSelf(u, l),
           l \in SeatsWith(seat[currChessBoard[u]], status, {PLAYING}) \ {locate[u]}
    PROVE  \E w, v \in Users : Paid(w, v)
<1> PICK b : b = currChessBoard[u]
  OBVIOUS
<1> PICK v : v = seat[b][l]
  OBVIOUS
<1>1. currChessBoard[u] # NoBoard /\ l \in Locations /\ l # locate[u] /\ v # NoUser
  BY DEF CaptureSelf, CaptureHandle, InPlay, SeatsWith
<1>2. b \in Boards /\ b # NoBoard /\ seat[b][locate[u]] = u
  BY <1>1, InPlayIsSeated, NullAssumption
<1>3. v \in Users /\ currChessBoard[v] = b /\ u # v
  BY <1>1, <1>2 DEF IInv, TypeOK, SeatsAndSessionsAgree
<1>4. score' = CaptureScore(u, v)
  BY <1>1 DEF GetUserByLocation, Locations, CaptureSelf, CaptureHandle
<1>5. Paid(u, v)
  BY <1>2, <1>3, <1>4 DEF Paid, CaptureScore, IncreaseScore, ReduceScore, IInv, TypeOK
<1>6. QED BY <1>3, <1>5

(* An undo that does not bring the server down pays it back.               *)
LEMMA UndoPays ==
    ASSUME IInv, PairApart, NEW u \in Users, UndoAccept(u), up'
    PROVE  \E w, v \in Users : Paid(w, v)
<1> PICK b : b = currChessBoard[u]
  OBVIOUS
<1> DEFINE w == GetUserByLocation(b, recent_winner[b])
           v == GetUserByLocation(b, recent_loser[b])
<1>1. currChessBoard[u] # NoBoard /\ recent_winner[b] # "MAX" /\ UndoPayback(b)
  BY DEF UndoAccept, InPlay
<1>2. b \in Boards /\ b # NoBoard
  BY <1>1, InPlayIsSeated, NullAssumption
<1>3. /\ recent_winner[b] \in LocationOrMax /\ recent_loser[b] \in LocationOrMax
      /\ recent_winner[b] # recent_loser[b]
  BY <1>1, <1>2 DEF IInv, TypeOK, PairApart
<1>4. w # NoUser /\ v # NoUser
  BY <1>1 DEF UndoPayback
<1>5. /\ w \in Users /\ v \in Users /\ w # v
      /\ currChessBoard[w] = b /\ currChessBoard[v] = b
  BY <1>2, <1>3, <1>4, FoundPlays
<1>6. score' = [[score EXCEPT ![w] = ReduceScore(@, 10)] EXCEPT ![v] = IncreaseScore(@, 10)]
  BY <1>1, <1>4 DEF UndoPayback
<1> HIDE DEF w, v
<1>7. Paid(v, w)
  BY <1>2, <1>5, <1>6 DEF Paid, IncreaseScore, ReduceScore, IInv, TypeOK
<1>8. QED BY <1>5, <1>7

(* Leaving or giving up moves points only if the user was in the game.     *)
LEMMA LeavingPays ==
    ASSUME IInv, GamesRunOn, NEW u \in Users, currChessBoard[u] # NoBoard,
           NEW really_leave \in BOOLEAN,
           LeaveRoomHandle(currChessBoard[u], u, status, really_leave)
    PROVE  score' = score \/ WalkedOut(u)
<1> DEFINE mates == {w \in Users \ {u} : /\ currChessBoard[w] = currChessBoard[u]
                                         /\ status[w] = PLAYING}
<1>1. mates = UsersInGame(currChessBoard[u]) \ {u}
  BY DEF UsersInGame, UsersAt
<1>2. CASE status[u] = PLAYING
  <2>1. /\ status'[u] # PLAYING
        /\ score' = [w \in Users |->
                       IF w = u THEN (score[w] - 30) % ScoreMod
                       ELSE IF UsersInGame(currChessBoard[u]) \ {u} = {w}
                              THEN (score[w] + 10) % ScoreMod
                       ELSE score[w]]
    BY <1>2, LeavingEffects
  <2> HIDE DEF mates
  <2>2. score' = [w \in Users |->
                    IF w = u THEN (score[w] - 30) % ScoreMod
                    ELSE IF mates = {w} THEN (score[w] + 10) % ScoreMod
                    ELSE score[w]]
    BY <1>1, <2>1
  <2>3. QED BY <1>2, <2>1, <2>2 DEF WalkedOut, mates
<1>3. CASE status[u] # PLAYING
  BY <1>3, LeavingEffects
<1>4. QED BY <1>2, <1>3

(* If clients keep to the rules and undo no move that has ended the game,  *)
(* points are only moved: 10 at a time by a capture or its undo, and 30    *)
(* destroyed by a user who walks out of a game, less 10 for a last winner, *)
(* whatever the scores and however they wrap around.                       *)
THEOREM ScoresCorrect == LateUndo = FALSE => (PlaySpec => ScoresConserved)
<1> SUFFICES ASSUME LateUndo = FALSE PROVE PlaySpec => ScoresConserved
  OBVIOUS
<1> DEFINE Moved == up' => \/ UNCHANGED score
                           \/ \E w, v \in Users : Paid(w, v)
                           \/ \E u \in Users : WalkedOut(u)
<1>1. ASSUME IInv, GamesRunOn, PairApart, [PlayNext]_vars PROVE [Moved]_vars
  <2> SUFFICES ASSUME PlaySelfNext, up' PROVE Moved
    BY <1>1, PlaysForSelf
  <2>1. ASSUME NEW u \in Users, NEW b, NEW l,
               GameRequestRefused(u, b, l) \/ GameRequestAccepted(u, b, l)
        PROVE  Moved
    BY <2>1 DEF GameRequestRefused, GameRequestAccepted
  <2>2. ASSUME NEW u \in Users, NEW t, ReadySelf(u, t) PROVE Moved
    BY <2>2 DEF ReadySelf, GameReadyHandle
  <2>3. ASSUME NEW u \in Users, NEW c,
               EnterHall(u) \/ MoveSelf(u) \/ ReconcileAll(u) \/ AgainSelf(u, c)
        PROVE  Moved
    BY <2>3 DEF EnterHall, MoveSelf, MoveChessHandle, ReconcileAll, AgainSelf, GameAgainHandle
  <2>4. ASSUME NEW u \in Users, NEW l, CaptureSelf(u, l),
               l \in SeatsWith(seat[currChessBoard[u]], status, {PLAYING}) \ {locate[u]}
        PROVE  Moved
    BY <1>1, <2>4, CapturePays
  <2>5. ASSUME NEW u \in Users, UndoAccept(u) PROVE Moved
    BY <1>1, <2>5, UndoPays
  <2>6. ASSUME NEW u \in Users, GiveUpSelf(u) \/ ExitSelf(u) PROVE Moved
    <3>1. currChessBoard[u] # NoBoard
          /\ \/ LeaveRoomHandle(currChessBoard[u], u, status, TRUE)
             \/ LeaveRoomHandle(currChessBoard[u], u, status, FALSE)
      BY <2>6 DEF GiveUpSelf, ExitSelf, InPlay
    <3>2. QED BY <1>1, <3>1, LeavingPays
  <2>7. ASSUME NEW u \in Users, Disconnect(u) PROVE Moved
    <3>1. CASE currChessBoard[u] = NoBoard
      BY <2>7, <3>1 DEF Disconnect, DestructResource
    <3>2. CASE currChessBoard[u] # NoBoard
      <4>1. LeaveRoomHandle(currChessBoard[u], u, status, TRUE)
        BY <2>7, <3>2 DEF Disconnect, DestructResource
      <4>2. QED BY <1>1, <3>2, <4>1, LeavingPays
    <3>3. QED BY <3>1, <3>2
  <2>8. QED BY <2>1, <2>2, <2>3, <2>4, <2>5, <2>6, <2>7 DEF PlaySelfNext
<1>2. [Moved]_vars =>
        [up' => \/ UNCHANGED score
                \/ \E w, v \in Users :
                      /\ w # v /\ currChessBoard[w] = currChessBoard[v]
                      /\ currChessBoard[w] # NoBoard
                      /\ score' = [score EXCEPT ![w] = (@ + 10) % ScoreMod,
                                               ![v] = (@ - 10) % ScoreMod]
                \/ \E u \in Users :
                      /\ status[u] = PLAYING /\ status'[u] # PLAYING
                      /\ LET others == {w \in Users \ {u} :
                                         /\ currChessBoard[w] = currChessBoard[u]
                                         /\ status[w] = PLAYING}
                         IN  score' = [w \in Users |->
                                         IF w = u THEN (score[w] - 30) % ScoreMod
                                         ELSE IF others = {w} THEN (score[w] + 10) % ScoreMod
                                         ELSE score[w]]]_vars
  BY DEF Paid, WalkedOut
<1>3. QED BY <1>1, <1>2, PlayInvariance, GamesInvariance, PairInvariance, PTL
          DEF PlaySpec, ScoresConserved

-----------------------------------------------------------------------------
(* The refinement of BoardSpec.  What its variables stand for, told by the *)
(* sessions: who is at a board, who of them is in the game, and that the   *)
(* turn is a player's who is not alone.                                    *)
Viewed ==
    \A b \in Boards :
       /\ Seated(seat[b]) = UsersAt(b)
       /\ PlayersAt(b) = UsersInGame(b)
       /\ Cardinality(UsersAt(b)) = currUserNum[b]
       /\ UsersInGame(b) = {} => TurnAt(b) = NoUser
       /\ UsersInGame(b) # {} => /\ TurnAt(b) = seat[b][token[b]]
                                 /\ token[b] \in Locations
                                 /\ TurnAt(b) \in UsersInGame(b)
                                 /\ UsersInGame(b) \ {TurnAt(b)} # {}

(* As many users are at a board as seats are taken.                        *)
LEMMA UsersAreCounted ==
    ASSUME IInv, NEW b \in Boards
    PROVE  Cardinality(UsersAt(b)) = currUserNum[b]
<1> DEFINE S == Occupied(seat[b])
           T == UsersAt(b)
           f == [l \in S |-> seat[b][l]]
<1>1. T = Seated(seat[b])
  BY SeatsOfPlayers
<1>2. f \in [S -> T]
  BY <1>1 DEF Seated
<1>3. \A l, k \in S : f[l] = f[k] => l = k
  BY DEF Occupied, IInv, SeatsAndSessionsAgree
<1>4. \A v \in T : \E l \in S : f[l] = v
  BY <1>1 DEF Seated
<1> HIDE DEF S, T, f
<1>5. f \in Bijection(S, T)
  BY <1>2, <1>3, <1>4 DEF Bijection, Injection, Surjection, IsInjective
<1>6. ExistsBijection(S, T)
  BY <1>5 DEF ExistsBijection
<1>7. IsFiniteSet(S)
  BY OccupiedRange DEF S
<1>8. Cardinality(T) = Cardinality(S)
  BY <1>6, <1>7, FS_Bijection
<1>9. QED BY <1>8 DEF S, T, IInv, CountMatchesSeats

(* The view holds wherever games run on: the token names the player whose  *)
(* turn it is, and the seats give the users back.                          *)
LEMMA ViewedAlways == IInv /\ GamesRunOn => Viewed
<1> SUFFICES ASSUME IInv, GamesRunOn, NEW b \in Boards
             PROVE  /\ Seated(seat[b]) = UsersAt(b)
                    /\ PlayersAt(b) = UsersInGame(b)
                    /\ Cardinality(UsersAt(b)) = currUserNum[b]
                    /\ UsersInGame(b) = {} => TurnAt(b) = NoUser
                    /\ UsersInGame(b) # {} => /\ TurnAt(b) = seat[b][token[b]]
                                              /\ token[b] \in Locations
                                              /\ TurnAt(b) \in UsersInGame(b)
                                              /\ UsersInGame(b) \ {TurnAt(b)} # {}
  BY DEF Viewed
<1> DEFINE playing == SeatsWith(seat[b], status, {PLAYING})
<1>1. /\ Seated(seat[b]) = UsersAt(b)
      /\ PlayersAt(b) = UsersInGame(b)
      /\ \A l \in Locations : l \in playing <=> seat[b][l] \in UsersInGame(b)
      /\ \A u \in UsersAt(b) : locate[u] \in Locations /\ seat[b][locate[u]] = u
  BY SeatsOfPlayers
<1>2. ASSUME UsersInGame(b) # {}
      PROVE  /\ TurnAt(b) = seat[b][token[b]] /\ token[b] \in Locations
             /\ TurnAt(b) \in UsersInGame(b) /\ UsersInGame(b) \ {TurnAt(b)} # {}
  <2>1. TurnAt(b) = seat[b][token[b]]
    BY <1>1, <1>2 DEF TurnAt
  <2>2. playing # {} /\ playing \subseteq Locations
    BY <1>1, <1>2 DEF UsersInGame, SeatsWith
  <2>3. token[b] \in playing /\ playing \ {token[b]} # {}
    BY <2>2 DEF GamesRunOn, RunsOn
  <2>4. TurnAt(b) \in UsersInGame(b)
    BY <1>1, <2>1, <2>2, <2>3
  <2>5. PICK l \in playing : l # token[b]
    BY <2>3
  <2>6. seat[b][l] \in UsersInGame(b)
    BY <1>1, <2>2, <2>5
  <2>7. seat[b][l] # seat[b][token[b]]
    <3>1. seat[b][l] # NoUser
      BY <2>5 DEF SeatsWith
    <3>2. QED BY <2>2, <2>3, <2>5, <3>1 DEF IInv, SeatsAndSessionsAgree
  <2>8. QED BY <2>1, <2>2, <2>3, <2>4, <2>6, <2>7
<1>3. UsersInGame(b) = {} => TurnAt(b) = NoUser
  BY <1>1 DEF TurnAt
<1>4. QED BY <1>1, <1>2, <1>3, UsersAreCounted

-----------------------------------------------------------------------------
(* A step leaves the view of board c as it was.                            *)
SameAt(c) ==
    /\ UsersAt(c)' = UsersAt(c)
    /\ UsersInGame(c)' = UsersInGame(c)
    /\ TurnAt(c)' = TurnAt(c)

(* A step that moves users between board b and no board and changes the    *)
(* status of no others is not seen at the other boards.                    *)
LEMMA SeenAtOne ==
    ASSUME Viewed, Viewed', NEW b \in Boards,
           \A c \in Boards \ {b} : seat'[c] = seat[c] /\ token'[c] = token[c],
           \A v \in Users : v \notin UsersAt(b) /\ v \notin UsersAt(b)' =>
              currChessBoard'[v] = currChessBoard[v] /\ status'[v] = status[v],
           \A v \in Users : v \in UsersAt(b) \cup UsersAt(b)' =>
              {currChessBoard[v], currChessBoard'[v]} \subseteq {b, NoBoard}
    PROVE  \A c \in Boards \ {b} : SameAt(c)
<1> SUFFICES ASSUME NEW c \in Boards \ {b} PROVE SameAt(c)
  OBVIOUS
<1>1. c # NoBoard
  BY NullAssumption
<1>2. \A v \in Users : currChessBoard[v] = c <=> currChessBoard'[v] = c
  BY <1>1
<1>3. \A v \in Users : currChessBoard[v] = c => status'[v] = status[v]
  BY <1>1, <1>2
<1>4. UsersAt(c)' = UsersAt(c)
  BY <1>2 DEF UsersAt
<1>5. UsersInGame(c)' = UsersInGame(c)
  BY <1>3, <1>4 DEF UsersInGame, UsersAt
<1>6. TurnAt(c)' = TurnAt(c)
  BY <1>5 DEF Viewed
<1>7. QED BY <1>4, <1>5, <1>6 DEF SameAt

-----------------------------------------------------------------------------
(* What a step at board b does, in the words of BoardSpec.                 *)
SeenSitDown(b) ==
    /\ \E u \in Users : /\ \A c \in Boards : u \notin UsersAt(c)
                        /\ UsersAt(b)' = UsersAt(b) \cup {u}
    /\ Cardinality(UsersAt(b)) < 3
    /\ UsersInGame(b) = {} /\ UsersInGame(b)' = {}

SeenStart(b) ==
    /\ UsersInGame(b) = {} /\ Cardinality(UsersAt(b)) = 3
    /\ UsersAt(b)' = UsersAt(b)
    /\ UsersInGame(b)' = UsersAt(b) /\ UsersInGame(b)' # {}

SeenMove(b) ==
    /\ UsersAt(b)' = UsersAt(b)
    /\ UsersInGame(b)' = UsersInGame(b)
    /\ TurnAt(b)' \in UsersInGame(b) \ {TurnAt(b)}

SeenBeat(b) ==
    /\ UsersAt(b)' = UsersAt(b)
    /\ \E v \in UsersInGame(b) \ {TurnAt(b)} :
          LET others == UsersInGame(b) \ {TurnAt(b), v}
          IN  IF others = {}
                THEN UsersInGame(b)' = {}
                ELSE /\ UsersInGame(b)' = UsersInGame(b) \ {v}
                     /\ TurnAt(b)' \in others

SeenTakeBack(b) ==
    /\ UsersAt(b)' = UsersAt(b)
    /\ UsersInGame(b) # {}
    /\ \E v \in UsersAt(b) : UsersInGame(b)' = UsersInGame(b) \cup {v}
    /\ TurnAt(b)' = TurnAt(b)

SeenEnd(b) ==
    /\ UsersAt(b)' = UsersAt(b)
    /\ UsersInGame(b) # {} /\ UsersInGame(b)' = {}

SeenLeave(b) ==
    \E u \in UsersAt(b) :
       /\ UsersAt(b)' = UsersAt(b) \ {u}
       /\ IF u \in UsersInGame(b)
            THEN UsersInGame(b)' = {}
            ELSE UsersInGame(b)' = UsersInGame(b) /\ TurnAt(b)' = TurnAt(b)

Seen(b) ==
    /\ \A c \in Boards \ {b} : SameAt(c)
    /\ \/ SameAt(b) \/ SeenSitDown(b) \/ SeenStart(b) \/ SeenMove(b) \/ SeenBeat(b)
       \/ SeenTakeBack(b) \/ SeenEnd(b) \/ SeenLeave(b)

(* A step in which nobody changes his board and nobody elsewhere his status*)
(* is seen at board b only.                                                *)
LEMMA SeenHere ==
    ASSUME Viewed, Viewed', NEW b \in Boards,
           UNCHANGED << currChessBoard, seat >>,
           \A c \in Boards \ {b} : token'[c] = token[c],
           \A v \in Users \ UsersAt(b) : status'[v] = status[v]
    PROVE  UsersAt(b)' = UsersAt(b) /\ \A c \in Boards \ {b} : SameAt(c)
<1>1. UsersAt(b)' = UsersAt(b)
  BY DEF UsersAt
<1>2. \A v \in UsersAt(b) : {currChessBoard[v], currChessBoard'[v]} \subseteq {b, NoBoard}
  BY DEF UsersAt
<1>3. QED BY <1>1, <1>2, SeenAtOne

(* Nobody plays at a board where no game has begun.                        *)
LEMMA NotBegan ==
    ASSUME IInv, NEW b \in Boards, ~GameBegan(b)
    PROVE  UsersInGame(b) = {}
<1>1. \A u \in UsersAt(b) : locate[u] \in Locations /\ seat[b][locate[u]] = u
  BY SeatsOfPlayers
<1>2. SeatsWith(seat[b], status, {PLAYING, ENDED}) = {}
  BY DEF GameBegan
<1>3. QED BY <1>1, <1>2, NullAssumption DEF SeatsWith, UsersInGame, UsersAt

(* A request for a seat that is granted.                                   *)
LEMMA JoinSeen ==
    ASSUME IInv, Viewed, Viewed', NEW u \in Users, NEW b \in Boards, NEW l \in Locations,
           GameRequestAccepted(u, b, l)
    PROVE  Seen(b)
<1>1. /\ seat' = [seat EXCEPT ![b][l] = u] /\ status' = [status EXCEPT ![u] = READY]
      /\ currChessBoard' = [currChessBoard EXCEPT ![u] = b]
      /\ token' = token /\ ~GameBegan(b) /\ ~HasFullUsers(b)
      /\ currChessBoard[u] = NoBoard
  BY DEF GameRequestAccepted, CanAddUser, IInv, SeatsAndSessionsAgree
<1>2. /\ currChessBoard \in [Users -> Boards \cup {NoBoard}]
      /\ status \in [Users -> Statuses] /\ currUserNum[b] \in 0 .. 3
  BY DEF IInv, TypeOK
<1>3. \A v \in Users : v # u => currChessBoard'[v] = currChessBoard[v] /\ status'[v] = status[v]
  BY <1>1, <1>2
<1>4. currChessBoard'[u] = b /\ status'[u] # PLAYING
  BY <1>1, <1>2 DEF READY, PLAYING
<1>5. UsersAt(b)' = UsersAt(b) \cup {u}
  BY <1>3, <1>4 DEF UsersAt
<1>6. UsersInGame(b) = {}
  BY <1>1, NotBegan
<1>7. UsersInGame(b)' = {}
  BY <1>3, <1>4, <1>6 DEF UsersInGame, UsersAt
<1>8. \A c \in Boards : u \notin UsersAt(c)
  BY <1>1, NullAssumption DEF UsersAt
<1>9. Cardinality(UsersAt(b)) < 3
  BY <1>1, <1>2 DEF Viewed, HasFullUsers
<1>10. \A c \in Boards \ {b} : seat'[c] = seat[c] /\ token'[c] = token[c]
  BY <1>1 DEF IInv, TypeOK
<1>11. \A c \in Boards \ {b} : SameAt(c)
  <2>1. \A v \in Users : v \in UsersAt(b) \cup UsersAt(b)' =>
           {currChessBoard[v], currChessBoard'[v]} \subseteq {b, NoBoard}
    BY <1>1, <1>3, <1>4, <1>5 DEF UsersAt
  <2>2. \A v \in Users : v \notin UsersAt(b) /\ v \notin UsersAt(b)' =>
           currChessBoard'[v] = currChessBoard[v] /\ status'[v] = status[v]
    BY <1>3, <1>5
  <2>3. QED BY <1>10, <2>1, <2>2, SeenAtOne
<1>12. QED BY <1>5, <1>6, <1>7, <1>8, <1>9, <1>11 DEF Seen, SeenSitDown

(* Getting ready: the third one starts the game, others are not seen.      *)
LEMMA ReadySeen ==
    ASSUME IInv, Viewed, Viewed', NEW u \in Users, NEW t, MayGetReady(u), ReadySelf(u, t)
    PROVE  \E b \in Boards : Seen(b)
<1> PICK b : b = currChessBoard[u]
  OBVIOUS
<1> DEFINE st == WithStatus(status, {u}, BEGAN)
           began == SeatsWith(seat[b], st, {BEGAN})
<1>1. currChessBoard[u] # NoBoard /\ UNCHANGED << seat, currChessBoard >>
  BY DEF ReadySelf, GameReadyHandle, InPlay
<1>2. b \in Boards /\ u \in UsersAt(b)
  BY <1>1, InPlayIsSeated DEF UsersAt
<1>3. status \in [Users -> Statuses] /\ st \in [Users -> Statuses]
      /\ \A v \in Users : v # u => st[v] = status[v]
  BY StatusConstants DEF WithStatus, IInv, TypeOK
<1>4. \A c \in Boards \ {b} : token'[c] = token[c]
  BY <1>2 DEF ReadySelf, GameReadyHandle, IInv, TypeOK
<1>5. status' = IF Cardinality(began) = 3 THEN WithStatus(st, UsersAt(b), PLAYING) ELSE st
  BY <1>2, SeatsOfPlayers DEF ReadySelf, GameReadyHandle
<1>6. UsersInGame(b) = {}
  <2>1. SeatsWith(seat[b], status, {PLAYING}) = {}
    BY DEF MayGetReady
  <2>2. \A l \in Locations : seat[b][l] \notin UsersInGame(b)
    BY <1>2, <2>1, SeatsOfPlayers
  <2>3. \A v \in UsersAt(b) : locate[v] \in Locations /\ seat[b][locate[v]] = v
    BY <1>2, SeatsOfPlayers
  <2>4. QED BY <2>2, <2>3 DEF UsersInGame
<1>7. UsersAt(b)' = UsersAt(b) /\ \A c \in Boards \ {b} : SameAt(c)
  <2>1. \A v \in Users \ UsersAt(b) : status'[v] = status[v]
    BY <1>2, <1>3, <1>5 DEF WithStatus
  <2>2. QED BY <1>1, <1>2, <1>4, <2>1, SeenHere
<1>8. CASE Cardinality(began) = 3
  <2>1. Occupied(seat[b]) = Locations
    <3>1. began \subseteq Locations
      BY DEF SeatsWith
    <3>2. began = Locations
      BY <1>8, <3>1, ThreeSeats, FS_Subset
    <3>3. QED BY <3>2 DEF SeatsWith, Occupied
  <2>2. Cardinality(UsersAt(b)) = 3
    BY <1>2, <2>1, ThreeSeats, UsersAreCounted DEF IInv, CountMatchesSeats
  <2>3. \A v \in UsersAt(b) : status'[v] = PLAYING
    BY <1>5, <1>8 DEF WithStatus, UsersAt
  <2>4. UsersInGame(b)' = UsersAt(b)
    BY <1>7, <2>3 DEF UsersInGame
  <2>5. QED BY <1>2, <1>6, <1>7, <2>2, <2>4 DEF Seen, SeenStart
<1>9. CASE Cardinality(began) # 3
  <2>1. status' = st
    BY <1>5, <1>9
  <2>2. \A v \in UsersAt(b) : status'[v] # PLAYING
    BY <1>3, <1>6, <2>1 DEF UsersInGame, UsersAt, WithStatus, BEGAN, PLAYING
  <2>3. UsersInGame(b)' = {}
    BY <1>7, <2>2 DEF UsersInGame
  <2>4. TurnAt(b)' = TurnAt(b)
    BY <1>2, <1>6, <2>3 DEF Viewed
  <2>5. QED BY <1>2, <1>6, <1>7, <2>3, <2>4 DEF Seen, SameAt
<1>10. QED BY <1>8, <1>9

(* MoveChessHandle from the status st, seen from the users at the board:   *)
(* the turn goes to another of those who play, or the mover was the last.  *)
LEMMA AnnouncedSeen ==
    ASSUME IInv, NEW u \in Users, currChessBoard[u] # NoBoard,
           NEW st \in [Users -> Statuses], st[u] = PLAYING, AnnounceMove(currChessBoard[u], u, st),
           NEW b \in Boards, b = currChessBoard[u]
    PROVE  LET rest == {w \in UsersAt(b) \ {u} : st[w] = PLAYING}
           IN  /\ rest = {} => status' = [st EXCEPT ![u] = ENDED]
               /\ rest # {} => status' = st /\ seat[b][token'[b]] \in rest
               /\ \A c \in Boards \ {b} : token'[c] = token[c]
<1> DEFINE rest == {w \in UsersAt(b) \ {u} : st[w] = PLAYING}
           playing == SeatsWith(seat[b], st, {PLAYING})
           n == GetActiveUsersNum(seat[b], st)
           l == locate[u]
<1>1. l \in Locations /\ seat[b][l] = u
  BY InPlayIsSeated
<1>2. l \in playing
  BY <1>1, NullAssumption DEF SeatsWith
<1>3. n > 1 <=> playing \ {l} # {}
  BY <1>2, ActiveUsers
<1>4. token' = [token EXCEPT ![b] = IF n > 1 THEN TokenAfter(seat[b], st, l) ELSE "MAX"]
  BY DEF AnnounceMove
<1>5. status' = IF n > 1 THEN st ELSE [st EXCEPT ![u] = ENDED]
  BY DEF AnnounceMove
<1>6. token'[b] = IF n > 1 THEN TokenAfter(seat[b], st, l) ELSE "MAX"
  BY <1>4 DEF IInv, TypeOK
<1>7. \A k \in playing \ {l} : seat[b][k] \in rest
  <2> SUFFICES ASSUME NEW k \in playing, k # l PROVE seat[b][k] \in rest
    OBVIOUS
  <2>1. k \in Locations /\ seat[b][k] # NoUser /\ st[seat[b][k]] = PLAYING
    BY DEF SeatsWith
  <2>2. seat[b][k] \in UsersAt(b) /\ seat[b][k] # u
    BY <1>1, <2>1 DEF UsersAt, IInv, TypeOK, SeatsAndSessionsAgree
  <2>3. QED BY <2>1, <2>2
<1>8. \A w \in rest : locate[w] \in playing \ {l}
  <2> SUFFICES ASSUME NEW w \in UsersAt(b), w # u, st[w] = PLAYING
               PROVE  locate[w] \in playing \ {l}
    OBVIOUS
  <2>1. locate[w] \in Locations /\ seat[b][locate[w]] = w /\ w # NoUser
    BY SeatsOfPlayers, NullAssumption DEF UsersAt
  <2>2. QED BY <1>1, <2>1 DEF SeatsWith
<1>9. \A c \in Boards \ {b} : token'[c] = token[c]
  BY <1>4 DEF IInv, TypeOK
<1>10. CASE rest = {}
  <2>1. ~(n > 1)
    BY <1>3, <1>7, <1>10
  <2>2. QED BY <1>5, <1>9, <1>10, <2>1
<1>11. CASE rest # {}
  <2>1. n > 1 /\ playing \ {l} # {}
    BY <1>3, <1>8, <1>11
  <2>2. token'[b] \in playing \ {l}
    BY <1>1, <1>6, <2>1, TokenReachesPlayer
  <2>3. QED BY <1>5, <1>7, <1>9, <1>11, <2>1, <2>2
<1>12. QED BY <1>10, <1>11

(* Where the holder of the token plays it is his turn.                     *)
LEMMA TurnIsHolders ==
    ASSUME IInv, Viewed, NEW u \in Users, currChessBoard[u] # NoBoard, HoldsToken(u)
    PROVE  LET b == currChessBoard[u]
           IN  u \in UsersInGame(b) /\ TurnAt(b) = u
<1>1. /\ currChessBoard[u] \in Boards /\ locate[u] \in Locations
      /\ seat[currChessBoard[u]][locate[u]] = u
  BY InPlayIsSeated
<1>2. u \in UsersInGame(currChessBoard[u])
  BY DEF UsersInGame, UsersAt, HoldsToken
<1>3. QED BY <1>1, <1>2 DEF Viewed, HoldsToken

(* A move without a capture.                                               *)
LEMMA MoveSeen ==
    ASSUME IInv, Viewed, Viewed', NEW u \in Users, HoldsToken(u), MoveSelf(u)
    PROVE  \E b \in Boards : Seen(b)
<1> PICK b : b = currChessBoard[u]
  OBVIOUS
<1> DEFINE rest == {w \in UsersAt(b) \ {u} : status[w] = PLAYING}
<1>1. /\ currChessBoard[u] # NoBoard /\ AnnounceMove(currChessBoard[u], u, status)
      /\ UNCHANGED << seat, currChessBoard >>
  BY DEF MoveSelf, MoveChessHandle, InPlay
<1>2. b \in Boards
  BY <1>1, InPlayIsSeated
<1>3. u \in UsersInGame(b) /\ TurnAt(b) = u /\ status \in [Users -> Statuses]
  BY <1>1, TurnIsHolders DEF IInv, TypeOK
<1>4. rest = UsersInGame(b) \ {u} /\ rest # {}
  BY <1>2, <1>3 DEF UsersInGame, Viewed
<1>5. /\ status' = status /\ seat[b][token'[b]] \in rest
      /\ \A c \in Boards \ {b} : token'[c] = token[c]
  BY <1>1, <1>2, <1>3, <1>4, AnnouncedSeen DEF UsersInGame
<1>6. UsersAt(b)' = UsersAt(b) /\ \A c \in Boards \ {b} : SameAt(c)
  BY <1>1, <1>2, <1>5, SeenHere
<1>7. UsersInGame(b)' = UsersInGame(b)
  BY <1>5, <1>6 DEF UsersInGame
<1>8. TurnAt(b)' \in UsersInGame(b) \ {TurnAt(b)}
  <2>1. UsersInGame(b)' # {}
    BY <1>3, <1>7
  <2>2. TurnAt(b)' = seat'[b][token'[b]]
    BY <1>2, <2>1 DEF Viewed
  <2>3. QED BY <1>1, <1>3, <1>4, <1>5, <2>2
<1>9. QED BY <1>2, <1>6, <1>7, <1>8 DEF Seen, SeenMove

(* A capture of another player.                                            *)
LEMMA CaptureSeen ==
    ASSUME IInv, Viewed, Viewed', NEW u \in Users, HoldsToken(u), NEW k, CaptureSelf(u, k),
           k \in SeatsWith(seat[currChessBoard[u]], status, {PLAYING}) \ {locate[u]}
    PROVE  \E b \in Boards : Seen(b)
<1> PICK b : b = currChessBoard[u]
  OBVIOUS
<1> PICK v : v = seat[b][k]
  OBVIOUS
<1> DEFINE st == [status EXCEPT ![v] = ENDED]
           rest == {w \in UsersAt(b) \ {u} : st[w] = PLAYING}
           others == UsersInGame(b) \ {u, v}
<1>1. /\ currChessBoard[u] # NoBoard /\ UNCHANGED << seat, currChessBoard >>
      /\ k \in Locations /\ k # locate[u] /\ v # NoUser /\ status[v] = PLAYING
  BY DEF CaptureSelf, CaptureHandle, InPlay, SeatsWith
<1>2. b \in Boards /\ seat[b][locate[u]] = u
  BY <1>1, InPlayIsSeated
<1>3. v \in UsersAt(b) /\ v \in Users /\ u # v
  BY <1>1, <1>2 DEF UsersAt, IInv, TypeOK, SeatsAndSessionsAgree
<1>4. u \in UsersInGame(b) /\ TurnAt(b) = u /\ v \in UsersInGame(b) \ {TurnAt(b)}
  BY <1>1, <1>3, TurnIsHolders DEF UsersInGame
<1>5. status \in [Users -> Statuses] /\ st \in [Users -> Statuses]
      /\ st[u] = PLAYING /\ st[v] # PLAYING
      /\ \A w \in Users : w # v => st[w] = status[w]
  BY <1>3, <1>4, StatusConstants DEF IInv, TypeOK, UsersInGame, ENDED, PLAYING
<1>6. AnnounceMove(currChessBoard[u], u, st)
  BY <1>1 DEF GetUserByLocation, Locations, CaptureSelf, CaptureHandle
<1> HIDE DEF st
<1>7. rest = others
  BY <1>5 DEF UsersInGame, UsersAt
<1>8. /\ rest = {} => status' = [st EXCEPT ![u] = ENDED]
      /\ rest # {} => status' = st /\ seat[b][token'[b]] \in rest
      /\ \A c \in Boards \ {b} : token'[c] = token[c]
  BY <1>1, <1>2, <1>5, <1>6, AnnouncedSeen
<1>9. UsersAt(b)' = UsersAt(b) /\ \A c \in Boards \ {b} : SameAt(c)
  <2>1. \A w \in Users \ UsersAt(b) : status'[w] = status[w]
    BY <1>3, <1>4, <1>5, <1>8 DEF UsersInGame
  <2>2. QED BY <1>1, <1>2, <1>8, <2>1, SeenHere
<1> HIDE DEF rest
<1>10. CASE others = {}
  <2>1. \A w \in UsersAt(b) : status'[w] # PLAYING
    BY <1>3, <1>5, <1>7, <1>8, <1>10 DEF UsersInGame, UsersAt, ENDED, PLAYING
  <2>2. UsersInGame(b)' = {}
    BY <1>9, <2>1 DEF UsersInGame
  <2>3. SeenBeat(b)
    BY <1>4, <1>9, <1>10, <2>2 DEF SeenBeat
  <2>4. QED BY <1>2, <1>9, <2>3 DEF Seen
<1>11. CASE others # {}
  <2>1. status' = st /\ seat[b][token'[b]] \in others
    BY <1>7, <1>8, <1>11
  <2>2. UsersInGame(b)' = UsersInGame(b) \ {v}
    BY <1>5, <1>9, <2>1 DEF UsersInGame, UsersAt
  <2>3. UsersInGame(b)' # {}
    BY <1>11, <2>2
  <2>4. TurnAt(b)' = seat'[b][token'[b]]
    BY <1>2, <2>3 DEF Viewed
  <2>5. TurnAt(b)' \in others
    BY <1>1, <2>1, <2>4
  <2>6. SeenBeat(b)
    BY <1>4, <1>9, <1>11, <2>2, <2>5 DEF SeenBeat
  <2>7. QED BY <1>2, <1>9, <2>6 DEF Seen
<1>12. QED BY <1>10, <1>11

(* A draw ends the game for everybody at the board.                        *)
LEMMA DrawSeen ==
    ASSUME IInv, Viewed, Viewed', NEW u \in Users, status[u] = PLAYING, ReconcileAll(u)
    PROVE  \E b \in Boards : Seen(b)
<1> PICK b : b = currChessBoard[u]
  OBVIOUS
<1>1. currChessBoard[u] # NoBoard /\ UNCHANGED << seat, currChessBoard, token >>
  BY DEF ReconcileAll, InPlay
<1>2. b \in Boards /\ u \in UsersInGame(b)
  BY <1>1, InPlayIsSeated DEF UsersInGame, UsersAt
<1>3. status' = WithStatus(status, UsersAt(b), ENDED)
  BY <1>2, SeatsOfPlayers DEF ReconcileAll
<1>4. \A v \in Users \ UsersAt(b) : status'[v] = status[v]
  BY <1>3 DEF WithStatus
<1>5. UsersAt(b)' = UsersAt(b) /\ \A c \in Boards \ {b} : SameAt(c)
  BY <1>1, <1>2, <1>4, SeenHere
<1>6. \A v \in UsersAt(b) : status'[v] # PLAYING
  BY <1>3 DEF WithStatus, UsersAt, ENDED, PLAYING
<1>7. UsersInGame(b)' = {}
  BY <1>5, <1>6 DEF UsersInGame
<1>8. QED BY <1>2, <1>5, <1>7 DEF Seen, SeenEnd

(* An undo the players agree on: who was beaten last is in the game again, *)
(* or, where the winner or the loser has left the board, nothing is seen.  *)
LEMMA UndoSeen ==
    ASSUME IInv, Viewed, Viewed', NEW u \in Users, status[u] = PLAYING, UndoAccept(u)
    PROVE  \E b \in Boards : Seen(b)
<1> PICK b : b = currChessBoard[u]
  OBVIOUS
<1> PICK v : v = GetUserByLocation(b, recent_loser[b])
  OBVIOUS
<1>1. currChessBoard[u] # NoBoard /\ UNCHANGED << seat, currChessBoard, token >>
  BY DEF UndoAccept, InPlay
<1>2. b \in Boards /\ u \in UsersInGame(b)
  BY <1>1, InPlayIsSeated DEF UsersInGame, UsersAt
<1>3. recent_loser[b] \in LocationOrMax
  BY <1>2 DEF IInv, TypeOK
<1>4. status' = status \/ (v # NoUser /\ status' = [status EXCEPT ![v] = PLAYING])
  BY DEF UndoAccept, UndoPayback
<1>5. v # NoUser => v \in UsersAt(b)
  BY <1>2, <1>3, FoundPlays DEF UsersAt
<1>6. status \in [Users -> Statuses]
  BY DEF IInv, TypeOK
<1>7. \A w \in Users \ UsersAt(b) : status'[w] = status[w]
  BY <1>4, <1>5, <1>6
<1>8. UsersAt(b)' = UsersAt(b) /\ \A c \in Boards \ {b} : SameAt(c)
  BY <1>1, <1>2, <1>7, SeenHere
<1>9. UsersInGame(b)' # {} => TurnAt(b)' = TurnAt(b)
  BY <1>1, <1>2 DEF Viewed
<1>10. CASE status' = status
  <2>1. UsersInGame(b)' = UsersInGame(b)
    BY <1>8, <1>10 DEF UsersInGame
  <2>2. QED BY <1>2, <1>8, <1>9, <2>1 DEF Seen, SameAt
<1>11. CASE v # NoUser /\ status' = [status EXCEPT ![v] = PLAYING]
  <2>1. v \in Users
    BY <1>5, <1>11 DEF UsersAt
  <2>2. status'[v] = PLAYING /\ \A w \in Users : w # v => status'[w] = status[w]
    BY <1>6, <1>11, <2>1
  <2>3. UsersInGame(b)' = UsersInGame(b) \cup {v}
    BY <1>5, <1>8, <1>11, <2>2 DEF UsersInGame, UsersAt
  <2>4. QED BY <1>2, <1>5, <1>8, <1>9, <1>11, <2>3 DEF Seen, SeenTakeBack
<1>12. QED BY <1>4, <1>10, <1>11

(* Steps in which nobody moves and nobody starts or stops to play are not  *)
(* seen at any board.                                                      *)
LEMMA NothingSeen ==
    ASSUME Viewed, Viewed', UNCHANGED << seat, currChessBoard, token >>,
           \A v \in Users : (status'[v] = PLAYING) <=> (status[v] = PLAYING)
    PROVE  \A c \in Boards : SameAt(c)
<1> SUFFICES ASSUME NEW c \in Boards PROVE SameAt(c)
  OBVIOUS
<1>1. UsersAt(c)' = UsersAt(c)
  BY DEF UsersAt
<1>2. UsersInGame(c)' = UsersInGame(c)
  BY <1>1 DEF UsersInGame, UsersAt
<1>3. TurnAt(c)' = TurnAt(c)
  BY <1>2 DEF Viewed
<1>4. QED BY <1>1, <1>2, <1>3 DEF SameAt

(* Whoever asks for another game is out of the old one already.            *)
LEMMA AgainSeen ==
    ASSUME IInv, Viewed, Viewed', NEW u \in Users, NEW d, AgainSelf(u, d)
    PROVE  \A c \in Boards : SameAt(c)
<1>1. /\ UNCHANGED << seat, currChessBoard, token >>
      /\ status[u] = ENDED /\ status' = [status EXCEPT ![u] = READY]
  BY DEF AgainSelf, GameAgainHandle
<1>2. \A v \in Users : (status'[v] = PLAYING) <=> (status[v] = PLAYING)
  BY <1>1 DEF IInv, TypeOK, READY, ENDED, PLAYING
<1>3. QED BY <1>1, <1>2, NothingSeen

(* A player who gives up and stays ends the game.                          *)
LEMMA GiveUpSeen ==
    ASSUME IInv, GamesRunOn, Viewed, Viewed', NEW u \in Users, status[u] = PLAYING, GiveUpSelf(u)
    PROVE  \E b \in Boards : Seen(b)
<1> PICK b : b = currChessBoard[u]
  OBVIOUS
<1>1. /\ currChessBoard[u] # NoBoard /\ UNCHANGED << currChessBoard, token >>
      /\ LeaveRoomHandle(currChessBoard[u], u, status, FALSE)
  BY DEF GiveUpSelf, InPlay
<1>2. b \in Boards /\ u \in UsersInGame(b)
  BY <1>1, InPlayIsSeated DEF UsersInGame, UsersAt
<1>3. seat' = seat
  BY <1>1, LeavingSeats
<1>4. /\ \A v \in Users \ UsersAt(b) : status'[v] = status[v]
      /\ \A v \in UsersAt(b) : status'[v] # PLAYING
  BY <1>1, LeavingEffects
<1>5. UsersAt(b)' = UsersAt(b) /\ \A c \in Boards \ {b} : SameAt(c)
  BY <1>1, <1>2, <1>3, <1>4, SeenHere
<1>6. UsersInGame(b)' = {}
  BY <1>4, <1>5 DEF UsersInGame
<1>7. QED BY <1>2, <1>5, <1>6 DEF Seen, SeenEnd

(* Leaving the board, by the user's own will or with his connection.       *)
LEMMA LeaveSeen ==
    ASSUME IInv, GamesRunOn, Viewed, Viewed', NEW u \in Users, currChessBoard[u] # NoBoard,
           LeaveRoomHandle(currChessBoard[u], u, status, TRUE), token' = token,
           currChessBoard' = [currChessBoard EXCEPT ![u] = NoBoard]
    PROVE  \E b \in Boards : Seen(b)
<1> PICK b : b = currChessBoard[u]
  OBVIOUS
<1>1. /\ b \in Boards /\ u \in UsersAt(b) /\ locate[u] \in Locations
      /\ seat[b][locate[u]] = u
  BY InPlayIsSeated DEF UsersAt
<1>2. /\ \A l \in Locations : l # locate[u] => seat'[b][l] = seat[b][l]
      /\ \A c \in Boards \ {b} : seat'[c] = seat[c]
  BY LeavingSeats
<1>3. /\ \A v \in Users \ UsersAt(b) : status'[v] = status[v]
      /\ status[u] = PLAYING => \A v \in UsersAt(b) : status'[v] # PLAYING
      /\ status[u] # PLAYING => \A v \in Users \ {u} : status'[v] = status[v]
  BY LeavingEffects
<1>4. /\ currChessBoard'[u] = NoBoard
      /\ \A v \in Users : v # u => currChessBoard'[v] = currChessBoard[v]
  BY DEF IInv, TypeOK
<1>5. UsersAt(b)' = UsersAt(b) \ {u}
  BY <1>1, <1>4, NullAssumption DEF UsersAt
<1>6. \A c \in Boards \ {b} : SameAt(c)
  <2>1. \A v \in Users : v \in UsersAt(b) \cup UsersAt(b)' =>
           {currChessBoard[v], currChessBoard'[v]} \subseteq {b, NoBoard}
    BY <1>4, <1>5 DEF UsersAt
  <2>2. \A v \in Users : v \notin UsersAt(b) /\ v \notin UsersAt(b)' =>
           currChessBoard'[v] = currChessBoard[v] /\ status'[v] = status[v]
    BY <1>1, <1>3, <1>4
  <2>3. QED BY <1>1, <1>2, <2>1, <2>2, SeenAtOne
<1>7. CASE status[u] = PLAYING
  <2>1. u \in UsersInGame(b)
    BY <1>1, <1>7 DEF UsersInGame
  <2>2. UsersInGame(b)' = {}
    BY <1>3, <1>5, <1>7 DEF UsersInGame
  <2>3. SeenLeave(b)
    BY <1>1, <1>5, <2>1, <2>2 DEF SeenLeave
  <2>4. QED BY <1>1, <1>6, <2>3 DEF Seen
<1>8. CASE status[u] # PLAYING
  <2>1. u \notin UsersInGame(b)
    BY <1>8 DEF UsersInGame
  <2>2. UsersInGame(b)' = UsersInGame(b)
    BY <1>3, <1>5, <1>8, <2>1 DEF UsersInGame, UsersAt
  <2>3. TurnAt(b)' = TurnAt(b)
    <3>1. CASE UsersInGame(b) = {}
      BY <1>1, <2>2, <3>1 DEF Viewed
    <3>2. CASE UsersInGame(b) # {}
      <4>1. token[b] \in Locations /\ TurnAt(b) = seat[b][token[b]] /\ TurnAt(b) # u
        BY <1>1, <2>1, <3>2 DEF Viewed
      <4>2. seat'[b][token[b]] = seat[b][token[b]]
        BY <1>1, <1>2, <4>1
      <4>3. TurnAt(b)' = seat'[b][token'[b]]
        BY <1>1, <2>2, <3>2 DEF Viewed
      <4>4. QED BY <4>1, <4>2, <4>3
    <3>3. QED BY <3>1, <3>2
  <2>4. SeenLeave(b)
    BY <1>1, <1>5, <2>1, <2>2, <2>3 DEF SeenLeave
  <2>5. QED BY <1>1, <1>6, <2>4 DEF Seen
<1>9. QED BY <1>7, <1>8

-----------------------------------------------------------------------------
(* Every step of clients that keep to the rules is seen as a step of       *)
(* BoardSpec at one board, or is not seen at all.                          *)
LEMMA EveryStepSeen ==
    ASSUME LateUndo = FALSE, IInv, GamesRunOn, Viewed, Viewed', [PlayNext]_vars
    PROVE  (\E b \in Boards : Seen(b)) \/ (\A c \in Boards : SameAt(c))
<1> DEFINE Goal == (\E b \in Boards : Seen(b)) \/ (\A c \in Boards : SameAt(c))
<1>1. ASSUME UNCHANGED << seat, currChessBoard, token, status >> PROVE Goal
  BY <1>1, NothingSeen
<1>2. CASE UNCHANGED vars
  BY <1>1, <1>2 DEF vars
<1>3. ASSUME NEW u \in Users, EnterHall(u) PROVE Goal
  BY <1>1, <1>3 DEF EnterHall
<1>4. ASSUME NEW u \in Users, NEW b \in Boards, NEW l \in Locations,
             GameRequestRefused(u, b, l) \/ GameRequestAccepted(u, b, l)
      PROVE  Goal
  <2>1. CASE GameRequestRefused(u, b, l)
    BY <1>1, <2>1 DEF GameRequestRefused
  <2>2. CASE GameRequestAccepted(u, b, l)
    BY <2>2, JoinSeen
  <2>3. QED BY <1>4, <2>1, <2>2
<1>5. ASSUME NEW u \in Users, NEW t \in Times \cup {NoTimes},
             MayGetReady(u), ReadySelf(u, t)
      PROVE  Goal
  BY <1>5, ReadySeen
<1>6. ASSUME NEW u \in Users, HoldsToken(u), MoveSelf(u) PROVE Goal
  BY <1>6, MoveSeen
<1>7. ASSUME NEW u \in Users, NEW l \in Locations, HoldsToken(u), CaptureSelf(u, l),
             l \in SeatsWith(seat[currChessBoard[u]], status, {PLAYING}) \ {locate[u]}
      PROVE  Goal
  BY <1>7, CaptureSeen
<1>8. ASSUME NEW u \in Users, status[u] = PLAYING, ReconcileAll(u) PROVE Goal
  BY <1>8, DrawSeen
<1>9. ASSUME NEW u \in Users, MayUndo(u), UndoAccept(u) PROVE Goal
  BY <1>9, UndoSeen DEF MayUndo
<1>10. ASSUME NEW u \in Users, NEW c, AgainSelf(u, c) PROVE Goal
  BY <1>10, AgainSeen
<1>11. ASSUME NEW u \in Users, status[u] = PLAYING, GiveUpSelf(u) PROVE Goal
  BY <1>11, GiveUpSeen
<1>12. ASSUME NEW u \in Users, ExitSelf(u) PROVE Goal
  BY <1>12, LeaveSeen DEF ExitSelf, InPlay
<1>13. ASSUME NEW u \in Users, Disconnect(u) PROVE Goal
  <2>1. CASE currChessBoard[u] = NoBoard
    <3>1. UNCHANGED << seat, token, status >>
          /\ currChessBoard' = [currChessBoard EXCEPT ![u] = NoBoard]
      BY <1>13, <2>1 DEF Disconnect, DestructResource
    <3>2. currChessBoard' = currChessBoard
      BY <2>1, <3>1 DEF IInv, TypeOK
    <3>3. QED BY <1>1, <3>1, <3>2
  <2>2. CASE currChessBoard[u] # NoBoard
    BY <1>13, <2>2, LeaveSeen DEF Disconnect, DestructResource
  <2>3. QED BY <2>1, <2>2
<1> HIDE DEF Goal
<1>14. ASSUME PlaySelfNext PROVE Goal
  BY <1>3, <1>4, <1>5, <1>6, <1>7, <1>8, <1>9, <1>10, <1>11, <1>12, <1>13, <1>14
     DEF PlaySelfNext
<1>15. QED BY <1>2, <1>14, PlaysForSelf DEF Goal

(* What BoardSpec's variables become in a step that is seen at board b only*)
(* are the old functions with one new value each.                          *)
LEMMA ViewAfter ==
    ASSUME Viewed, Viewed', NEW b \in Boards, \A c \in Boards \ {b} : SameAt(c)
    PROVE  LET sit == [c \in Boards |-> UsersAt(c)]
               pl == [c \in Boards |-> UsersInGame(c)]
               tu == [c \in Boards |-> TurnAt(c)]
           IN  /\ [c \in Boards |-> Seated(seat[c])] = sit
               /\ [c \in Boards |-> Seated(seat[c])]' = [sit EXCEPT ![b] = UsersAt(b)']
               /\ [c \in Boards |-> PlayersAt(c)] = pl
               /\ [c \in Boards |-> PlayersAt(c)]' = [pl EXCEPT ![b] = UsersInGame(b)']
               /\ [c \in Boards |-> TurnAt(c)]' = [tu EXCEPT ![b] = TurnAt(b)']
<1>1. \A c \in Boards : Seated(seat[c]) = UsersAt(c) /\ PlayersAt(c) = UsersInGame(c)
  BY DEF Viewed
<1>2. \A c \in Boards : Seated(seat'[c]) = UsersAt(c)' /\ PlayersAt(c)' = UsersInGame(c)'
  BY DEF Viewed
<1>3. \A c \in Boards : c # b => /\ UsersAt(c)' = UsersAt(c)
                                 /\ UsersInGame(c)' = UsersInGame(c)
                                 /\ TurnAt(c)' = TurnAt(c)
  BY DEF SameAt
<1>4. QED BY <1>1, <1>2, <1>3

(* BoardSpec counts the users at a board the way ChessBoard does.          *)
LEMMA SameCount == \A S : Promise!Cardinality(S) = Cardinality(S)
BY DEF Promise!Cardinality, Cardinality

(* A step that is seen at a board is a step BoardSpec allows.              *)
LEMMA SeenIsPromised ==
    ASSUME Viewed, Viewed', NEW b \in Boards, Seen(b)
    PROVE  Promise!Next \/ UNCHANGED << [c \in Boards |-> Seated(seat[c])],
                                        [c \in Boards |-> PlayersAt(c)],
                                        [c \in Boards |-> TurnAt(c)] >>
<1> DEFINE sit == [c \in Boards |-> Seated(seat[c])]
           pl == [c \in Boards |-> PlayersAt(c)]
           tu == [c \in Boards |-> TurnAt(c)]
<1>1. /\ sit' = [sit EXCEPT ![b] = UsersAt(b)']
      /\ pl' = [pl EXCEPT ![b] = UsersInGame(b)']
      /\ tu' = [tu EXCEPT ![b] = TurnAt(b)']
  BY ViewAfter DEF Seen
<1>2. /\ \A c \in Boards : sit[c] = UsersAt(c)
      /\ pl[b] = UsersInGame(b) /\ tu[b] = TurnAt(b)
  BY DEF Viewed
<1>3. sit = [sit EXCEPT ![b] = sit[b]] /\ pl = [pl EXCEPT ![b] = pl[b]]
      /\ tu = [tu EXCEPT ![b] = tu[b]]
  OBVIOUS
<1>4. /\ UsersInGame(b) = {} => TurnAt(b) = NoUser
      /\ UsersInGame(b)' = {} => TurnAt(b)' = NoUser
      /\ UsersInGame(b)' # {} => TurnAt(b)' \in UsersInGame(b)'
  BY DEF Viewed
<1>5. \A c \in Boards : UsersAt(c) \subseteq Users /\ UsersInGame(c) \subseteq Users
  BY DEF UsersAt, UsersInGame
<1>6. CASE SameAt(b)
  BY <1>1, <1>2, <1>3, <1>6 DEF SameAt
<1>7. CASE SeenSitDown(b)
  <2>1. PICK u \in Users : /\ \A c \in Boards : u \notin UsersAt(c)
                           /\ UsersAt(b)' = UsersAt(b) \cup {u}
    BY <1>7 DEF SeenSitDown
  <2>2. sit' = [sit EXCEPT ![b] = sit[b] \cup {u}] /\ pl' = pl /\ tu' = tu
    <3>1. UsersAt(b)' = sit[b] \cup {u} /\ UsersInGame(b)' = pl[b] /\ TurnAt(b)' = tu[b]
      BY <1>2, <1>4, <1>7, <2>1 DEF SeenSitDown
    <3> HIDE DEF sit, pl, tu
    <3>2. QED BY <1>1, <1>3, <3>1
  <2>3. /\ \A c \in Boards : u \notin sit[c]
        /\ Cardinality(sit[b]) < 3 /\ pl[b] = {}
    BY <1>2, <1>7, <2>1 DEF SeenSitDown
  <2>4. Promise!SitDown(u, b)
    BY <2>2, <2>3, SameCount DEF Promise!SitDown
  <2>5. QED BY <2>4 DEF Promise!Next
<1>8. CASE SeenStart(b)
  <2>1. pl[b] = {} /\ Cardinality(sit[b]) = 3 /\ sit' = sit
    BY <1>1, <1>2, <1>3, <1>8 DEF SeenStart
  <2>2. /\ TurnAt(b)' \in sit[b]
        /\ pl' = [pl EXCEPT ![b] = sit[b]] /\ tu' = [tu EXCEPT ![b] = TurnAt(b)']
    BY <1>1, <1>2, <1>4, <1>8 DEF SeenStart
  <2>3. Promise!Start(b)
    BY <2>1, <2>2, SameCount DEF Promise!Start, Promise!PlayOn
  <2>4. QED BY <2>3 DEF Promise!Next
<1>9. CASE SeenMove(b)
  <2>1. /\ sit' = sit /\ TurnAt(b)' \in pl[b] \ {tu[b]}
        /\ pl' = [pl EXCEPT ![b] = pl[b]] /\ tu' = [tu EXCEPT ![b] = TurnAt(b)']
    BY <1>1, <1>2, <1>3, <1>9 DEF SeenMove
  <2>2. Promise!Move(b)
    BY <2>1 DEF Promise!Move, Promise!PlayOn
  <2>3. QED BY <2>2 DEF Promise!Next
<1>10. CASE SeenBeat(b)
  <2>1. PICK v \in UsersInGame(b) \ {TurnAt(b)} :
           LET others == UsersInGame(b) \ {TurnAt(b), v}
           IN  IF others = {}
                 THEN UsersInGame(b)' = {}
                 ELSE /\ UsersInGame(b)' = UsersInGame(b) \ {v}
                      /\ TurnAt(b)' \in others
    BY <1>10 DEF SeenBeat
  <2>2. sit' = sit /\ v \in pl[b] \ {tu[b]} /\ v \in Users
    BY <1>1, <1>2, <1>3, <1>5, <1>10 DEF SeenBeat
  <2>3. CASE pl[b] \ {tu[b], v} = {}
    <3>1. pl' = [pl EXCEPT ![b] = {}] /\ tu' = [tu EXCEPT ![b] = NoUser]
      BY <1>1, <1>2, <1>4, <2>1, <2>3
    <3>2. Promise!Beat(b, v)
      BY <2>2, <2>3, <3>1 DEF Promise!Beat, Promise!GameOver, Promise!PlayOn
    <3>3. QED BY <2>2, <3>2 DEF Promise!Next
  <2>4. CASE pl[b] \ {tu[b], v} # {}
    <3>1. /\ TurnAt(b)' \in pl[b] \ {tu[b], v}
          /\ pl' = [pl EXCEPT ![b] = pl[b] \ {v}] /\ tu' = [tu EXCEPT ![b] = TurnAt(b)']
      BY <1>1, <1>2, <2>1, <2>4
    <3>2. Promise!Beat(b, v)
      BY <2>2, <2>4, <3>1 DEF Promise!Beat, Promise!PlayOn
    <3>3. QED BY <2>2, <3>2 DEF Promise!Next
  <2>5. QED BY <2>3, <2>4
<1>11. CASE SeenTakeBack(b)
  <2>1. PICK v \in UsersAt(b) : UsersInGame(b)' = UsersInGame(b) \cup {v}
    BY <1>11 DEF SeenTakeBack
  <2>2. /\ sit' = sit /\ pl[b] # {} /\ v \in sit[b] /\ v \in Users
        /\ pl' = [pl EXCEPT ![b] = pl[b] \cup {v}] /\ tu' = [tu EXCEPT ![b] = tu[b]]
    BY <1>1, <1>2, <1>3, <1>5, <1>11, <2>1 DEF SeenTakeBack
  <2>3. Promise!TakeBack(b, v)
    BY <2>2 DEF Promise!TakeBack, Promise!PlayOn
  <2>4. QED BY <2>2, <2>3 DEF Promise!Next
<1>12. CASE SeenEnd(b)
  <2>1. /\ sit' = sit /\ pl[b] # {}
        /\ pl' = [pl EXCEPT ![b] = {}] /\ tu' = [tu EXCEPT ![b] = NoUser]
    BY <1>1, <1>2, <1>3, <1>4, <1>12 DEF SeenEnd
  <2>2. Promise!EndGame(b)
    BY <2>1 DEF Promise!EndGame, Promise!GameOver, Promise!PlayOn
  <2>3. QED BY <2>2 DEF Promise!Next
<1>13. CASE SeenLeave(b)
  <2>1. PICK u \in UsersAt(b) :
           /\ UsersAt(b)' = UsersAt(b) \ {u}
           /\ IF u \in UsersInGame(b)
                THEN UsersInGame(b)' = {}
                ELSE UsersInGame(b)' = UsersInGame(b) /\ TurnAt(b)' = TurnAt(b)
    BY <1>13 DEF SeenLeave
  <2>2. u \in Users /\ u \in sit[b] /\ sit' = [sit EXCEPT ![b] = sit[b] \ {u}]
    BY <1>1, <1>2, <1>5, <2>1
  <2>3. CASE u \in pl[b]
    <3>1. pl' = [pl EXCEPT ![b] = {}] /\ tu' = [tu EXCEPT ![b] = NoUser]
      BY <1>1, <1>2, <1>4, <2>1, <2>3
    <3>2. Promise!Leave(u, b)
      BY <2>2, <2>3, <3>1 DEF Promise!Leave, Promise!GameOver, Promise!PlayOn
    <3>3. QED BY <2>2, <3>2 DEF Promise!Next
  <2>4. CASE u \notin pl[b]
    <3>1. pl' = pl /\ tu' = tu
      BY <1>1, <1>2, <1>3, <2>1, <2>4
    <3>2. Promise!Leave(u, b)
      BY <2>2, <2>4, <3>1 DEF Promise!Leave
    <3>3. QED BY <2>2, <3>2 DEF Promise!Next
  <2>5. QED BY <2>3, <2>4
<1>14. QED BY <1>6, <1>7, <1>8, <1>9, <1>10, <1>11, <1>12, <1>13 DEF Seen

(* If clients keep to the rules and undo no move that has ended the game,  *)
(* every board implements BoardSpec: games begin for three at once, nobody *)
(* joins them, the turn goes to somebody else who plays, and they end for  *)
(* all together, whatever is sent, undone, given up or lost in between.    *)
THEOREM BoardRefinement == LateUndo = FALSE => (PlaySpec => GamesAsPromised)
<1> SUFFICES ASSUME LateUndo = FALSE PROVE PlaySpec => GamesAsPromised
  OBVIOUS
<1> DEFINE sit == [b \in Boards |-> Seated(seat[b])]
           pl == [b \in Boards |-> PlayersAt(b)]
           tu == [b \in Boards |-> TurnAt(b)]
<1>1. Init => Promise!Init
  <2> SUFFICES ASSUME Init PROVE Promise!Init
    OBVIOUS
  <2>1. \A b \in Boards : Seated(seat[b]) = {}
    BY DEF Init, Seated, Occupied
  <2>2. \A b \in Boards : PlayersAt(b) = {}
    BY <2>1 DEF PlayersAt
  <2>3. \A b \in Boards : TurnAt(b) = NoUser
    BY <2>2 DEF TurnAt
  <2>4. QED BY <2>1, <2>2, <2>3 DEF Promise!Init
<1>2. IInv /\ GamesRunOn /\ IInv' /\ GamesRunOn' /\ [PlayNext]_vars
        => [Promise!Next]_<< sit, pl, tu >>
  <2> SUFFICES ASSUME IInv, GamesRunOn, IInv', GamesRunOn', [PlayNext]_vars
               PROVE  [Promise!Next]_<< sit, pl, tu >>
    OBVIOUS
  <2>1. Viewed /\ Viewed'
    <3>1. Viewed
      BY ViewedAlways
    <3>2. Viewed'
      BY ViewedAlways, PTL
    <3>3. QED BY <3>1, <3>2
  <2>2. (\E b \in Boards : Seen(b)) \/ (\A c \in Boards : SameAt(c))
    BY <2>1, EveryStepSeen
  <2>3. CASE \E b \in Boards : Seen(b)
    BY <2>1, <2>3, SeenIsPromised
  <2>4. CASE \A c \in Boards : SameAt(c)
    <3>1. /\ \A c \in Boards : Seated(seat'[c]) = Seated(seat[c])
          /\ \A c \in Boards : PlayersAt(c)' = PlayersAt(c)
          /\ \A c \in Boards : TurnAt(c)' = TurnAt(c)
      BY <2>1, <2>4 DEF SameAt, Viewed
    <3>2. QED BY <3>1
  <2>5. QED BY <2>2, <2>3, <2>4
<1> HIDE DEF sit, pl, tu
<1>3. PlaySpec => Promise!Init /\ [][Promise!Next]_<< sit, pl, tu >>
  BY <1>1, <1>2, PlayInvariance, GamesInvariance, PTL DEF PlaySpec
<1>4. QED BY <1>3, PTL DEF GamesAsPromised, Promise!Spec, sit, pl, tu

=============================================================================
