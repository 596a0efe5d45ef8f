------------------------------ MODULE BoardSpec ------------------------------
(***************************************************************************)
(* What a board promises to the people at it: up to three sit down, a game *)
(* begins for all three at once, the turn goes from player to player, and  *)
(* the game ends for everybody together.  ChessBoard implements it as long *)
(* as the clients keep to the rules of the game.                           *)
(*                                                                         *)
(* There are no seats, statuses or scores here: only who sits at a board,  *)
(* who of them is in the game, and whose turn it is.                       *)
(***************************************************************************)
EXTENDS Integers, FiniteSets

CONSTANTS
    Users,
    Boards,
    NoUser      \* whose turn it is where no game runs

VARIABLES
    sitting,    \* the users at each board
    players,    \* those of them who are in the game
    turn        \* the player whose turn it is

Init ==
    /\ sitting = [b \in Boards |-> {}]
    /\ players = [b \in Boards |-> {}]
    /\ turn = [b \in Boards |-> NoUser]

(* The game at b goes on among S, and it is the turn of u.                 *)
PlayOn(b, S, u) ==
    /\ players' = [players EXCEPT ![b] = S]
    /\ turn' = [turn EXCEPT ![b] = u]

GameOver(b) == PlayOn(b, {}, NoUser)

(* One sits at one board, and never joins a game that is running.          *)
SitDown(u, b) ==
    /\ \A c \in Boards : u \notin sitting[c]
    /\ Cardinality(sitting[b]) < 3
    /\ players[b] = {}
    /\ sitting' = [sitting EXCEPT ![b] = @ \cup {u}]
    /\ UNCHANGED << players, turn >>

(* A game begins with three players, and all of them are in it.            *)
Start(b) ==
    /\ players[b] = {}
    /\ Cardinality(sitting[b]) = 3
    /\ \E u \in sitting[b] : PlayOn(b, sitting[b], u)
    /\ UNCHANGED sitting

(* The turn goes to another player.                                        *)
Move(b) ==
    /\ \E u \in players[b] \ {turn[b]} : PlayOn(b, players[b], u)
    /\ UNCHANGED sitting

(* The player whose turn it is beats v.  If nobody else is left the game is*)
(* won, else it is the turn of somebody who is.                            *)
Beat(b, v) ==
    /\ v \in players[b] \ {turn[b]}
    /\ LET others == players[b] \ {turn[b], v}
       IN  IF others = {}
             THEN GameOver(b)
             ELSE \E u \in others : PlayOn(b, players[b] \ {v}, u)
    /\ UNCHANGED sitting

(* A move is taken back while the game runs: who was beaten is in it again.*)
TakeBack(b, v) ==
    /\ players[b] # {}
    /\ v \in sitting[b]
    /\ PlayOn(b, players[b] \cup {v}, turn[b])
    /\ UNCHANGED sitting

(* A draw, or a player gives up.                                           *)
EndGame(b) ==
    /\ players[b] # {}
    /\ GameOver(b)
    /\ UNCHANGED sitting

(* Who leaves the board as a player ends the game for all, who was beaten  *)
(* does not disturb it.                                                    *)
Leave(u, b) ==
    /\ u \in sitting[b]
    /\ sitting' = [sitting EXCEPT ![b] = @ \ {u}]
    /\ IF u \in players[b] THEN GameOver(b) ELSE UNCHANGED << players, turn >>

Next ==
    \E b \in Boards :
       \/ Start(b)
       \/ Move(b)
       \/ EndGame(b)
       \/ \E u \in Users : SitDown(u, b) \/ Beat(b, u) \/ TakeBack(b, u) \/ Leave(u, b)

Spec == Init /\ [][Next]_<< sitting, players, turn >>
=============================================================================
