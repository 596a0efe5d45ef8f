CONSTANTS
  Users = {u1, u2, u3, u4}
  Boards = {b1}
  NoUser = NoUser
  NoBoard = NoBoard
  Times = {}
  NoTimes = NoTimes
  ScoreMod = 16
  LateUndo = FALSE
SPECIFICATION Spec
SYMMETRY UserSymmetry
VIEW ViewOfHandlers
INVARIANTS SeatsAndSessionsAgree CountMatchesSeats NoStatusWithoutSeat FirstComerIsSeated
PROPERTIES PlayersStartTogether NoEntryDuringGame
CHECK_DEADLOCK FALSE
