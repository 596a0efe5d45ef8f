CONSTANTS
  Users = {u1, u2, u3}
  Boards = {b1}
  NoUser = NoUser
  NoBoard = NoBoard
  Times = {}
  NoTimes = NoTimes
  ScoreMod = 65536
  LateUndo = FALSE
SPECIFICATION PlaySpec
SYMMETRY UserSymmetry
VIEW ViewWithoutScores
INVARIANT ServerStaysUp
CHECK_DEADLOCK FALSE
