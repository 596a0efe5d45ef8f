CONSTANTS
  Users = {u1, u2, u3}
  Boards = {b1}
  NoUser = NoUser
  NoBoard = NoBoard
  Times = {}
  NoTimes = NoTimes
  ScoreMod = 65536
  LateUndo = TRUE
SPECIFICATION PlaySpec
SYMMETRY UserSymmetry
VIEW ViewWithoutScores
INVARIANT NoLonePlayer
CHECK_DEADLOCK FALSE
