CONSTANTS
  Users = {u1, u2, u3, u4}
  Boards = {b1}
  NoUser = NoUser
  NoBoard = NoBoard
  Times = {t1}
  NoTimes = NoTimes
  ScoreMod = 16
  LateUndo = FALSE
SPECIFICATION PlaySpec
SYMMETRY UserSymmetry
VIEW ViewWithoutScores
INVARIANTS TokenHeldByPlayer NoLonePlayer
PROPERTIES LeavingEndsTheGame ScoresConserved GamesAsPromised
CHECK_DEADLOCK FALSE
