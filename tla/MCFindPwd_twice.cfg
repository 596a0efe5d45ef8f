CONSTANTS
  Users = {u1, u2}
  Accounts = {c1}
  SOON = 1
  RETRY = 2
  OUT_TIME = 3
  Opens = {TRUE}
  Unset = Unset
  NoUser = NoUser
  OldToken = OldToken
SPECIFICATION Spec
PROPERTIES TokenLivesItsTime
