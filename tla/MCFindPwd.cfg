CONSTANTS
  Users = {u1, u2}
  Accounts = {c1, c2}
  SOON = 1
  RETRY = 2
  OUT_TIME = 3
  Opens = {TRUE, FALSE}
  Unset = Unset
  NoUser = NoUser
  OldToken = OldToken
SPECIFICATION Spec
SYMMETRY Symmetry
INVARIANTS HeldByOneTimer TokenFileIsOwned
