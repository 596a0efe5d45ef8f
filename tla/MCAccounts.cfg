CONSTANTS
  Sessions = {s1, s2}
  Threads = {t1}
  c1 = c1
  c2 = c2
  n1 = n1
  n2 = n2
  n3 = n3
  Accounts = {c1, c2}
  Names = {n1, n2, n3}
  KeyOf <- MCKeyOf
  p1 = p1
  p2 = p2
  name1 = name1
  text1 = text1
  Values <- MCValues
  Passwords = {p1, p2}
  Updates <- MCUpdates
  Newcomer = Newcomer
  Empty = Empty
  Absent = Absent
  NoThread = NoThread
  ScoreMod = 8
  NewScore = 2
  Scores = {3}
  ImageSize <- MCImageSize
  Missing = {3}
  MAX_DATA_LENGTH = 1
  Framing = 1
  LargeFrame = 2
  MaxDownloads = 1
  MaxChanges = 2
  MaxFailures = 1
SPECIFICATION Spec
SYMMETRY Symmetry
INVARIANTS TypeOK OneSessionPerAccount RefusalMeansOnline MemoryIsRow ImageIsTheOneAsked
PROPERTIES RowsAreTheirOwners WholeImageIsSent
