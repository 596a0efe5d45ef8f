CONSTANTS
  IntBits = 5
  MaxFields = 2
SPECIFICATION Spec
INVARIANTS
  ReadsAsDeclared
  RoundTrip
  SizeIsExact
  MergeIsConcatenation
  RepliesAreComplete
CHECK_DEADLOCK FALSE
