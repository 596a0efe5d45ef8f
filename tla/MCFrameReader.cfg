CONSTANTS
  HEAD = 2
  Sizes = {2, 3, 5}
  MaxFrames = 3
  MaxIdle = 2
SPECIFICATION Spec
INVARIANTS WholeFramesInOrder HeadOfThisFrame RequestIsHandled
PROPERTIES StuckIsClosed
