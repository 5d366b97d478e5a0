\* Windows, limits, gaps between frames and publications that fail.
SPECIFICATION Spec
CONSTANTS
  None = None
  PreEvent = 3
  PostEvent = 1
  MaxClip = 5
  MaxBufferFrames = 2
  MaxBufferBytes = 2
  MaxActiveFrames = 3
  MaxActiveBytes = 4
  MaxObservations = 7
  MaxTime = 12
  FrameGaps = {1, 4}
  FrameSizes = {1, 3, 5}
  StoreOutcomes = {"Published", "Failed", "Kept"}
  Callers = {"run_paired", "direct"}
INVARIANT LimitsAreKept
INVARIANT OneClipPerVisit
INVARIANT NoFootageTwice
INVARIANT FootageIsWarranted
CHECK_DEADLOCK FALSE
