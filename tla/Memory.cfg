\* The constants of Frames: 14 frames of three words and three processes.
SPECIFICATION MemorySpec
CONSTANTS
  p1 = p1
  p2 = p2
  p3 = p3
  NFrames = 14
  W = 3
  Sizes = {1, 2}
  MaxCalls = 4
INVARIANTS ContentsMatchPte SpacesSound
PROPERTIES ClockAlgorithm FaultReturns
CHECK_DEADLOCK FALSE
