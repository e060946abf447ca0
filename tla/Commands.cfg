SPECIFICATION Spec
CONSTANTS
  A = A
  B = B
  Ids = {A, B}
  Noise = N
  Steps <- MCSteps
  PollTicks = 2
  Flood = TRUE
  Limit = 2
  MaxKeys = 2
  Room = 3
  MaxFrames = 4
  Captures <- MCCaptures
  Modes <- MCModes
  MaxLate = 1
  MaxSend = 2
INVARIANTS
  Greedy
  NothingTimelyMissed
  GivesUpInTime
  Window
  Restored
  NeverFaster
  NeverFasterScaled
PROPERTIES
  Terminates
  QuitWorks
  FrameShown
\* The command ends.
CHECK_DEADLOCK FALSE
