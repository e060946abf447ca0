SPECIFICATION Spec
CONSTANTS
  Captures <- MCCaptures
  Formats = {"asc", "blf", "mf4"}
  MaxSteps = 3
  RecvTime <- MCRecvTime
  Recorder <- MCRecorder
  Names = {"unnamed", "can0", "vcan0", "vcan1", "ch1", "long", "cut"}
  LongNames = {"long"}
  Cut <- MCCut
  TornLengths = {0, 8, 40}
  SecondsUlp = 238
  NanosUlp = 256
INVARIANTS
  Survivors
  TimeOrder
  Mf4Exact
PROPERTIES
  RoundTrip
  Stable
  FrameLossNoted
\* MaxSteps steps have been taken.
CHECK_DEADLOCK FALSE
