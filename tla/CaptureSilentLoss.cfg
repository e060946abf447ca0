SPECIFICATION Spec
CONSTANTS
  Captures <- SocketCaptures
  Formats = {"asc"}
  MaxSteps = 2
  RecvTime <- MCRecvTime
  Recorder <- MCRecorder
  Names = {"unnamed", "can0", "vcan0", "vcan1", "ch1", "long", "cut"}
  LongNames = {"long"}
  Cut <- MCCut
  TornLengths = {0, 8, 40}
  SecondsUlp = 238
  NanosUlp = 256
PROPERTY
  NoSilentLoss
\* MaxSteps steps have been taken.
CHECK_DEADLOCK FALSE
