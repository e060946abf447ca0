SPECIFICATION FairSpec
CONSTANTS
  Lengths <- WrapLengths
  Capacity = 2
  WireRoom = 2
  MaxLosses = 17
  MaxRepeats = 2
INVARIANT
  Complete
PROPERTIES
  IsMessageChannel
  AllDelivered
\* Everything has been sent and received.
CHECK_DEADLOCK FALSE
