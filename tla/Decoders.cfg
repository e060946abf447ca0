SPECIFICATION Spec
CONSTANTS
  Collections <- MCCollections
  Frames <- MCFrames
  MaxDatabases = 3
  Requests <- MCRequests
  Data <- MCData
  Codes = {17, 49}
  MaxCalls = 2
  n1 = n1
  n2 = n2
  n3 = n3
  Node = {n1, n2, n3}
  Name <- MCName
  Wanted <- MCWanted
  Chatter <- MCChatter
  MaxChatter = 1
INVARIANTS
  ReferenceValues
  CutExactly
  ModesMatch
  OneSource
  RightAnswer
PROPERTY
  AddressesSettle
\* A bus falls quiet when nobody has anything to send.
CHECK_DEADLOCK FALSE
