SPECIFICATION Spec
CONSTANTS
  Lengths <- MCLengths
  Capacities <- MCCapacities
INVARIANTS
  Tiling
  FitsFrame
  ClosedForm
  Recoverable
PROPERTY
  Progress
\* The function returns: "done" has no successor.
CHECK_DEADLOCK FALSE
