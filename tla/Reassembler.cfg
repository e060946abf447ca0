SPECIFICATION Spec
CONSTANTS
  Bytes = {b1, b2}
  Chunks <- MCChunks
  Totals <- MCTotals
INVARIANTS
  Collecting
PROPERTY
  Delivery
