SPECIFICATION Spec
CONSTANTS
  Kinds = {"raw", "isotp", "j1939"}
  Fds = {fd1, fd2, fd3}
  MaxIndex = 3
INVARIANTS
  Exclusive
  HandlesAreBound
PROPERTY
  OnlyLookupsLeak
