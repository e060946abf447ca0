SPECIFICATION Spec
CONSTANTS
  Kinds = {"isotp", "j1939"}
  Fds = {fd1, fd2, fd3}
  MaxIndex = 1
INVARIANTS
  NoLeak
