SPECIFICATION Spec
CONSTANTS
  Pause = 1
  Timeout = 4
  Foreign <- MCForeign
  MaxForeign = 1
  Versions = {"v1", "v2"}
  Committed = "v1"
  Unparsable = "unparsable"
  Incomplete = "incomplete"
  MaxEdits = 2
  Root = "/"
  Inside <- MCInside
  Skipped <- MCSkipped
  Unreadable <- MCUnreadable
  Marked <- MCMarked
  Pushes <- MCPushes
  Sessions <- MCSessions
INVARIANTS
  Verdict
  AllOrNothing
  VerdictHolds
PROPERTIES
  NothingLeftRunning
  MainIsGated
\* No command is given any more.
CHECK_DEADLOCK FALSE
