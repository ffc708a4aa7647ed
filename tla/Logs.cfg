CONSTANTS
  LOG_MAX_SIZE = 1
  LOG_MAX_ROTATED = 2
  MaxChildren = 3
  MaxLines = 4
  Faults = {"open", "read", "write"}
  None = None
SPECIFICATION FairLogSpec
INVARIANTS RecentOutputKept
PROPERTIES FilesOnlyGrow OutputDrained
CHECK_DEADLOCK FALSE
