CONSTANTS
  Modes = {"raw", "framed", "tty"}
  Children = {"group", "daemon"}
  MaxIn = 2
  MaxOut = 2
  MaxLoad = 2
  ConnSize = 1
  Window = 1
  QueueSize = 1
  PipeSize = 1
SPECIFICATION Spec
INVARIANTS
  TypeOK
  StdinIsFaithful
  ExitIsLast
CHECK_DEADLOCK FALSE
