CONSTANTS
  Modes = {"raw", "tty"}
  Children = {"group", "daemon"}
  MaxIn = 1
  MaxOut = 1
  MaxLoad = 1
  ConnSize = 1
  Window = 1
  QueueSize = 1
  PipeSize = 1
SPECIFICATION FairSpec
PROPERTIES
  DisconnectKills
  SlotIsFreed
  ExitReachesCaller
CHECK_DEADLOCK FALSE
