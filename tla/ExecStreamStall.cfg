CONSTANTS
  Modes = {"framed"}
  Children = {}
  MaxIn = 4
  MaxOut = 0
  MaxLoad = 4
  ConnSize = 1
  Window = 1
  QueueSize = 1
  PipeSize = 1
SPECIFICATION FairSpec
PROPERTY DisconnectKills
CHECK_DEADLOCK FALSE
