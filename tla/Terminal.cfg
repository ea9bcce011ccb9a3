CONSTANTS
  Modes = {"shell", "tty", "exec"}
  Signals = {"HUP", "INT"}
  Room = 1
  MaxSignals = 1
  MaxInput = 1
  MaxEvents = 2
  MaxChanges = 3
SPECIFICATION FairSpec
INVARIANTS
  TypeOK
  OneShell
  ExitStatusIsTrue
PROPERTIES
  LossSettles
  QuitLeaves
  SignalsArrive
CHECK_DEADLOCK FALSE
