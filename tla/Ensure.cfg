CONSTANTS
  Clients = {c1}
  Stoppers = {s1}
  MaxSpawns = 2
  MaxAttempts = 1
  MaxTries = 1
  MaxUps = 1
  MaxFaults = 1
SPECIFICATION Spec
INVARIANTS
  TypeOK
  ServerOwnsFiles
  ErrorsHaveCause
  StopMeansStopped
CHECK_DEADLOCK FALSE
