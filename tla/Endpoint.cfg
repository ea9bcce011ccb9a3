\* One variable the container may have or not; an old and a new endpoint.
CONSTANTS
  Keys = {k1}
  Values = {v1, v2}
  None = none
  Forwarded = {"ssh"}
  MaxGenerations = 2
  MaxUpdates = 2
  MaxKills = 1
SPECIFICATION Spec
INVARIANTS
  TypeOK
  LayersAreExact
  PublishedIsLastSent
  SocketsAreServed
  ShellRestores
CHECK_DEADLOCK FALSE
