\* Checks what the README says of shells.
CONSTANTS
  Keys = {k1}
  Values = {v1, v2}
  None = none
  Forwarded = {"ssh"}
  MaxGenerations = 2
  MaxUpdates = 2
  MaxKills = 1
SPECIFICATION Spec
INVARIANT ShellFollowsPublished
CHECK_DEADLOCK FALSE
