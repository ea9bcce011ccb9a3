\* A queue and a ring that fill up, wrap and overflow within MaxEvents.
CONSTANTS
  Subs = {s1}
  QueueSize = 2
  HistorySize = 2
  MaxEvents = 4
SPECIFICATION FairSpec
INVARIANTS
  TypeOK
  NoSilentGap
  HistoryIsRecent
PROPERTY StreamsEnd
CHECK_DEADLOCK FALSE
