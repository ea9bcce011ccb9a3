CONSTANTS
  MaxSessions = 2
  MaxAttempts = 1
  MaxEnv = 2
  Openers = {o1}
  Stoppers = {p1}
SPECIFICATION FairSpec
INVARIANTS
  TypeOK
  NoSessionLeak
  StoppedNamesCause
  StreamsOnReadyEndpoints
  NoExecAfterClose
  RefreshReachesBridge
PROPERTIES
  ImplementsLiveLifecycle
  BridgeIsRestored
  ImplementsLifecycle
  EnvironmentNeverGoesBack
