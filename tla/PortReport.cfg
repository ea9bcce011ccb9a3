\* A port that comes, goes and moves between addresses while a second endpoint
\* replaces the first, and a connection to it.
CONSTANTS
  Ports = {a}
  Conns = {c1}
  QueueSize = 1
  MaxStray = 1
  Binds = { {}, {"127.0.0.1"}, {"own", "::1"} }
  ControlSize = 1
  MaxEndpoints = 2
SPECIFICATION ReportSpec
INVARIANTS
  ReportTypeOK
  ReportedIsDesired
PROPERTY PortsSettle
