\* A port that comes and goes beside another one, a connection slot that is
\* used again and again, a channel that is soon full, one late timer per port.
CONSTANTS
  Ports = {a, b}
  Conns = {c1}
  QueueSize = 1
  MaxStray = 1
SPECIFICATION Spec
INVARIANTS
  PortsAreServed
  NoOrphanConnection
