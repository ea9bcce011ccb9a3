--------------------------- MODULE TunnelManager ---------------------------
(***************************************************************************)
(* Port forwarding on the host (internal/host/tunnel.go) with the two      *)
(* goroutines that meet it in instancerun.go: the control reader, which    *)
(* calls UpdatePorts for every report of the endpoint, and watchPorts,     *)
(* which mirrors the mappings into the state.  Shutdown calls Close while   *)
(* the control reader still runs.  Every action that the code runs under    *)
(* TunnelManager.mu is one step.                                            *)
(*                                                                         *)
(* A listener is the container port it forwards; whether it got the same   *)
(* local port or another one is left out.  A net.Conn is <<c, side>>: the   *)
(* accepted ("local") or the bridge ("remote") half of connection c.       *)
(***************************************************************************)
EXTENDS Naturals, Sequences

CONSTANTS
  Ports,        \* container ports
  Conns,        \* connections that exist at the same time
  QueueSize,    \* capacity of portUpdateCh (10 in the code)
  MaxStray      \* bound: stopped or replaced timers whose callback still runs

ASSUME TunnelAssumption == QueueSize \in Nat \ {0} /\ MaxStray \in Nat

VARIABLES
  desiredPorts, listeners, closed,
  \* retryTimers: no timer, one that waits, one whose callback waits for mu
  retryTimers,
  \* timers the map no longer holds: those that wait, those that fired
  strayArmed, strayFired,
  activeConns,
  \* connections: the handler's position, the port, the halves that are open
  handler, connPort, open,
  \* conns taken out of activeConns, closed after the unlock, by goroutine
  toClose,
  \* portUpdateCh, watchPorts and the ports in the state file
  portUpdateCh, watcher, statePorts

timerVars == <<retryTimers, strayArmed, strayFired>>
connVars  == <<handler, connPort, open>>
watchVars == <<watcher, statePorts>>
vars == <<desiredPorts, listeners, closed, timerVars, activeConns, connVars,
          toClose, portUpdateCh, watchVars>>

Halves == Conns \X {"local", "remote"}

TypeOK ==
  /\ desiredPorts \subseteq Ports /\ listeners \subseteq Ports
  /\ closed \in BOOLEAN
  /\ retryTimers \in [Ports -> {"none", "armed", "fired"}]
  /\ strayArmed \in [Ports -> 0..MaxStray]
  /\ strayFired \in [Ports -> 0..MaxStray]
  /\ activeConns \in [Ports -> SUBSET Halves]
  /\ handler \in [Conns -> {"idle", "accepted", "dialing", "opened",
                            "proxying", "ended", "returning"}]
  /\ connPort \in [Conns -> Ports]
  /\ open \subseteq Halves
  /\ toClose \in [{"reader", "shutdown"} -> SUBSET Halves]
  /\ portUpdateCh \in Seq(SUBSET Ports) /\ Len(portUpdateCh) <= QueueSize
  /\ watcher \in {"running", "stopped"}
  /\ statePorts \subseteq Ports

Init ==
  /\ desiredPorts = {} /\ listeners = {} /\ closed = FALSE
  /\ retryTimers = [p \in Ports |-> "none"]
  /\ strayArmed = [p \in Ports |-> 0] /\ strayFired = [p \in Ports |-> 0]
  /\ activeConns = [p \in Ports |-> {}]
  /\ handler = [c \in Conns |-> "idle"]
  /\ connPort \in [Conns -> Ports]
  /\ open = {}
  /\ toClose = [g \in {"reader", "shutdown"} |-> {}]
  /\ portUpdateCh = <<>>
  /\ watcher = "running" /\ statePorts = {}

-----------------------------------------------------------------------------
(* Helpers, all called with mu held *)

\* Fault: the send does not look whether the channel is full.
NotifyPortChange_Unbounded == portUpdateCh' = Append(portUpdateCh, listeners')

\* notifyPortChange: a mapping that does not fit is dropped.
NotifyPortChange ==
  portUpdateCh' = IF Len(portUpdateCh) = QueueSize THEN portUpdateCh
                  ELSE Append(portUpdateCh, listeners')

\* retryTimers without the timers of S (cancelRetryLocked, and the end of
\* forwardPortLocked): Stop comes too late for a callback that waits for mu.
Cancelled(S) == [p \in Ports |-> IF p \in S THEN "none" ELSE retryTimers[p]]

LateCallbacks(S) ==
  [p \in Ports |-> IF p \in S /\ retryTimers[p] = "fired"
                   THEN strayFired[p] + 1 ELSE strayFired[p]]

\* scheduleRetryLocked for the ports of S, after timers became retry.
Scheduled(retry, S) ==
  [p \in Ports |-> IF p \in S /\ ~closed /\ retry[p] = "none"
                   THEN "armed" ELSE retry[p]]

\* takeActiveLocked for the ports of S.
TakeActive(S) ==
  activeConns' = [p \in Ports |-> IF p \in S THEN {} ELSE activeConns[p]]

Taken(S) == UNION {activeConns[p] : p \in S}

-----------------------------------------------------------------------------
(* The control reader: UpdatePorts *)

\* Fault: a port whose listener fails is logged and not retried.
UpdatePorts_NoRetry(new) ==
  /\ toClose["reader"] = {}
  /\ \E bound \in SUBSET (new \ listeners) :
       LET gone    == Ports \ new
           settled == gone \cup bound
       IN  /\ desiredPorts' = new
           /\ listeners' = (listeners \cap new) \cup bound
           /\ TakeActive(gone)
           /\ toClose' = [toClose EXCEPT !["reader"] = Taken(gone)]
           /\ retryTimers' = Cancelled(settled)
           /\ strayFired' = LateCallbacks(settled)
  /\ NotifyPortChange
  /\ UNCHANGED <<closed, strayArmed, connVars, watchVars>>

\* UpdatePorts up to the unlock: new are the reported ports, bound those whose
\* listener could be opened now.  It does not look at closed.
UpdatePorts(new) ==
  /\ toClose["reader"] = {}
  /\ \E bound \in SUBSET (new \ listeners) :
       LET gone    == Ports \ new
           settled == gone \cup bound
       IN  /\ desiredPorts' = new
           /\ listeners' = (listeners \cap new) \cup bound
           /\ TakeActive(gone)
           /\ toClose' = [toClose EXCEPT !["reader"] = Taken(gone)]
           /\ retryTimers' = Scheduled(Cancelled(settled), new \ listeners')
           /\ strayFired' = LateCallbacks(settled)
  /\ NotifyPortChange
  /\ UNCHANGED <<closed, strayArmed, connVars, watchVars>>

\* Close up to the unlock.
Close ==
  /\ ~closed
  /\ closed' = TRUE
  /\ listeners' = {}
  /\ TakeActive(Ports)
  /\ toClose' = [toClose EXCEPT !["shutdown"] = Taken(Ports)]
  /\ retryTimers' = Cancelled(Ports)
  /\ strayFired' = LateCallbacks(Ports)
  /\ UNCHANGED <<desiredPorts, strayArmed, connVars, portUpdateCh,
                 watchVars>>

\* closeConnections, one connection at a time.
CloseTaken(g) ==
  \E h \in toClose[g] :
    /\ open' = open \ {h}
    /\ toClose' = [toClose EXCEPT ![g] = @ \ {h}]
    /\ UNCHANGED <<desiredPorts, listeners, closed, timerVars, activeConns,
                   handler, connPort, portUpdateCh, watchVars>>

-----------------------------------------------------------------------------
(* The retry timers *)

\* A timer's callback starts and waits for mu.
TimerFires(p) ==
  /\ strayArmed[p] + strayFired[p] < MaxStray
  /\ retryTimers[p] = "armed"
  /\ retryTimers' = [retryTimers EXCEPT ![p] = "fired"]
  /\ UNCHANGED <<desiredPorts, listeners, closed, strayArmed, strayFired,
                 activeConns, connVars, toClose, portUpdateCh,
                 watchVars>>

StrayTimerFires(p) ==
  /\ strayArmed[p] > 0
  /\ strayArmed' = [strayArmed EXCEPT ![p] = @ - 1]
  /\ strayFired' = [strayFired EXCEPT ![p] = @ + 1]
  /\ UNCHANGED <<desiredPorts, listeners, closed, retryTimers, activeConns,
                 connVars, toClose, portUpdateCh, watchVars>>

\* Fault: the callback does not look at desiredPorts.
RetryPort_AnyPort(p) ==
  \/ ~closed /\ p \notin listeners /\ listeners' = listeners \cup {p}
       /\ retryTimers' = [retryTimers EXCEPT ![p] = "none"]
       /\ NotifyPortChange
  \/ /\ closed \/ p \in listeners
     /\ retryTimers' = [retryTimers EXCEPT ![p] = "none"]
     /\ UNCHANGED <<listeners, portUpdateCh>>
  \/ /\ ~closed /\ p \notin listeners
     /\ retryTimers' = [retryTimers EXCEPT ![p] = "armed"]
     /\ UNCHANGED <<listeners, portUpdateCh>>

\* The callback with mu held, its own map entry already deleted: give up,
\* forward the port, or fail and schedule the next try.
RetryPort(p) ==
  \/ /\ closed \/ p \notin desiredPorts
     /\ retryTimers' = [retryTimers EXCEPT ![p] = "none"]
     /\ UNCHANGED <<listeners, portUpdateCh>>
  \/ /\ ~closed /\ p \in desiredPorts
     /\ listeners' = listeners \cup {p}
     /\ retryTimers' = [retryTimers EXCEPT ![p] = "none"]
     /\ NotifyPortChange
  \/ /\ ~closed /\ p \in desiredPorts \ listeners
     /\ retryTimers' = [retryTimers EXCEPT ![p] = "armed"]
     /\ UNCHANGED <<listeners, portUpdateCh>>

RetryCallback(p) ==
  /\ retryTimers[p] = "fired"
  /\ RetryPort(p)
  /\ UNCHANGED <<desiredPorts, closed, strayArmed, strayFired, activeConns,
                 connVars, toClose, watchVars>>

\* The same callback of a timer that was stopped too late: the entry it
\* deletes is that of a newer timer, which goes on without one.
StrayCallback(p) ==
  /\ strayFired[p] > 0
  /\ RetryPort(p)
  /\ strayFired' = [strayFired EXCEPT
                      ![p] = IF retryTimers[p] = "fired" THEN @ ELSE @ - 1]
  /\ strayArmed' = [strayArmed EXCEPT
                      ![p] = IF retryTimers[p] = "armed" THEN @ + 1 ELSE @]
  /\ UNCHANGED <<desiredPorts, closed, activeConns, connVars, toClose,
                 watchVars>>

-----------------------------------------------------------------------------
(* Connections: acceptConnections and handleConnection *)

Accept(c, p) ==
  /\ handler[c] = "idle" /\ p \in listeners
  /\ handler' = [handler EXCEPT ![c] = "accepted"]
  /\ connPort' = [connPort EXCEPT ![c] = p]
  /\ open' = open \cup {<<c, "local">>}
  /\ UNCHANGED <<desiredPorts, listeners, closed, timerVars, activeConns,
                 toClose, portUpdateCh, watchVars>>

\* Fault: the connection is registered whatever became of the port.
Registers_Always(c, side) ==
  activeConns' = [activeConns EXCEPT ![connPort[c]] = @ \cup {<<c, side>>}]

\* registerConnection when it returns true.
Registers(c, side) ==
  /\ ~closed /\ connPort[c] \in desiredPorts
  /\ activeConns' = [activeConns EXCEPT ![connPort[c]] = @ \cup {<<c, side>>}]

\* unregisterConnection: the conn may have been taken already.
Unregister(c, side) ==
  activeConns' = [activeConns EXCEPT ![connPort[c]] = @ \ {<<c, side>>}]

\* A half that is closed for good needs no closing any more.
Shut(h) ==
  /\ open' = open \ {h}
  /\ toClose' = [g \in DOMAIN toClose |-> toClose[g] \ {h}]

RegisterLocal(c) ==
  /\ handler[c] = "accepted"
  /\ \/ /\ Registers(c, "local")
        /\ handler' = [handler EXCEPT ![c] = "dialing"]
        /\ UNCHANGED <<open, toClose>>
     \/ /\ closed \/ connPort[c] \notin desiredPorts
        /\ Shut(<<c, "local">>)
        /\ handler' = [handler EXCEPT ![c] = "idle"]
        /\ UNCHANGED activeConns
  /\ UNCHANGED <<desiredPorts, listeners, closed, timerVars, connPort,
                 portUpdateCh, watchVars>>

\* OpenTunnelStream: a stream, or an error (the bridge is not ready).
Dial(c) ==
  /\ handler[c] = "dialing"
  /\ \/ /\ handler' = [handler EXCEPT ![c] = "opened"]
        /\ open' = open \cup {<<c, "remote">>}
     \/ handler' = [handler EXCEPT ![c] = "returning"] /\ UNCHANGED open
  /\ UNCHANGED <<desiredPorts, listeners, closed, timerVars, activeConns,
                 connPort, toClose, portUpdateCh, watchVars>>

RegisterRemote(c) ==
  /\ handler[c] = "opened"
  /\ \/ /\ Registers(c, "remote")
        /\ handler' = [handler EXCEPT ![c] = "proxying"]
        /\ UNCHANGED <<open, toClose>>
     \/ /\ closed \/ connPort[c] \notin desiredPorts
        /\ Shut(<<c, "remote">>)
        /\ handler' = [handler EXCEPT ![c] = "returning"]
        /\ UNCHANGED activeConns
  /\ UNCHANGED <<desiredPorts, listeners, closed, timerVars, connPort,
                 portUpdateCh, watchVars>>

\* BiProxy returns: a peer is done, or one half was closed under it.
ProxyEnds(c) ==
  /\ handler[c] = "proxying"
  /\ handler' = [handler EXCEPT ![c] = "ended"]
  /\ UNCHANGED <<desiredPorts, listeners, closed, timerVars, activeConns,
                 connPort, open, toClose, portUpdateCh, watchVars>>

\* The deferred calls for the bridge stream ...
UnregisterRemote(c) ==
  /\ handler[c] = "ended"
  /\ Unregister(c, "remote") /\ Shut(<<c, "remote">>)
  /\ handler' = [handler EXCEPT ![c] = "returning"]
  /\ UNCHANGED <<desiredPorts, listeners, closed, timerVars, connPort,
                 portUpdateCh, watchVars>>

\* ... and for the accepted connection.
UnregisterLocal(c) ==
  /\ handler[c] = "returning"
  /\ Unregister(c, "local") /\ Shut(<<c, "local">>)
  /\ handler' = [handler EXCEPT ![c] = "idle"]
  /\ UNCHANGED <<desiredPorts, listeners, closed, timerVars, connPort,
                 portUpdateCh, watchVars>>

-----------------------------------------------------------------------------
(* watchPorts *)

\* One mapping into the state file, then the ports event.
WatchPorts ==
  /\ watcher = "running" /\ portUpdateCh # <<>>
  /\ statePorts' = Head(portUpdateCh)
  /\ portUpdateCh' = Tail(portUpdateCh)
  /\ UNCHANGED <<desiredPorts, listeners, closed, timerVars, activeConns,
                 connVars, toClose, watcher>>

\* The instance context ends; it may do so before or after Close.
WatcherStops ==
  /\ watcher = "running"
  /\ watcher' = "stopped"
  /\ UNCHANGED <<desiredPorts, listeners, closed, timerVars, activeConns,
                 connVars, toClose, portUpdateCh, statePorts>>

-----------------------------------------------------------------------------
Timer(p) ==
  TimerFires(p) \/ StrayTimerFires(p) \/ RetryCallback(p) \/ StrayCallback(p)

Handler(c) ==
  \/ \E p \in Ports : Accept(c, p)
  \/ RegisterLocal(c) \/ Dial(c) \/ RegisterRemote(c) \/ ProxyEnds(c)
  \/ UnregisterRemote(c) \/ UnregisterLocal(c)

Next ==
  \/ \E new \in SUBSET Ports : UpdatePorts(new)
  \/ Close
  \/ \E g \in {"reader", "shutdown"} : CloseTaken(g)
  \/ \E p \in Ports : Timer(p)
  \/ \E c \in Conns : Handler(c)
  \/ WatchPorts \/ WatcherStops

Spec == Init /\ [][Next]_vars

-----------------------------------------------------------------------------
(* Properties *)

\* Until Close, exactly the reported ports are served: each has its listener or
\* is being retried, whatever timers were stopped too late and whatever their
\* callbacks deleted, and no late retry brings back the listener of another.
PortsAreServed ==
  ~closed =>
    /\ listeners \subseteq desiredPorts
    /\ \A p \in desiredPorts \ listeners : retryTimers[p] # "none"

\* A connection whose port went away, or that outlived Close, is not proxied
\* on: one of its halves is closed or about to be, at whatever point between
\* accept and proxy the port went.
NoOrphanConnection ==
  \A c \in Conns :
    handler[c] = "proxying" /\ (closed \/ connPort[c] \notin desiredPorts) =>
      \E side \in {"local", "remote"} :
        \/ <<c, side>> \notin open
        \/ \E g \in DOMAIN toClose : <<c, side>> \in toClose[g]

=============================================================================
