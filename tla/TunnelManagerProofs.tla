------------------------ MODULE TunnelManagerProofs ------------------------
(***************************************************************************)
(* What UpdatePorts, Close, the retry timers and the connection handlers    *)
(* keep true together, for every set of ports and connections, every        *)
(* capacity of portUpdateCh and every number of late timers.                *)
(*                                                                         *)
(* TunnelInv has three parts: the types with the number of late timers,     *)
(* the ports that are served, and the connections that are tracked.  The    *)
(* third says where the accepted half of a connection is while its handler  *)
(* dials and proxies, which NoOrphanConnection alone does not.              *)
(***************************************************************************)
EXTENDS TunnelManager, SequenceTheorems, TLAPS

\* A timer that waits for mu becomes a stray one if it is stopped.
Late(p) ==
  strayArmed[p] + strayFired[p] + (IF retryTimers[p] = "fired" THEN 1 ELSE 0)

TimersInv ==
  /\ retryTimers \in [Ports -> {"none", "armed", "fired"}]
  /\ strayArmed \in [Ports -> Nat]
  /\ strayFired \in [Ports -> Nat]
  /\ \A p \in Ports : Late(p) <= MaxStray

QueueInv ==
  /\ desiredPorts \subseteq Ports /\ listeners \subseteq Ports
  /\ statePorts \subseteq Ports
  /\ portUpdateCh \in Seq(SUBSET Ports) /\ Len(portUpdateCh) <= QueueSize

Positions == {"idle", "accepted", "dialing", "opened", "proxying", "ended",
              "returning"}

ConnsInv ==
  /\ activeConns \in [Ports -> SUBSET Halves]
  /\ handler \in [Conns -> Positions]
  /\ connPort \in [Conns -> Ports]
  /\ open \subseteq Halves
  /\ toClose \in [{"reader", "shutdown"} -> SUBSET Halves]

FlagsInv ==
  closed \in BOOLEAN /\ watcher \in {"running", "stopped"}

\* The half is registered with its port, or closed, or about to be closed.
Tracked(c, side) ==
  \/ <<c, side>> \in activeConns[connPort[c]]
  \/ <<c, side>> \notin open
  \/ \E g \in {"reader", "shutdown"} : <<c, side>> \in toClose[g]

TrackedInv ==
  /\ \A c \in Conns :
       handler[c] \in {"dialing", "opened", "proxying"} => Tracked(c, "local")
  /\ \A p \in Ports : activeConns[p] # {} => p \in desiredPorts /\ ~closed
  /\ ~closed => toClose["shutdown"] = {}

TunnelInv ==
  /\ TimersInv /\ QueueInv /\ ConnsInv /\ FlagsInv
  /\ PortsAreServed
  /\ TrackedInv

-----------------------------------------------------------------------------
(* The timers *)

LEMMA TimersInit == Init => TimersInv
  BY TunnelAssumption DEF Init, TimersInv, Late

\* Timers of S are stopped, some of the others are set: a callback that waits
\* for mu is counted before and after.
LEMMA TimersStopped ==
  ASSUME TimersInv, NEW S \in SUBSET Ports, NEW R \in SUBSET Ports,
         \/ retryTimers' = Cancelled(S)
         \/ retryTimers' = Scheduled(Cancelled(S), R),
         strayFired' = LateCallbacks(S), strayArmed' = strayArmed
  PROVE  TimersInv'
<1>1. \A p \in Ports :
        /\ retryTimers'[p] \in {"none", "armed", "fired"}
        /\ retryTimers'[p] = "fired" => p \notin S /\ retryTimers[p] = "fired"
        /\ strayFired'[p] = IF p \in S /\ retryTimers[p] = "fired"
                            THEN strayFired[p] + 1 ELSE strayFired[p]
  BY DEF TimersInv, Cancelled, Scheduled, LateCallbacks
<1>2. /\ retryTimers' \in [Ports -> {"none", "armed", "fired"}]
      /\ strayFired' \in [Ports -> Nat]
  BY DEF TimersInv, Cancelled, Scheduled, LateCallbacks
<1>3. \A p \in Ports : Late(p)' <= MaxStray
  BY <1>1, TunnelAssumption DEF TimersInv, Late
<1> QED
  BY <1>2, <1>3 DEF TimersInv

\* A timer fires, or its callback runs.
LEMMA TimersTimer ==
  ASSUME TimersInv, NEW p \in Ports, Timer(p)
  PROVE  TimersInv'
<1> USE TunnelAssumption DEF TimersInv, Late
<1>1. CASE TimerFires(p)
  BY <1>1 DEF TimerFires
<1>2. CASE StrayTimerFires(p)
  BY <1>2 DEF StrayTimerFires
<1>3. ASSUME RetryPort(p)
      PROVE  \/ retryTimers' = [retryTimers EXCEPT ![p] = "none"]
             \/ retryTimers' = [retryTimers EXCEPT ![p] = "armed"]
  BY <1>3 DEF RetryPort
<1>4. CASE RetryCallback(p)
  BY <1>3, <1>4 DEF RetryCallback
<1>5. CASE StrayCallback(p)
  BY <1>3, <1>5 DEF StrayCallback
<1> QED
  BY <1>1, <1>2, <1>4, <1>5 DEF Timer

LEMMA TimersStep ==
  ASSUME TimersInv, [Next]_vars
  PROVE  TimersInv'
<1>1. ASSUME NEW new \in SUBSET Ports, UpdatePorts(new)
      PROVE  TimersInv'
  <2>1. PICK bound \in SUBSET (new \ listeners) :
          LET settled == (Ports \ new) \cup bound
          IN  /\ retryTimers' = Scheduled(Cancelled(settled), new \ listeners')
              /\ strayFired' = LateCallbacks(settled)
    BY <1>1 DEF UpdatePorts
  <2>2. strayArmed' = strayArmed
    BY <1>1 DEF UpdatePorts
  <2> QED
    BY <2>1, <2>2, TimersStopped
<1>2. CASE Close
  BY <1>2, TimersStopped DEF Close
<1>3. ASSUME NEW p \in Ports, Timer(p)
      PROVE  TimersInv'
  BY <1>3, TimersTimer
<1>4. ASSUME UNCHANGED timerVars
      PROVE  TimersInv'
  BY <1>4 DEF timerVars, TimersInv, Late
<1>5. ASSUME NEW g \in {"reader", "shutdown"}, CloseTaken(g)
      PROVE  UNCHANGED timerVars
  BY <1>5 DEF CloseTaken
<1>6. ASSUME NEW c \in Conns, Handler(c)
      PROVE  UNCHANGED timerVars
  BY <1>6 DEF Handler, Accept, RegisterLocal, Dial, RegisterRemote, ProxyEnds,
    UnregisterRemote, UnregisterLocal
<1>7. CASE WatchPorts \/ WatcherStops \/ UNCHANGED vars
  BY <1>4, <1>7 DEF WatchPorts, WatcherStops, vars
<1> QED
  BY <1>1, <1>2, <1>3, <1>4, <1>5, <1>6, <1>7 DEF Next

-----------------------------------------------------------------------------
(* The ports and the mappings on their way to the state *)

LEMMA QueueInit == Init => QueueInv
  BY TunnelAssumption, EmptySeq DEF Init, QueueInv

\* A mapping is appended only where there is room for it.
LEMMA Notified ==
  ASSUME QueueInv, listeners' \subseteq Ports, NotifyPortChange
  PROVE  /\ portUpdateCh' \in Seq(SUBSET Ports)
         /\ Len(portUpdateCh') <= QueueSize
<1>1. CASE Len(portUpdateCh) = QueueSize
  BY <1>1 DEF NotifyPortChange, QueueInv
<1>2. CASE Len(portUpdateCh) # QueueSize
  <2>1. portUpdateCh' = Append(portUpdateCh, listeners')
    BY <1>2 DEF NotifyPortChange
  <2>2. /\ Append(portUpdateCh, listeners') \in Seq(SUBSET Ports)
        /\ Len(Append(portUpdateCh, listeners')) = Len(portUpdateCh) + 1
    BY AppendProperties DEF QueueInv
  <2>3. Len(portUpdateCh) \in Nat /\ Len(portUpdateCh) <= QueueSize
    BY LenProperties DEF QueueInv
  <2> QED
    BY <1>2, <2>1, <2>2, <2>3, TunnelAssumption
<1> QED
  BY <1>1, <1>2

LEMMA QueueStep ==
  ASSUME QueueInv, [Next]_vars
  PROVE  QueueInv'
<1>1. ASSUME NEW new \in SUBSET Ports, UpdatePorts(new)
      PROVE  QueueInv'
  <2>1. /\ desiredPorts' = new /\ listeners' \subseteq Ports
        /\ NotifyPortChange /\ statePorts' = statePorts
    BY <1>1 DEF UpdatePorts, QueueInv, watchVars
  <2> QED
    BY <2>1, Notified DEF QueueInv
<1>2. CASE Close
  BY <1>2 DEF Close, QueueInv, watchVars
<1>3. ASSUME NEW p \in Ports, RetryPort(p),
             UNCHANGED <<desiredPorts, watchVars>>
      PROVE  QueueInv'
  <2>1. /\ listeners' \subseteq Ports
        /\ NotifyPortChange \/ portUpdateCh' = portUpdateCh
    BY <1>3 DEF RetryPort, QueueInv
  <2> QED
    BY <1>3, <2>1, Notified DEF QueueInv, watchVars
<1>4. ASSUME UNCHANGED <<desiredPorts, listeners, portUpdateCh, statePorts>>
      PROVE  QueueInv'
  BY <1>4 DEF QueueInv
<1>5. ASSUME NEW p \in Ports, Timer(p)
      PROVE  QueueInv'
  BY <1>3, <1>4, <1>5 DEF Timer, TimerFires, StrayTimerFires, RetryCallback,
    StrayCallback, watchVars
<1>6. ASSUME NEW g \in {"reader", "shutdown"}, CloseTaken(g)
      PROVE  QueueInv'
  BY <1>4, <1>6 DEF CloseTaken, watchVars
<1>7. ASSUME NEW c \in Conns, Handler(c)
      PROVE  QueueInv'
  BY <1>4, <1>7 DEF Handler, Accept, RegisterLocal, Dial, RegisterRemote,
    ProxyEnds, UnregisterRemote, UnregisterLocal, watchVars
<1>8. CASE WatchPorts
  <2>1. /\ Head(portUpdateCh) \in SUBSET Ports
        /\ Tail(portUpdateCh) \in Seq(SUBSET Ports)
        /\ Len(Tail(portUpdateCh)) = Len(portUpdateCh) - 1
        /\ Len(portUpdateCh) \in Nat
    BY <1>8, HeadTailProperties, LenProperties DEF WatchPorts, QueueInv
  <2> QED
    BY <1>8, <2>1, TunnelAssumption DEF WatchPorts, QueueInv
<1>9. CASE WatcherStops \/ UNCHANGED vars
  BY <1>4, <1>9 DEF WatcherStops, vars, watchVars
<1> QED
  BY <1>1, <1>2, <1>5, <1>6, <1>7, <1>8, <1>9 DEF Next

-----------------------------------------------------------------------------
(* The connections *)

LEMMA ConnsInit == Init => ConnsInv /\ FlagsInv
  BY DEF Init, ConnsInv, FlagsInv, Positions

\* A connection that is registered, unregistered or closed is a half.
LEMMA ConnsHandler ==
  ASSUME ConnsInv, NEW c \in Conns, Handler(c)
  PROVE  ConnsInv'
<1> DEFINE local == <<c, "local">>
           remote == <<c, "remote">>
<1>1. local \in Halves /\ remote \in Halves /\ connPort[c] \in Ports
  BY DEF Halves, ConnsInv
<1>2. ASSUME NEW side \in {"local", "remote"},
             Registers(c, side) \/ Unregister(c, side)
      PROVE  activeConns' \in [Ports -> SUBSET Halves]
  BY <1>1, <1>2 DEF Registers, Unregister, ConnsInv
<1>3. ASSUME NEW h \in Halves, Shut(h)
      PROVE  /\ open' \subseteq Halves
             /\ toClose' \in [{"reader", "shutdown"} -> SUBSET Halves]
  BY <1>3 DEF Shut, ConnsInv
<1> HIDE DEF local, remote
<1>4. CASE \E p \in Ports : Accept(c, p)
  BY <1>1, <1>4 DEF Accept, ConnsInv, Positions, local
<1>5. CASE RegisterLocal(c)
  BY <1>1, <1>2, <1>3, <1>5 DEF RegisterLocal, ConnsInv, Positions, local
<1>6. CASE Dial(c)
  BY <1>1, <1>6 DEF Dial, ConnsInv, Positions, remote
<1>7. CASE RegisterRemote(c)
  BY <1>1, <1>2, <1>3, <1>7 DEF RegisterRemote, ConnsInv, Positions, remote
<1>8. CASE ProxyEnds(c)
  BY <1>8 DEF ProxyEnds, ConnsInv, Positions
<1>9. CASE UnregisterRemote(c)
  BY <1>1, <1>2, <1>3, <1>9 DEF UnregisterRemote, ConnsInv, Positions, remote
<1>10. CASE UnregisterLocal(c)
  BY <1>1, <1>2, <1>3, <1>10 DEF UnregisterLocal, ConnsInv, Positions, local
<1> QED
  BY <1>4, <1>5, <1>6, <1>7, <1>8, <1>9, <1>10 DEF Handler

\* The halves of some ports are taken out of activeConns.
LEMMA ConnsTaken ==
  ASSUME ConnsInv, NEW S \in SUBSET Ports, NEW g \in {"reader", "shutdown"},
         TakeActive(S), toClose' = [toClose EXCEPT ![g] = Taken(S)],
         UNCHANGED connVars
  PROVE  ConnsInv'
<1>1. Taken(S) \subseteq Halves
  BY DEF Taken, ConnsInv
<1> QED
  BY <1>1 DEF TakeActive, connVars, ConnsInv

LEMMA ConnsStep ==
  ASSUME ConnsInv, FlagsInv, [Next]_vars
  PROVE  ConnsInv' /\ FlagsInv'
<1>1. ASSUME NEW new \in SUBSET Ports, UpdatePorts(new)
      PROVE  ConnsInv' /\ FlagsInv'
  <2>1. /\ TakeActive(Ports \ new)
        /\ toClose' = [toClose EXCEPT !["reader"] = Taken(Ports \ new)]
        /\ UNCHANGED <<connVars, closed, watchVars>>
    BY <1>1 DEF UpdatePorts
  <2> QED
    BY <2>1, ConnsTaken DEF FlagsInv, watchVars
<1>2. CASE Close
  BY <1>2, ConnsTaken DEF Close, FlagsInv, watchVars
<1>3. ASSUME NEW g \in {"reader", "shutdown"}, CloseTaken(g)
      PROVE  ConnsInv' /\ FlagsInv'
  BY <1>3 DEF CloseTaken, ConnsInv, FlagsInv, watchVars
<1>4. ASSUME UNCHANGED <<activeConns, connVars, toClose>>
      PROVE  ConnsInv'
  BY <1>4 DEF ConnsInv, connVars
<1>5. ASSUME UNCHANGED <<closed, watcher>>
      PROVE  FlagsInv'
  BY <1>5 DEF FlagsInv
<1>6. ASSUME NEW p \in Ports, Timer(p)
      PROVE  ConnsInv' /\ FlagsInv'
  BY <1>4, <1>5, <1>6 DEF Timer, TimerFires, StrayTimerFires, RetryCallback,
    StrayCallback, watchVars
<1>7. ASSUME NEW c \in Conns, Handler(c)
      PROVE  ConnsInv' /\ FlagsInv'
  <2>1. UNCHANGED <<closed, watcher>>
    BY <1>7 DEF Handler, Accept, RegisterLocal, Dial, RegisterRemote,
      ProxyEnds, UnregisterRemote, UnregisterLocal, watchVars
  <2> QED
    BY <1>5, <1>7, <2>1, ConnsHandler
<1>8. CASE WatchPorts \/ WatcherStops \/ UNCHANGED vars
  BY <1>4, <1>8 DEF WatchPorts, WatcherStops, vars, watchVars, FlagsInv
<1> QED
  BY <1>1, <1>2, <1>3, <1>6, <1>7, <1>8 DEF Next

-----------------------------------------------------------------------------
(* The ports that are served *)

LEMMA ServedInit == Init => PortsAreServed
  BY DEF Init, PortsAreServed

\* A report: a port of it without a listener has a timer that was not touched,
\* or gets one.
LEMMA ServedUpdate ==
  ASSUME TimersInv, NEW new \in SUBSET Ports, UpdatePorts(new)
  PROVE  PortsAreServed'
<1>1. PICK bound \in SUBSET (new \ listeners) :
        LET settled == (Ports \ new) \cup bound
        IN  /\ listeners' = (listeners \cap new) \cup bound
            /\ retryTimers' = Scheduled(Cancelled(settled), new \ listeners')
  BY DEF UpdatePorts
<1>2. desiredPorts' = new /\ closed' = closed
  BY DEF UpdatePorts
<1>3. ASSUME ~closed, NEW p \in new \ listeners'
      PROVE  retryTimers'[p] # "none"
  BY <1>1, <1>3 DEF Scheduled
<1> QED
  BY <1>1, <1>2, <1>3 DEF PortsAreServed

\* A callback, of a timer of the map or of one that the map no longer holds:
\* the entry it deletes is that of its own port, which it serves or retries.
LEMMA ServedRetry ==
  ASSUME PortsAreServed, TimersInv, QueueInv, NEW p \in Ports, RetryPort(p),
         UNCHANGED <<desiredPorts, closed>>
  PROVE  PortsAreServed'
<1> USE DEF PortsAreServed, TimersInv, QueueInv
<1>1. CASE closed
  BY <1>1
<1>2. CASE ~closed /\ p \notin desiredPorts
  BY <1>2 DEF RetryPort
<1>3. CASE ~closed /\ p \in desiredPorts
  BY <1>3 DEF RetryPort
<1> QED
  BY <1>1, <1>2, <1>3

LEMMA ServedStep ==
  ASSUME PortsAreServed, TimersInv, QueueInv, [Next]_vars
  PROVE  PortsAreServed'
<1>1. ASSUME NEW new \in SUBSET Ports, UpdatePorts(new)
      PROVE  PortsAreServed'
  BY <1>1, ServedUpdate
<1>2. CASE Close
  BY <1>2 DEF Close, PortsAreServed
<1>3. ASSUME UNCHANGED <<desiredPorts, listeners, closed, retryTimers>>
      PROVE  PortsAreServed'
  BY <1>3 DEF PortsAreServed
<1>4. ASSUME NEW p \in Ports, Timer(p)
      PROVE  PortsAreServed'
  <2>1. CASE TimerFires(p)
    BY <2>1 DEF TimerFires, PortsAreServed, TimersInv, QueueInv
  <2>2. CASE StrayTimerFires(p)
    BY <1>3, <2>2 DEF StrayTimerFires
  <2>3. CASE RetryCallback(p) \/ StrayCallback(p)
    BY <2>3, ServedRetry DEF RetryCallback, StrayCallback
  <2> QED
    BY <1>4, <2>1, <2>2, <2>3 DEF Timer
<1>5. ASSUME NEW g \in {"reader", "shutdown"}, CloseTaken(g)
      PROVE  PortsAreServed'
  BY <1>3, <1>5 DEF CloseTaken, timerVars
<1>6. ASSUME NEW c \in Conns, Handler(c)
      PROVE  PortsAreServed'
  BY <1>3, <1>6 DEF Handler, Accept, RegisterLocal, Dial, RegisterRemote,
    ProxyEnds, UnregisterRemote, UnregisterLocal, timerVars
<1>7. CASE WatchPorts \/ WatcherStops \/ UNCHANGED vars
  BY <1>3, <1>7 DEF WatchPorts, WatcherStops, vars, timerVars
<1> QED
  BY <1>1, <1>2, <1>4, <1>5, <1>6, <1>7 DEF Next

-----------------------------------------------------------------------------
(* The connections that are tracked *)

LEMMA TrackedInit == Init => TrackedInv
  BY DEF Init, TrackedInv, Halves

\* The halves of the ports S are taken, by a goroutine that has closed all
\* that it took before.
LEMMA TrackedTaken ==
  ASSUME ConnsInv, TrackedInv,
         NEW S \in SUBSET Ports, NEW g \in {"reader", "shutdown"},
         TakeActive(S), toClose[g] = {},
         toClose' = [toClose EXCEPT ![g] = Taken(S)],
         UNCHANGED connVars,
         NEW c \in Conns, handler[c] \in {"dialing", "opened", "proxying"}
  PROVE  Tracked(c, "local")'
<1>1. Tracked(c, "local")
  BY DEF TrackedInv
<1>2. connPort[c] \in Ports /\ connPort' = connPort /\ open' = open
  BY DEF ConnsInv, connVars
<1>3. \A k \in {"reader", "shutdown"} :
        toClose'[k] = IF k = g THEN Taken(S) ELSE toClose[k]
  BY DEF ConnsInv
<1>4. CASE <<c, "local">> \in activeConns[connPort[c]]
  <2>1. CASE connPort[c] \in S
    BY <1>3, <1>4, <2>1 DEF Taken, Tracked
  <2>2. CASE connPort[c] \notin S
    BY <1>2, <1>4, <2>2 DEF TakeActive, Tracked
  <2> QED
    BY <2>1, <2>2
<1>5. CASE <<c, "local">> \notin activeConns[connPort[c]]
  BY <1>1, <1>2, <1>3, <1>5 DEF Tracked
<1> QED
  BY <1>4, <1>5

\* A handler leaves the halves of other connections where they are.
LEMMA HandlersApart ==
  ASSUME ConnsInv, NEW c \in Conns, Handler(c), NEW d \in Conns \ {c}
  PROVE  /\ handler'[d] = handler[d]
         /\ Tracked(d, "local") => Tracked(d, "local")'
<1> DEFINE h == <<d, "local">>
           Apart == /\ handler'[d] = handler[d] /\ connPort'[d] = connPort[d]
                    /\ h \in open' => h \in open
                    /\ \A p \in Ports : h \in activeConns[p] =>
                                        h \in activeConns'[p]
                    /\ \A g \in {"reader", "shutdown"} :
                         h \in toClose[g] => h \in toClose'[g]
<1>1. \A side \in {"local", "remote"} : h # <<c, side>>
  OBVIOUS
<1>2. h = <<d, "local">> /\ connPort[d] \in Ports
  BY DEF ConnsInv
<1> HIDE DEF h
<1>3. ASSUME \E p \in Ports : Accept(c, p)
      PROVE  Apart
  BY <1>1, <1>3 DEF Accept, ConnsInv
<1>4. ASSUME RegisterLocal(c)
      PROVE  Apart
  BY <1>1, <1>4 DEF RegisterLocal, Registers, Shut, ConnsInv
<1>5. ASSUME Dial(c)
      PROVE  Apart
  BY <1>1, <1>5 DEF Dial, ConnsInv
<1>6. ASSUME RegisterRemote(c)
      PROVE  Apart
  BY <1>1, <1>6 DEF RegisterRemote, Registers, Shut, ConnsInv
<1>7. ASSUME ProxyEnds(c)
      PROVE  Apart
  BY <1>7 DEF ProxyEnds, ConnsInv
<1>8. ASSUME UnregisterRemote(c)
      PROVE  Apart
  BY <1>1, <1>8 DEF UnregisterRemote, Unregister, Shut, ConnsInv
<1>9. ASSUME UnregisterLocal(c)
      PROVE  Apart
  BY <1>1, <1>9 DEF UnregisterLocal, Unregister, Shut, ConnsInv
<1>10. Apart
  BY <1>3, <1>4, <1>5, <1>6, <1>7, <1>8, <1>9 DEF Handler
<1> QED
  BY <1>2, <1>10 DEF Tracked

\* Its own accepted half is registered before the handler dials, and stays so.
LEMMA HandlerTracks ==
  ASSUME ConnsInv, TrackedInv, NEW c \in Conns, Handler(c),
         handler'[c] \in {"dialing", "opened", "proxying"}
  PROVE  Tracked(c, "local")'
<1> DEFINE h == <<c, "local">>
           r == <<c, "remote">>
<1>1. h # r
  OBVIOUS
<1>2. connPort[c] \in Ports /\ (handler[c] \in {"dialing", "opened"} =>
                                  Tracked(c, "local"))
  BY DEF ConnsInv, TrackedInv
<1> HIDE DEF h, r
<1>3. CASE RegisterLocal(c)
  <2>1. /\ connPort' = connPort
        /\ activeConns' = [activeConns EXCEPT ![connPort[c]] = @ \cup {h}]
    BY <1>3 DEF RegisterLocal, Registers, ConnsInv, h
  <2>2. h \in activeConns'[connPort'[c]]
    BY <1>2, <2>1 DEF ConnsInv
  <2> QED
    BY <2>2 DEF Tracked, h
<1>4. CASE Dial(c)
  <2>1. /\ handler[c] = "dialing" /\ open' \subseteq open \cup {r}
        /\ UNCHANGED <<activeConns, connPort, toClose>>
    BY <1>4 DEF Dial, r
  <2>2. h \in open' => h \in open
    BY <1>1, <2>1
  <2> QED
    BY <1>2, <2>1, <2>2 DEF Tracked, h
<1>5. CASE RegisterRemote(c)
  <2>1. /\ handler[c] = "opened" /\ UNCHANGED <<open, toClose, connPort>>
        /\ activeConns' = [activeConns EXCEPT ![connPort[c]] = @ \cup {r}]
    BY <1>5 DEF RegisterRemote, Registers, ConnsInv, r
  <2>2. h \in activeConns[connPort[c]] => h \in activeConns'[connPort[c]]
    BY <1>2, <2>1 DEF ConnsInv
  <2> QED
    BY <1>2, <2>1, <2>2 DEF Tracked, h
<1>6. handler \in [Conns -> Positions]
  BY DEF ConnsInv
<1> QED
  BY <1>3, <1>4, <1>5, <1>6 DEF Handler, Accept, ProxyEnds, UnregisterRemote,
    UnregisterLocal

\* A half is registered only while its port is wanted.
LEMMA HandlerRegisters ==
  ASSUME ConnsInv, TrackedInv, NEW c \in Conns, Handler(c)
  PROVE  /\ desiredPorts' = desiredPorts /\ closed' = closed
         /\ \A p \in Ports :
              activeConns'[p] # {} => p \in desiredPorts /\ ~closed
         /\ ~closed => toClose'["shutdown"] = {}
<1>1. UNCHANGED <<desiredPorts, closed>>
  BY DEF Handler, Accept, RegisterLocal, Dial, RegisterRemote, ProxyEnds,
    UnregisterRemote, UnregisterLocal
<1>2. ASSUME NEW side \in {"local", "remote"}, Registers(c, side)
      PROVE  \A p \in Ports :
               activeConns'[p] # {} => p \in desiredPorts /\ ~closed
  BY <1>2 DEF Registers, ConnsInv, TrackedInv
<1>3. ASSUME NEW side \in {"local", "remote"},
             Unregister(c, side) \/ UNCHANGED activeConns
      PROVE  \A p \in Ports :
               activeConns'[p] # {} => p \in desiredPorts /\ ~closed
  BY <1>3 DEF Unregister, ConnsInv, TrackedInv
<1>4. ASSUME NEW h, Shut(h) \/ UNCHANGED toClose
      PROVE  ~closed => toClose'["shutdown"] = {}
  BY <1>4 DEF Shut, ConnsInv, TrackedInv
<1>5. \E side \in {"local", "remote"} :
        Registers(c, side) \/ Unregister(c, side) \/ UNCHANGED activeConns
  BY DEF Handler, Accept, RegisterLocal, Dial, RegisterRemote, ProxyEnds,
    UnregisterRemote, UnregisterLocal
<1>6. \E h : Shut(h) \/ UNCHANGED toClose
  BY DEF Handler, Accept, RegisterLocal, Dial, RegisterRemote, ProxyEnds,
    UnregisterRemote, UnregisterLocal
<1> QED
  BY <1>1, <1>2, <1>3, <1>4, <1>5, <1>6

LEMMA TrackedStep ==
  ASSUME ConnsInv, TrackedInv, [Next]_vars
  PROVE  TrackedInv'
<1> DEFINE Up == {"dialing", "opened", "proxying"}
<1>1. ASSUME NEW new \in SUBSET Ports, UpdatePorts(new)
      PROVE  TrackedInv'
  <2>1. /\ TakeActive(Ports \ new) /\ toClose["reader"] = {}
        /\ toClose' = [toClose EXCEPT !["reader"] = Taken(Ports \ new)]
        /\ desiredPorts' = new /\ UNCHANGED <<connVars, closed>>
    BY <1>1 DEF UpdatePorts
  <2>2. \A c \in Conns : handler'[c] \in Up => Tracked(c, "local")'
    BY <2>1, TrackedTaken DEF connVars
  <2>3. \A p \in Ports : activeConns'[p] # {} => p \in new /\ ~closed
    BY <2>1 DEF TakeActive, TrackedInv
  <2>4. ~closed => toClose'["shutdown"] = {}
    BY <2>1 DEF TrackedInv, ConnsInv
  <2> QED
    BY <2>1, <2>2, <2>3, <2>4 DEF TrackedInv
<1>2. CASE Close
  <2>1. /\ TakeActive(Ports) /\ toClose["shutdown"] = {} /\ closed' = TRUE
        /\ toClose' = [toClose EXCEPT !["shutdown"] = Taken(Ports)]
        /\ UNCHANGED connVars
    BY <1>2 DEF Close, TrackedInv
  <2>2. \A c \in Conns : handler'[c] \in Up => Tracked(c, "local")'
    BY <2>1, TrackedTaken DEF connVars
  <2> QED
    BY <2>1, <2>2 DEF TrackedInv, TakeActive
<1>3. ASSUME NEW g \in {"reader", "shutdown"}, CloseTaken(g)
      PROVE  TrackedInv'
  <2>1. PICK h \in toClose[g] :
          /\ open' = open \ {h} /\ toClose' = [toClose EXCEPT ![g] = @ \ {h}]
    BY <1>3 DEF CloseTaken
  <2>2. UNCHANGED <<activeConns, handler, connPort, desiredPorts, closed>>
    BY <1>3 DEF CloseTaken
  <2>3. \A k \in {"reader", "shutdown"} :
          toClose'[k] = IF k = g THEN toClose[k] \ {h} ELSE toClose[k]
    BY <2>1 DEF ConnsInv
  <2>4. ASSUME NEW c \in Conns, Tracked(c, "local")
        PROVE  Tracked(c, "local")'
    BY <2>1, <2>2, <2>3, <2>4 DEF Tracked, connVars
  <2>5. \A c \in Conns : handler'[c] \in Up => Tracked(c, "local")'
    BY <2>2, <2>4 DEF TrackedInv, connVars
  <2>6. /\ \A p \in Ports :
             activeConns'[p] # {} => p \in desiredPorts' /\ ~closed'
        /\ ~closed' => toClose'["shutdown"] = {}
    BY <2>2, <2>3 DEF TrackedInv
  <2> QED
    BY <2>5, <2>6 DEF TrackedInv
<1>4. ASSUME NEW c \in Conns, Handler(c)
      PROVE  TrackedInv'
  <2>1. \A d \in Conns \ {c} : handler'[d] \in Up => Tracked(d, "local")'
    BY <1>4, HandlersApart DEF TrackedInv
  <2>2. handler'[c] \in Up => Tracked(c, "local")'
    BY <1>4, HandlerTracks
  <2> QED
    BY <1>4, <2>1, <2>2, HandlerRegisters DEF TrackedInv
<1>5. ASSUME UNCHANGED <<desiredPorts, closed, activeConns, connVars, toClose>>
      PROVE  TrackedInv'
  BY <1>5 DEF TrackedInv, Tracked, connVars
<1>6. ASSUME NEW p \in Ports, Timer(p)
      PROVE  TrackedInv'
  BY <1>5, <1>6 DEF Timer, TimerFires, StrayTimerFires, RetryCallback,
    StrayCallback
<1>7. CASE WatchPorts \/ WatcherStops \/ UNCHANGED vars
  BY <1>5, <1>7 DEF WatchPorts, WatcherStops, vars
<1> QED
  BY <1>1, <1>2, <1>3, <1>4, <1>6, <1>7 DEF Next

-----------------------------------------------------------------------------
(* The theorems *)

\* One step, for the compositions that take the same steps.
LEMMA TunnelInvStep ==
  ASSUME TunnelInv, [Next]_vars
  PROVE  TunnelInv'
  BY TimersStep, QueueStep, ConnsStep, ServedStep, TrackedStep DEF TunnelInv

LEMMA TunnelInit == Init => TunnelInv
  BY TimersInit, QueueInit, ConnsInit, ServedInit, TrackedInit DEF TunnelInv

LEMMA TunnelInvariant == Spec => []TunnelInv
<1>1. TunnelInv /\ [Next]_vars => TunnelInv'
  BY TunnelInvStep
<1> QED
  BY TunnelInit, <1>1, PTL DEF Spec

LEMMA TunnelTypes == TunnelInv => TypeOK
<1>1. ASSUME TimersInv, NEW p \in Ports
      PROVE  strayArmed[p] \in 0..MaxStray /\ strayFired[p] \in 0..MaxStray
  BY <1>1, TunnelAssumption DEF TimersInv, Late
<1>2. TimersInv => /\ strayArmed \in [Ports -> 0..MaxStray]
                   /\ strayFired \in [Ports -> 0..MaxStray]
  BY <1>1 DEF TimersInv
<1> QED
  BY <1>2 DEF TunnelInv, TypeOK, TimersInv, QueueInv, ConnsInv, FlagsInv,
    Positions

\* The queue of mappings never outgrows its capacity, and a port never has
\* more late timers than were let go.
THEOREM TypeCorrect == Spec => []TypeOK
  BY TunnelInvariant, TunnelTypes, PTL

\* Until Close, every reported port has its listener or a timer that will try
\* again, and no other port has one, however late a stopped timer's callback
\* gets the mutex.
THEOREM PortsServed == Spec => []PortsAreServed
<1>1. TunnelInv => PortsAreServed
  BY DEF TunnelInv
<1> QED
  BY TunnelInvariant, <1>1, PTL

LEMMA TrackedConnections == TunnelInv => NoOrphanConnection
<1> SUFFICES ASSUME TunnelInv, NEW c \in Conns, handler[c] = "proxying",
                    closed \/ connPort[c] \notin desiredPorts
             PROVE  \/ <<c, "local">> \notin open
                    \/ \E g \in {"reader", "shutdown"} :
                         <<c, "local">> \in toClose[g]
  BY DEF NoOrphanConnection, TunnelInv, ConnsInv
<1>1. activeConns[connPort[c]] = {}
  BY DEF TunnelInv, ConnsInv, TrackedInv
<1>2. Tracked(c, "local")
  BY DEF TunnelInv, TrackedInv
<1> QED
  BY <1>1, <1>2 DEF Tracked

\* No connection is proxied on after its port went or the manager was closed,
\* wherever its handler stood between accept and proxy.
THEOREM NoOrphans == Spec => []NoOrphanConnection
  BY TunnelInvariant, TrackedConnections, PTL
=============================================================================
