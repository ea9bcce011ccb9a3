------------------------- MODULE PortReportProofs -------------------------
(***************************************************************************)
(* The composition of endpoint, bridge and host implements TunnelManager:   *)
(* each of its steps is one that TunnelManager allows, or none of it, so    *)
(* that what is proved of the manager holds here.  And what the endpoint    *)
(* believes it has reported is what the host forwards, for every number of  *)
(* endpoints, of ports, and of reports under way.                           *)
(*                                                                         *)
(* ReportedInv is about the latest ports on their way to the manager: the   *)
(* newest report that is under way, or what the manager has when none is.   *)
(***************************************************************************)
EXTENDS PortReport, TunnelManagerProofs

ReportTypes ==
  /\ sockets \in Tables /\ bridge \in {"down", "up"}
  /\ endpoints \in 0..MaxEndpoints
  /\ currentPorts \in Tables /\ portsReported \in BOOLEAN
  /\ portAddresses \in [Ports -> Addresses \cup {"unknown"}]
  /\ scan \in {"idle", "found", "sent"} /\ found \in Tables
  /\ control \in Seq(Tables) /\ Len(control) <= ControlSize

Latest ==
  IF control = <<>> THEN desiredPorts ELSE PortsOf(control[Len(control)])

ReportedInv ==
  /\ scan = "sent" => Latest = PortsOf(found)
  /\ bridge = "up" /\ portsReported /\ scan # "sent" =>
       Latest = PortsOf(currentPorts)
  /\ bridge = "down" => ~portsReported /\ scan = "idle"

ReportInv == TunnelInv /\ ReportTypes /\ ReportedInv

-----------------------------------------------------------------------------
(* The tunnel manager within the composition *)

\* A step of the manager alone leaves the wanted ports and the endpoint as
\* they are.
LEMMA ManagerSteps ==
  ASSUME TunnelStep \/ \E c \in Conns : Connection(c)
  PROVE  Next /\ UNCHANGED <<desiredPorts, reportVars>>
<1>1. ASSUME NEW c \in Conns, Handler(c)
      PROVE  Next /\ desiredPorts' = desiredPorts
  BY <1>1 DEF Next, Handler, Accept, RegisterLocal, Dial, RegisterRemote,
    ProxyEnds, UnregisterRemote, UnregisterLocal
<1>2. CASE \E c \in Conns : Connection(c)
  BY <1>1, <1>2 DEF Connection
<1>3. ASSUME NEW p \in Ports, Timer(p)
      PROVE  Next /\ desiredPorts' = desiredPorts
  BY <1>3 DEF Next, Timer, TimerFires, StrayTimerFires, RetryCallback,
    StrayCallback
<1>4. ASSUME NEW g \in {"reader", "shutdown"}, CloseTaken(g)
      PROVE  Next /\ desiredPorts' = desiredPorts
  BY <1>4 DEF Next, CloseTaken
<1>5. ASSUME Close \/ WatchPorts \/ WatcherStops
      PROVE  Next /\ desiredPorts' = desiredPorts
  BY <1>5 DEF Next, Close, WatchPorts, WatcherStops
<1>6. CASE TunnelStep
  BY <1>3, <1>4, <1>5, <1>6 DEF TunnelStep
<1> QED
  BY <1>2, <1>6

\* A table has ports of the manager.
LEMMA PortsOfTable == \A table : PortsOf(table) \in SUBSET Ports
  BY DEF PortsOf

\* A step of the composition is a step of the manager, or none of it.
LEMMA ReportStep ==
  ASSUME [ReportNext]_allVars
  PROVE  [Next]_vars
<1>1. CASE HandleReport
  BY <1>1, PortsOfTable DEF HandleReport, Next
<1>2. CASE TunnelStep \/ \E c \in Conns : Connection(c)
  BY <1>2, ManagerSteps
<1>3. CASE ScanPorts \/ SendReport \/ SendFails \/ RecordReport
  BY <1>3 DEF ScanPorts, SendReport, SendFails, RecordReport
<1>4. CASE BridgeFails \/ EndpointStarts \/ SocketsChange
  BY <1>4 DEF BridgeFails, EndpointStarts, SocketsChange
<1>5. CASE UNCHANGED allVars
  BY <1>5 DEF allVars
<1> QED
  BY <1>1, <1>2, <1>3, <1>4, <1>5 DEF ReportNext

\* What scanners, reports, failing bridges and new endpoints do to the manager
\* is nothing that TunnelManager does not allow.
THEOREM ReportsDriveTunnels == ReportSpec => Spec
<1>1. ReportInit => Init
  BY DEF ReportInit
<1>2. [ReportNext]_allVars => [Next]_vars
  BY ReportStep
<1> QED
  BY <1>1, <1>2, PTL DEF ReportSpec, Spec

\* Ports are served and connections are closed as TunnelManager promises while
\* bridges fail and endpoints are replaced.
THEOREM ReportedPortsServed ==
  ReportSpec => [](PortsAreServed /\ NoOrphanConnection)
  BY ReportsDriveTunnels, PortsServed, NoOrphans, PTL

-----------------------------------------------------------------------------
(* The types of the endpoint *)

\* The preferred address is one of the addresses of the port.
LEMMA PreferredIsThere ==
  ASSUME NEW addresses \in SUBSET Addresses, addresses # {}
  PROVE  Preferred(addresses) \in addresses
<1> DEFINE rank == <<"0.0.0.0", "::", "own", "127.0.0.1", "::1">>
           has(i) == rank[i] \in addresses
           first(i) == has(i) /\ \A j \in 1..(i - 1) : ~has(j)
<1>1. has(1) \/ has(2) \/ has(3) \/ has(4) \/ has(5)
  BY DEF Addresses
<1> HIDE DEF has
<1>2. \E i \in 1..5 : first(i)
  <2>1. CASE has(1)
    BY <2>1
  <2>2. CASE ~has(1) /\ has(2)
    BY <2>2
  <2>3. CASE ~has(1) /\ ~has(2) /\ has(3)
    BY <2>3
  <2>4. CASE ~has(1) /\ ~has(2) /\ ~has(3) /\ has(4)
    BY <2>4
  <2>5. CASE ~has(1) /\ ~has(2) /\ ~has(3) /\ ~has(4) /\ has(5)
    BY <2>5
  <2> QED
    BY <1>1, <2>1, <2>2, <2>3, <2>4, <2>5
<1> DEFINE best == CHOOSE i \in 1..5 : first(i)
<1>3. first(best)
  BY <1>2
<1>4. Preferred(addresses) = rank[best]
  BY DEF Preferred, has
<1> QED
  BY <1>3, <1>4 DEF has

LEMMA EmptyTable == Nothing \in Tables
  BY PortReportAssumption DEF Nothing, Tables

LEMMA ReportTypesInit == ReportInit => ReportTypes
<1> SUFFICES ASSUME ReportInit PROVE ReportTypes
  OBVIOUS
<1>1. control \in Seq(Tables) /\ Len(control) <= ControlSize
  BY PortReportAssumption, EmptySeq DEF ReportInit
<1>2. portAddresses \in [Ports -> Addresses \cup {"unknown"}]
  BY DEF ReportInit, Unknown
<1>3. sockets \in Tables /\ currentPorts \in Tables /\ found \in Tables
  BY EmptyTable DEF ReportInit
<1>4. /\ bridge \in {"down", "up"} /\ endpoints \in 0..MaxEndpoints
      /\ scan \in {"idle", "found", "sent"}
  BY PortReportAssumption DEF ReportInit
<1>5. portsReported \in BOOLEAN
  BY DEF ReportInit
<1> QED
  BY <1>1, <1>2, <1>3, <1>4, <1>5 DEF ReportTypes

LEMMA ReportTypesStep ==
  ASSUME ReportTypes, [ReportNext]_allVars
  PROVE  ReportTypes'
<1>1. Len(control) \in Nat
  BY LenProperties DEF ReportTypes
<1>2. CASE UNCHANGED reportVars
  BY <1>2 DEF reportVars, portState, scanVars, ReportTypes
<1>3. CASE ScanPorts
  BY <1>3 DEF ScanPorts, portState, ReportTypes
<1>4. CASE SendReport
  <2>1. /\ Append(control, found) \in Seq(Tables)
        /\ Len(Append(control, found)) = Len(control) + 1
    BY AppendProperties DEF ReportTypes
  <2> QED
    BY <1>1, <1>4, <2>1, PortReportAssumption
    DEF SendReport, portState, ReportTypes
<1>5. CASE SendFails
  BY <1>5, EmptyTable DEF SendFails, portState, ReportTypes
<1>6. CASE RecordReport
  <2>1. ASSUME NEW p \in PortsOf(found)
        PROVE  Preferred(found[p]) \in Addresses
    <3>1. found[p] \in SUBSET Addresses /\ found[p] # {}
      BY PortReportAssumption DEF PortsOf, ReportTypes, Tables
    <3> QED
      BY <3>1, PreferredIsThere
  <2>2. portAddresses' \in [Ports -> Addresses \cup {"unknown"}]
    BY <1>6, <2>1 DEF RecordReport
  <2> QED
    BY <1>6, <2>2, EmptyTable DEF RecordReport, ReportTypes
<1>7. CASE HandleReport
  <2>1. /\ Tail(control) \in Seq(Tables)
        /\ Len(Tail(control)) = Len(control) - 1
    BY <1>7, HeadTailProperties DEF HandleReport, ReportTypes
  <2>2. Len(Tail(control)) <= ControlSize
    BY <1>1, <2>1, PortReportAssumption DEF ReportTypes
  <2> QED
    BY <1>7, <2>1, <2>2 DEF HandleReport, portState, scanVars, ReportTypes
<1>8. CASE BridgeFails
  <2>1. PICK n \in 0..Len(control) : control' = SubSeq(control, 1, n)
    BY <1>8 DEF BridgeFails
  <2>2. control' \in Seq(Tables) /\ Len(control') = n
    <3>1. CASE n = 0
      BY <2>1, <3>1, SubSeqProperties DEF ReportTypes
    <3>2. CASE n # 0
      BY <1>1, <2>1, <3>2, SubSeqProperties DEF ReportTypes
    <3> QED
      BY <3>1, <3>2
  <2>3. Len(control') <= ControlSize
    BY <1>1, <2>2, PortReportAssumption DEF ReportTypes
  <2> QED
    BY <1>8, <2>2, <2>3, EmptyTable DEF BridgeFails, ReportTypes, Unknown
<1>9. CASE EndpointStarts
  BY <1>9, PortReportAssumption
  DEF EndpointStarts, portState, scanVars, ReportTypes
<1>10. CASE SocketsChange
  BY <1>10 DEF SocketsChange, portState, scanVars, ReportTypes
<1>11. CASE TunnelStep \/ \E c \in Conns : Connection(c)
  BY <1>2, <1>11, ManagerSteps
<1>12. CASE UNCHANGED allVars
  BY <1>2, <1>12 DEF allVars
<1> QED
  BY <1>3, <1>4, <1>5, <1>6, <1>7, <1>8, <1>9, <1>10, <1>11, <1>12
  DEF ReportNext

-----------------------------------------------------------------------------
(* What has been reported *)

LEMMA ReportedInit == ReportInit => ReportedInv
  BY DEF ReportInit, ReportedInv

\* The manager takes the oldest report: the newest stays the newest.
LEMMA LatestHandled ==
  ASSUME ReportTypes, HandleReport
  PROVE  Latest' = Latest
<1>1. /\ control # <<>> /\ control \in Seq(Tables) /\ control' = Tail(control)
      /\ desiredPorts' = PortsOf(Head(control))
  BY DEF HandleReport, UpdatePorts, ReportTypes
<1>2. /\ Len(control) \in Nat \ {0}
      /\ Len(Tail(control)) = Len(control) - 1
      /\ \A i \in 1..Len(Tail(control)) : Tail(control)[i] = control[i + 1]
      /\ Head(control) = control[1]
  BY <1>1, HeadTailProperties, LenProperties, EmptySeq
<1>3. CASE Tail(control) = <<>>
  <2>1. Len(control) = 1
    BY <1>2, <1>3
  <2> QED
    BY <1>1, <1>2, <1>3, <2>1 DEF Latest
<1>4. CASE Tail(control) # <<>>
  <2>1. Tail(control) \in Seq(Tables) /\ Len(Tail(control)) # 0
    BY <1>1, <1>4, HeadTailProperties, EmptySeq
  <2>2. Tail(control)[Len(Tail(control))] = control[Len(control)]
    BY <1>2, <2>1
  <2> QED
    BY <1>1, <1>4, <2>2 DEF Latest, PortsOf
<1> QED
  BY <1>3, <1>4

LEMMA LatestSent ==
  ASSUME ReportTypes, SendReport
  PROVE  Latest' = PortsOf(found)
<1>1. /\ control' = Append(control, found) /\ control \in Seq(Tables)
      /\ found \in Tables
  BY DEF SendReport, ReportTypes
<1>2. /\ Len(control') = Len(control) + 1 /\ control'[Len(control) + 1] = found
      /\ control' # <<>>
  BY <1>1, AppendProperties, LenProperties
<1> QED
  BY <1>2 DEF Latest, PortsOf

LEMMA ReportedStep ==
  ASSUME ReportTypes, ReportedInv, [ReportNext]_allVars
  PROVE  ReportedInv'
<1>1. CASE ScanPorts
  BY <1>1 DEF ScanPorts, vars, portState, ReportedInv, Latest
<1>2. CASE SendReport
  BY <1>2, LatestSent DEF SendReport, portState, ReportedInv, ReportTypes
<1>3. CASE SendFails
  BY <1>3 DEF SendFails, vars, portState, ReportedInv, Latest
<1>4. CASE RecordReport
  BY <1>4 DEF RecordReport, vars, ReportedInv, ReportTypes, Latest
<1>5. CASE HandleReport
  <2>1. UNCHANGED <<bridge, portState, scanVars>>
    BY <1>5 DEF HandleReport
  <2> QED
    BY <1>5, <2>1, LatestHandled DEF ReportedInv, portState, scanVars
<1>6. CASE BridgeFails
  BY <1>6 DEF BridgeFails, ReportedInv
<1>7. CASE EndpointStarts
  BY <1>7 DEF EndpointStarts, vars, portState, scanVars, ReportedInv, Latest
<1>8. ASSUME UNCHANGED <<desiredPorts, bridge, portState, scanVars, control>>
      PROVE  ReportedInv'
  BY <1>8 DEF portState, scanVars, ReportedInv, Latest, PortsOf
<1>9. CASE SocketsChange
  BY <1>8, <1>9 DEF SocketsChange, vars
<1>10. CASE TunnelStep \/ \E c \in Conns : Connection(c)
  BY <1>8, <1>10, ManagerSteps DEF reportVars
<1>11. CASE UNCHANGED allVars
  BY <1>8, <1>11 DEF allVars, vars, reportVars
<1> QED
  BY <1>1, <1>2, <1>3, <1>4, <1>5, <1>6, <1>7, <1>9, <1>10, <1>11
  DEF ReportNext

-----------------------------------------------------------------------------
(* The theorems *)

LEMMA ReportInvariant == ReportSpec => []ReportInv
<1>1. ReportInit => ReportTypes /\ ReportedInv
  BY ReportTypesInit, ReportedInit
<1>2. /\ ReportTypes /\ ReportedInv /\ [ReportNext]_allVars
      => ReportTypes' /\ ReportedInv'
  BY ReportTypesStep, ReportedStep
<1>3. ReportSpec => []TunnelInv
  BY ReportsDriveTunnels, TunnelInvariant, PTL
<1>4. ReportSpec => [](ReportTypes /\ ReportedInv)
  BY <1>1, <1>2, PTL DEF ReportSpec
<1>5. TunnelInv /\ ReportTypes /\ ReportedInv => ReportInv
  BY DEF ReportInv
<1> QED
  BY <1>3, <1>4, <1>5, PTL

\* A new endpoint's addresses and every report under way are tables.
THEOREM ReportTypeCorrect == ReportSpec => []ReportTypeOK
<1>1. ReportInv => ReportTypeOK
  BY TunnelTypes DEF ReportInv, ReportTypes, ReportTypeOK
<1> QED
  BY ReportInvariant, <1>1, PTL

\* Once its reports have arrived, the host forwards what the endpoint believes
\* it has reported, after sends that failed and endpoints that were replaced.
THEOREM ReportedDesired == ReportSpec => []ReportedIsDesired
<1>1. ReportInv => ReportedIsDesired
  BY DEF ReportInv, ReportedInv, ReportedIsDesired, Latest
<1> QED
  BY ReportInvariant, <1>1, PTL
=============================================================================
