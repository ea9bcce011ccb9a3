----------------------------- MODULE PortReport -----------------------------
(***************************************************************************)
(* From a socket that listens in the container to the listener on the      *)
(* host: the port scanner and the tunnel streams of the endpoint            *)
(* (internal/endpoint/server.go, portscanner.go), the control messages      *)
(* between it and the instance, and TunnelManager, over a bridge that fails *)
(* and is replaced by one to a new endpoint.                                *)
(*                                                                         *)
(* A table gives the addresses that listen on each port; an endpoint reads  *)
(* it at once.                                                              *)
(* The scanner of an endpoint whose bridge has failed can no longer send:   *)
(* only the newest endpoint is kept.                                        *)
(***************************************************************************)
EXTENDS TunnelManager

CONSTANTS
  Binds,        \* the sets of addresses that may listen on a port
  ControlSize,  \* reports under way to the host
  MaxEndpoints  \* bound: endpoints that are started one after the other

Addresses == {"0.0.0.0", "127.0.0.1", "own", "::", "::1"}

ASSUME PortReportAssumption ==
  /\ {} \in Binds /\ Binds \subseteq SUBSET Addresses
  /\ ControlSize \in Nat \ {0} /\ MaxEndpoints \in Nat

Tables == [Ports -> Binds]
Nothing == [p \in Ports |-> {}]

VARIABLES
  sockets,       \* the container's listening sockets
  bridge,        \* the newest bridge
  endpoints,     \* endpoints started so far
  \* the newest endpoint: what it has reported, and where it dials
  currentPorts, portsReported, portAddresses,
  scan,          \* its scanner: waits, has found a change, has reported it
  found,         \* the sockets it has found
  control        \* reports the host has not received

scanVars   == <<scan, found>>
portState  == <<currentPorts, portsReported, portAddresses>>
reportVars == <<sockets, bridge, endpoints, portState, scanVars, control>>
allVars    == <<vars, reportVars>>

\* A port whose address the endpoint does not know.
Unknown == [p \in Ports |-> "unknown"]

ReportTypeOK ==
  /\ TypeOK
  /\ sockets \in Tables /\ bridge \in {"down", "up"}
  /\ endpoints \in 0..MaxEndpoints
  /\ currentPorts \in Tables /\ portsReported \in BOOLEAN
  /\ portAddresses \in [Ports -> Addresses \cup {"unknown"}]
  /\ scan \in {"idle", "found", "sent"} /\ found \in Tables
  /\ control \in Seq(Tables) /\ Len(control) <= ControlSize

ReportInit ==
  /\ Init
  /\ sockets \in Tables
  /\ bridge = "down" /\ endpoints = 0
  /\ currentPorts = Nothing /\ portsReported = FALSE /\ portAddresses = Unknown
  /\ scan = "idle" /\ found = Nothing
  /\ control = <<>>

\* The port numbers of a table: UpdatePorts does not look at addresses.
PortsOf(table) == {p \in Ports : table[p] # {}}

-----------------------------------------------------------------------------
(* The scanner: runPortScanner, scanAndReport, reportPorts *)

\* Fault: only new and closed port numbers count as a change.
IsNew_ByNumber(table) ==
  ~portsReported \/ PortsOf(table) # PortsOf(currentPorts)

\* The first report replaces what an earlier endpoint reported.
IsNew(table) == ~portsReported \/ table # currentPorts

\* A scan; one that finds no change, or fails, leaves everything as it is.
ScanPorts ==
  /\ bridge = "up" /\ scan = "idle" /\ IsNew(sockets)
  /\ scan' = "found" /\ found' = sockets
  /\ UNCHANGED <<vars, sockets, bridge, endpoints, portState, control>>

SendReport ==
  /\ scan = "found" /\ Len(control) < ControlSize
  /\ control' = Append(control, found)
  /\ scan' = "sent"
  /\ UNCHANGED <<vars, sockets, bridge, endpoints, portState, found>>

\* Fault: the ports are taken as reported before the send.
SendFails_Records ==
  /\ scan = "found"
  /\ currentPorts' = found /\ portsReported' = TRUE
  /\ scan' = "idle" /\ found' = Nothing
  /\ UNCHANGED <<vars, sockets, bridge, endpoints, portAddresses, control>>

\* The bridge does not take the report in time: the next scan repeats it.
SendFails ==
  /\ scan = "found"
  /\ scan' = "idle" /\ found' = Nothing
  /\ UNCHANGED <<vars, sockets, bridge, endpoints, portState, control>>

\* preferAddress over the sorted addresses of a port: all interfaces before
\* one interface before the loopback, IPv4 before IPv6.
Preferred(addresses) ==
  LET rank == <<"0.0.0.0", "::", "own", "127.0.0.1", "::1">>
      has(i) == rank[i] \in addresses
  IN  rank[CHOOSE i \in 1..5 : has(i) /\ \A j \in 1..(i - 1) : ~has(j)]

\* updatePortState, after the report has left.
RecordReport ==
  /\ scan = "sent"
  /\ portsReported' = TRUE /\ currentPorts' = found
  /\ portAddresses' = [p \in Ports |-> IF p \in PortsOf(found)
                                       THEN Preferred(found[p]) ELSE "unknown"]
  /\ scan' = "idle" /\ found' = Nothing
  /\ UNCHANGED <<vars, sockets, bridge, endpoints, control>>

-----------------------------------------------------------------------------
(* Tunnels: handleTunnelStream *)

\* portAddress and the dial address made of it.
DialAddress(p) ==
  CASE portAddresses[p] \in {"unknown", "0.0.0.0"} -> "127.0.0.1"
    [] portAddresses[p] = "::" -> "::1"
    [] OTHER -> portAddresses[p]

\* The container has a socket that takes the connection.
Reached(p) ==
  \/ DialAddress(p) \in sockets[p]
  \/ DialAddress(p) \in {"127.0.0.1", "own"} /\ "0.0.0.0" \in sockets[p]
  \/ DialAddress(p) = "::1" /\ "::" \in sockets[p]

\* A host connection: its tunnel opens only if the endpoint's dial does.
Connection(c) ==
  /\ Handler(c)
  /\ handler'[c] = "opened" => bridge = "up" /\ Reached(connPort[c])
  /\ UNCHANGED reportVars

-----------------------------------------------------------------------------
(* The bridge and the host *)

\* readControl hands a report to the tunnel manager.
HandleReport ==
  /\ control # <<>>
  /\ UpdatePorts(PortsOf(Head(control)))
  /\ control' = Tail(control)
  /\ UNCHANGED <<sockets, bridge, endpoints, portState, scanVars>>

\* What has arrived by now is still read; the rest is lost, and the endpoint
\* cleans up and exits.
BridgeFails ==
  /\ bridge = "up"
  /\ bridge' = "down"
  /\ \E n \in 0..Len(control) : control' = SubSeq(control, 1, n)
  /\ currentPorts' = Nothing /\ portsReported' = FALSE /\ portAddresses' = Unknown
  /\ scan' = "idle" /\ found' = Nothing
  /\ UNCHANGED <<vars, sockets, endpoints>>

\* reconnect, once the control reader of the old bridge is done.
EndpointStarts ==
  /\ bridge = "down" /\ control = <<>> /\ toClose["reader"] = {}
  /\ ~closed /\ endpoints < MaxEndpoints
  /\ bridge' = "up" /\ endpoints' = endpoints + 1
  /\ UNCHANGED <<vars, sockets, portState, scanVars, control>>

SocketsChange ==
  /\ \E table \in Tables \ {sockets} : sockets' = table
  /\ UNCHANGED <<vars, bridge, endpoints, portState, scanVars, control>>

-----------------------------------------------------------------------------
TunnelStep ==
  /\ \/ Close
     \/ \E g \in {"reader", "shutdown"} : CloseTaken(g)
     \/ \E p \in Ports : Timer(p)
     \/ WatchPorts \/ WatcherStops
  /\ UNCHANGED reportVars

ReaderCloses == CloseTaken("reader") /\ UNCHANGED reportVars

ReportNext ==
  \/ ScanPorts \/ SendReport \/ SendFails \/ RecordReport
  \/ HandleReport \/ BridgeFails \/ EndpointStarts \/ SocketsChange
  \/ TunnelStep
  \/ \E c \in Conns : Connection(c)

\* The ticker of the scanner and the control reader go on, and a bridge that
\* stays up takes a report that is sent again and again.
ReportSpec ==
  /\ ReportInit /\ [][ReportNext]_allVars
  /\ WF_allVars(ScanPorts) /\ SF_allVars(SendReport) /\ WF_allVars(RecordReport)
  /\ WF_allVars(HandleReport) /\ WF_allVars(ReaderCloses)

-----------------------------------------------------------------------------
(* Properties *)

\* What the endpoint believes it has reported is what the host forwards: after
\* a report that could not be sent, and after a new endpoint's first report,
\* no difference stays that the next scan would not see.
ReportedIsDesired ==
  bridge = "up" /\ portsReported /\ scan = "idle" /\ control = <<>> =>
    desiredPorts = PortsOf(currentPorts)

\* Once the bridge and the container's sockets stay as they are, the host
\* settles on the ports of just these sockets, and tunnels reach them:
\* whatever failed before, and whatever an earlier endpoint had reported.
PortsSettle ==
  \A table \in Tables :
    <>[](bridge = "up" /\ sockets = table /\ ~closed) =>
      <>[](desiredPorts = PortsOf(table) /\ \A p \in desiredPorts : Reached(p))
=============================================================================
