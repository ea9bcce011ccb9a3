--------------------------- MODULE InstanceProofs ---------------------------
(***************************************************************************)
(* The safety properties of Instance.tla, for every value of its           *)
(* constants.  The inductive invariant is                                   *)
(*   TypeOK /\ SessionInv /\ ReaderInv /\ LifeInv /\ StopInv /\ EnvInv      *)
(* proved conjunct by conjunct, each from the ones before it.  A step that *)
(* leaves an invariant's variables alone is covered by the invariant's     *)
(* <2>0; the others have a step each.                                       *)
(***************************************************************************)
EXTENDS Instance, TLAPS

Connecting == {"init", "await", "install"}
Bridged    == {"setReady", "serve", "settle", "announce", "closeExecs",
               "closeTunnels", "drop"}
Stopping   == {"closeExecs", "closeTunnels", "drop", "cancel", "final"}

\* Where the sessions are: serve's local cur while connecting, the bridge from
\* setBridge on, and nowhere else.
SessionInv ==
  /\ pc \in Connecting => cur # 0 /\ bridge = 0
  /\ pc \in {"setReady", "serve"} => cur # 0
  /\ pc \in Bridged => bridge = cur
  /\ pc \notin Connecting \cup Bridged => cur = 0 /\ bridge = 0
  /\ \A s \in Sessions : mux[s] \in {"open", "failed"} => s = cur

\* Sessions that are handed out have been acknowledged.
ReaderInv ==
  /\ pc = "install" => reader[cur] # "none"
  /\ bridge # 0 => reader[bridge] # "none"
  /\ target # 0 => reader[target] # "none"
  /\ StreamsOnReadyEndpoints

\* The published state at each position of the goroutine.
LifeInv ==
  /\ pc \in Startup => state = "starting"
  /\ pc \in Connect => state \in {"connecting", "reconnecting"}
  /\ pc \in {"serve", "lost"} => state = "ready"
  /\ pc \in {"grace", "retry", "deadline", "backoff"} => state = "reconnecting"
  /\ pc \in {"settle", "announce"} => state \notin {"stopping", "stopped", "failed"}
  /\ pc \in Stopping => state = "stopping"
  /\ pc \in {"closeServer", "release", "exited"} => state \in {"stopped", "failed"}

\* Why a stop with no error has a reason: ctxDone is set after the reason or by
\* the parent's end, and settle looks at the parent.
StopInv ==
  /\ \A p \in Stoppers : stopper[p] = "cancels" => stopReason # "none"
  /\ ctxDone /\ stopReason = "none" /\ ~parentDone =>
       pc \in {"final", "closeServer", "release", "exited"}
  /\ pc = "settle" /\ runErr = "nil" => ctxDone
  /\ pc \in {"announce"} \cup Stopping /\ runErr = "nil" => stopReason # "none"
  /\ pc \in Stopping /\ runErr = "nil" => reason = stopReason
  /\ state = "stopped" => stopReason # "none" /\ reason = stopReason

\* The environment of each endpoint relative to Instance.env.
EnvInv ==
  /\ pc \in Startup => refresher = "off"
  /\ refresher = "off" => target = 0
  /\ pc \in {"listen", "prepare"} => env = 0
  /\ refresher = "store" => newEnv >= env
  /\ refresher \in {"pick", "send"} => newEnv = env
  /\ \A s \in Sessions : sentEnv[s] <= env
  /\ \A s \in Sessions : mux[s] = "unused" => reader[s] = "none"
  /\ pc \in {"init", "await"} => reader[cur] = "none"
  /\ RefreshReachesBridge

-----------------------------------------------------------------------------
\* The flags stay Boolean.
LEMMA FlagsInvariant == Spec => []FlagsOK
<1> USE DEF FlagsOK, mainVars, fileVars, muVars, ctxVars, sessionVars,
     serverVars, refreshVars, clientVars
<1>1. Init => FlagsOK
  BY Zenon DEF Init
<1>2. FlagsOK /\ [Next]_vars => FlagsOK'
  <2> SUFFICES ASSUME FlagsOK, [Next]_vars PROVE FlagsOK'
    OBVIOUS
  <2>1. CASE Listen
    BY <2>1, Zenon DEF Listen, SetState
  <2>2. CASE PrepareEnvironment
    BY <2>2, Zenon DEF PrepareEnvironment, ServeFails
  <2>3. CASE DevcontainerUp
    BY <2>3, Zenon DEF DevcontainerUp, ServeFails, SetState
  <2>4. CASE StartEndpoint
    BY <2>4, Zenon DEF StartEndpoint, ConnectFails, ServeFails
  <2>5. CASE SendInit
    BY <2>5, Zenon DEF SendInit, ConnectFails, ServeFails, CloseSession
  <2>6. CASE AwaitReady
    BY <2>6, Zenon DEF AwaitReady, ConnectFails, ServeFails, CloseSession
  <2>7. CASE InstallBridge
    BY <2>7, Zenon DEF InstallBridge, CloseSession
  <2>8. CASE SetReady
    BY <2>8, Zenon DEF SetReady, SetState
  <2>9. CASE ServeStops
    BY <2>9, Zenon DEF ServeStops
  <2>10. CASE BridgeLost
    BY <2>10, Zenon DEF BridgeLost, CloseSession
  <2>11. CASE AnnounceLoss
    BY <2>11, Zenon DEF AnnounceLoss, SetState
  <2>12. CASE StopGrace
    BY <2>12, Zenon DEF StopGrace
  <2>13. CASE CheckContainer
    BY <2>13, Zenon DEF CheckContainer
  <2>14. CASE WindowPassed
    BY <2>14, Zenon DEF WindowPassed, FirstReason
  <2>15. CASE StartBackoff
    BY <2>15, Zenon DEF StartBackoff
  <2>16. CASE Backoff
    BY <2>16, Zenon DEF Backoff
  <2>17. CASE SettleReason
    BY <2>17, Zenon DEF SettleReason, FirstReason
  <2>18. CASE AnnounceStop
    BY <2>18, Zenon DEF AnnounceStop, SetState
  <2>19. CASE CloseExecs
    BY <2>19, Zenon DEF CloseExecs
  <2>20. CASE CloseTunnels
    BY <2>20, Zenon DEF CloseTunnels
  <2>21. CASE DropBridge
    BY <2>21, Zenon DEF DropBridge, CloseSession
  <2>22. CASE CancelAndWait
    BY <2>22, Zenon DEF CancelAndWait
  <2>23. CASE FinalState
    BY <2>23, Zenon DEF FinalState, SetState
  <2>24. CASE CloseServer
    BY <2>24, Zenon DEF CloseServer
  <2>25. CASE Release
    BY <2>25, Zenon DEF Release
  <2>26. CASE RefreshRun
    BY <2>26, Zenon DEF RefreshRun
  <2>27. CASE RefreshStore
    BY <2>27, Zenon DEF RefreshStore
  <2>28. CASE RefreshPick
    BY <2>28, Zenon DEF RefreshPick
  <2>29. CASE RefreshSend
    BY <2>29, Zenon DEF RefreshSend
  <2>30. CASE RefreshStops
    BY <2>30, Zenon DEF RefreshStops
  <2>31. CASE Signal
    BY <2>31, Zenon DEF Signal
  <2>32. CASE ContainerStops
    BY <2>32, Zenon DEF ContainerStops
  <2>33. CASE ContainerRestarts
    BY <2>33, Zenon DEF ContainerRestarts
  <2>34. ASSUME NEW s \in Sessions, ReaderEnds(s) PROVE FlagsOK'
    BY <2>34, Zenon DEF ReaderEnds
  <2>35. ASSUME NEW s \in Sessions, MuxFails(s) PROVE FlagsOK'
    BY <2>35, Zenon DEF MuxFails
  <2>36. ASSUME NEW p \in Stoppers, StopArrives(p) PROVE FlagsOK'
    BY <2>36, Zenon DEF StopArrives
  <2>37. ASSUME NEW p \in Stoppers, StopSetsReason(p) PROVE FlagsOK'
    BY <2>37, Zenon DEF StopSetsReason, FirstReason
  <2>38. ASSUME NEW p \in Stoppers, StopCancels(p) PROVE FlagsOK'
    BY <2>38, Zenon DEF StopCancels
  <2>39. ASSUME NEW o \in Openers, OpenSnapshot(o) PROVE FlagsOK'
    BY <2>39, Zenon DEF OpenSnapshot
  <2>40. ASSUME NEW o \in Openers, OpenPick(o) PROVE FlagsOK'
    BY <2>40, Zenon DEF OpenPick, LiveBridge
  <2>41. ASSUME NEW o \in Openers, OpenStream(o) PROVE FlagsOK'
    BY <2>41, Zenon DEF OpenStream
  <2>42. ASSUME NEW o \in Openers, TrackStream(o) PROVE FlagsOK'
    BY <2>42, Zenon DEF TrackStream
  <2>43. ASSUME NEW o \in Openers, StreamEnds(o) PROVE FlagsOK'
    BY <2>43, Zenon DEF StreamEnds
  <2>44. CASE UNCHANGED vars
    BY <2>44, Zenon DEF vars
  <2> QED BY <2>1, <2>2, <2>3, <2>4, <2>5, <2>6, <2>7, <2>8, <2>9, <2>10,
       <2>11, <2>12, <2>13, <2>14, <2>15, <2>16, <2>17, <2>18, <2>19, <2>20,
       <2>21, <2>22, <2>23, <2>24, <2>25, <2>26, <2>27, <2>28, <2>29, <2>30,
       <2>31, <2>32, <2>33, <2>34, <2>35, <2>36, <2>37, <2>38, <2>39, <2>40,
       <2>41, <2>42, <2>43, <2>44 DEF Next, Main, Refresher, Stopper,
       Opener, World, Exited
<1> QED BY <1>1, <1>2, PTL DEF Spec

\* The steps of DataInvariant that need their effects told apart.
LEMMA AwaitReadyKeepsData ==
  ASSUME DataOK, AwaitReady PROVE DataOK'
<1> USE DEF mainVars, fileVars, muVars, ctxVars, sessionVars, serverVars,
     refreshVars, clientVars, Sessions, Startup, Connect, Loop, Closing
<1>1. CASE pc' = "install"
  BY <1>1, SMT DEF AwaitReady, ConnectFails, ServeFails, DataOK
<1>2. CASE pc' # "install"
  <2>1. mux' \in [Sessions -> {"unused", "open", "failed", "closed"}]
    BY <1>2, SMT DEF AwaitReady, CloseSession, DataOK
  <2>2. /\ UNCHANGED <<attempt, fileVars, muVars, reader, sentEnv, serverVars,
                      refreshVars, clientVars>>
        /\ cur' = 0
        /\ pc' \in {"settle", "deadline"}
        /\ runErr' \in {"nil", "error", runErr}
        /\ lastErr' \in {lastErr, "error"}
    BY <1>2, Zenon DEF AwaitReady, ConnectFails, ServeFails
  <2> QED BY <2>1, <2>2, InstanceAssumption, SMT DEF DataOK
<1> QED BY <1>1, <1>2

\* A function keeps its type under EXCEPT, inside its domain and outside it.
LEMMA ExceptType ==
  ASSUME NEW S, NEW T, NEW f \in [S -> T], NEW x, NEW v \in T
  PROVE  [f EXCEPT ![x] = v] \in [S -> T]
OBVIOUS

LEMMA RefreshSendKeepsData ==
  ASSUME DataOK, RefreshSend PROVE DataOK'
<1> USE DEF mainVars, fileVars, muVars, ctxVars, sessionVars, serverVars,
     refreshVars, clientVars
<1>1. sentEnv' \in [Sessions -> 0..MaxEnv]
  <2>1. newEnv \in 0..MaxEnv /\ sentEnv \in [Sessions -> 0..MaxEnv]
    BY DEF DataOK
  <2>2. CASE mux[target] = "open"
    <3>1. sentEnv' = [sentEnv EXCEPT ![target] = newEnv]
      BY <2>2, Zenon DEF RefreshSend
    <3> QED BY <2>1, <3>1, ExceptType
  <2>3. CASE mux[target] # "open"
    BY <2>1, <2>3, SMT DEF RefreshSend
  <2> QED BY <2>2, <2>3
<1>2. /\ UNCHANGED <<mainVars, fileVars, muVars, mux, reader, serverVars,
                     newEnv, target, clientVars>>
      /\ refresher' = "waiting"
  BY DEF RefreshSend
<1> QED BY <1>1, <1>2, SMT DEF DataOK

LEMMA OpenStreamKeepsData ==
  ASSUME DataOK, NEW o \in Openers, OpenStream(o) PROVE DataOK'
<1> USE DEF mainVars, fileVars, muVars, ctxVars, sessionVars, serverVars,
     refreshVars, clientVars
<1>1. UNCHANGED <<mainVars, fileVars, muVars, sessionVars, serverVars,
                  refreshVars, stopper>>
  BY DEF OpenStream
<1>2. CASE opener' = [opener EXCEPT ![o] = "opened"] /\ picked' = picked
  BY <1>1, <1>2, SMT DEF DataOK
<1>3. CASE opener' = [opener EXCEPT ![o] = "idle"] /\ picked' = [picked
     EXCEPT ![o] = 0]
  BY <1>1, <1>3, InstanceAssumption, SMT DEF DataOK
<1> QED BY <1>2, <1>3 DEF OpenStream

LEMMA TrackStreamKeepsData ==
  ASSUME DataOK, NEW o \in Openers, TrackStream(o) PROVE DataOK'
<1> USE DEF mainVars, fileVars, muVars, ctxVars, sessionVars, serverVars,
     refreshVars, clientVars
<1>1. UNCHANGED <<mainVars, fileVars, muVars, sessionVars, serverVars,
                  refreshVars, stopper>>
  BY DEF TrackStream
<1>2. CASE opener' = [opener EXCEPT ![o] = "serving"] /\ picked' = picked
  BY <1>1, <1>2, SMT DEF DataOK
<1>3. CASE opener' = [opener EXCEPT ![o] = "idle"] /\ picked' = [picked
     EXCEPT ![o] = 0]
  BY <1>1, <1>3, InstanceAssumption, SMT DEF DataOK
<1> QED BY <1>2, <1>3 DEF TrackStream

\* Everything else keeps its range.
LEMMA DataInvariant == Spec => []DataOK
<1> USE InstanceAssumption DEF DataOK, Sessions, States, Stops, Startup,
     Connect, Loop, Closing, mainVars, fileVars, muVars, ctxVars,
     sessionVars, serverVars, refreshVars, clientVars
<1>1. Init => DataOK
  BY SMT DEF Init
<1>2. DataOK /\ [Next]_vars => DataOK'
  <2> SUFFICES ASSUME DataOK, [Next]_vars PROVE DataOK'
    OBVIOUS
  <2>1. CASE Listen
    BY <2>1, SMT DEF Listen, SetState
  <2>2. CASE PrepareEnvironment
    BY <2>2, SMT DEF PrepareEnvironment, ServeFails
  <2>3. CASE DevcontainerUp
    BY <2>3, SMT DEF DevcontainerUp, ServeFails, SetState
  <2>4. CASE StartEndpoint
    BY <2>4, SMT DEF StartEndpoint, ConnectFails, ServeFails
  <2>5. CASE SendInit
    BY <2>5, SMTT(30) DEF SendInit, ConnectFails, ServeFails, CloseSession
  <2>6. CASE AwaitReady
    BY <2>6, AwaitReadyKeepsData
  <2>7. CASE InstallBridge
    BY <2>7, SMTT(30) DEF InstallBridge, CloseSession
  <2>8. CASE SetReady
    BY <2>8, SMT DEF SetReady, SetState
  <2>9. CASE ServeStops
    BY <2>9, SMT DEF ServeStops
  <2>10. CASE BridgeLost
    BY <2>10, SMT DEF BridgeLost, CloseSession
  <2>11. CASE AnnounceLoss
    BY <2>11, SMT DEF AnnounceLoss, SetState
  <2>12. CASE StopGrace
    BY <2>12, SMT DEF StopGrace
  <2>13. CASE CheckContainer
    BY <2>13, SMT DEF CheckContainer
  <2>14. CASE WindowPassed
    BY <2>14, SMT DEF WindowPassed, FirstReason
  <2>15. CASE StartBackoff
    BY <2>15, SMT DEF StartBackoff
  <2>16. CASE Backoff
    BY <2>16, SMT DEF Backoff
  <2>17. CASE SettleReason
    BY <2>17, SMT DEF SettleReason, FirstReason
  <2>18. CASE AnnounceStop
    BY <2>18, SMT DEF AnnounceStop, SetState
  <2>19. CASE CloseExecs
    BY <2>19, SMT DEF CloseExecs
  <2>20. CASE CloseTunnels
    BY <2>20, SMT DEF CloseTunnels
  <2>21. CASE DropBridge
    BY <2>21, SMT DEF DropBridge, CloseSession
  <2>22. CASE CancelAndWait
    BY <2>22, SMT DEF CancelAndWait
  <2>23. CASE FinalState
    BY <2>23, SMT DEF FinalState, SetState
  <2>24. CASE CloseServer
    BY <2>24, SMT DEF CloseServer
  <2>25. CASE Release
    BY <2>25, SMT DEF Release
  <2>26. CASE RefreshRun
    BY <2>26, SMT DEF RefreshRun
  <2>27. CASE RefreshStore
    BY <2>27, SMT DEF RefreshStore
  <2>28. CASE RefreshPick
    BY <2>28, SMT DEF RefreshPick
  <2>29. CASE RefreshSend
    BY <2>29, RefreshSendKeepsData
  <2>30. CASE RefreshStops
    BY <2>30, SMT DEF RefreshStops
  <2>31. CASE Signal
    BY <2>31, SMT DEF Signal
  <2>32. CASE ContainerStops
    BY <2>32, SMT DEF ContainerStops
  <2>33. CASE ContainerRestarts
    BY <2>33, SMT DEF ContainerRestarts
  <2>34. ASSUME NEW s \in Sessions, ReaderEnds(s) PROVE DataOK'
    BY <2>34, SMT DEF ReaderEnds
  <2>35. ASSUME NEW s \in Sessions, MuxFails(s) PROVE DataOK'
    BY <2>35, SMT DEF MuxFails
  <2>36. ASSUME NEW p \in Stoppers, StopArrives(p) PROVE DataOK'
    BY <2>36, SMT DEF StopArrives
  <2>37. ASSUME NEW p \in Stoppers, StopSetsReason(p) PROVE DataOK'
    BY <2>37, SMT DEF StopSetsReason, FirstReason
  <2>38. ASSUME NEW p \in Stoppers, StopCancels(p) PROVE DataOK'
    BY <2>38, SMT DEF StopCancels
  <2>39. ASSUME NEW o \in Openers, OpenSnapshot(o) PROVE DataOK'
    BY <2>39, SMT DEF OpenSnapshot
  <2>40. ASSUME NEW o \in Openers, OpenPick(o) PROVE DataOK'
    BY <2>40, SMT DEF OpenPick, LiveBridge
  <2>41. ASSUME NEW o \in Openers, OpenStream(o) PROVE DataOK'
    BY <2>41, OpenStreamKeepsData
  <2>42. ASSUME NEW o \in Openers, TrackStream(o) PROVE DataOK'
    BY <2>42, TrackStreamKeepsData
  <2>43. ASSUME NEW o \in Openers, StreamEnds(o) PROVE DataOK'
    BY <2>43, SMT DEF StreamEnds
  <2>44. CASE UNCHANGED vars
    BY <2>44, SMT DEF vars
  <2> QED BY <2>1, <2>2, <2>3, <2>4, <2>5, <2>6, <2>7, <2>8, <2>9, <2>10,
       <2>11, <2>12, <2>13, <2>14, <2>15, <2>16, <2>17, <2>18, <2>19, <2>20,
       <2>21, <2>22, <2>23, <2>24, <2>25, <2>26, <2>27, <2>28, <2>29, <2>30,
       <2>31, <2>32, <2>33, <2>34, <2>35, <2>36, <2>37, <2>38, <2>39, <2>40,
       <2>41, <2>42, <2>43, <2>44 DEF Next, Main, Refresher, Stopper,
       Opener, World, Exited
<1> QED BY <1>1, <1>2, PTL DEF Spec

-----------------------------------------------------------------------------
\* The steps of connect, one session at a time: it becomes cur, the bridge,
\* or closed.
LEMMA StartEndpointKeepsSessions == ASSUME DataOK, SessionInv, StartEndpoint PROVE SessionInv'
<1> USE DEF fileVars, muVars, StartEndpoint
<1>0. pc = "start" /\ bridge' = bridge /\ cur \in 0..MaxSessions
  BY DEF DataOK
<1>1. cur = 0 /\ bridge = 0 /\ \A t \in Sessions : mux[t] \notin {"open", "failed"}
  BY <1>0, SMT DEF SessionInv, Connecting, Bridged, Sessions
<1>2. CASE UNCHANGED <<mux, cur>> /\ pc' \in {"settle", "deadline"}
  BY <1>0, <1>1, <1>2, SMT DEF SessionInv, Connecting, Bridged
<1>3. ASSUME NEW s \in Sessions, mux' = [mux EXCEPT ![s] = "open"],
             cur' = s, pc' = "init"
      PROVE  SessionInv'
  <2>1. \A t \in Sessions : mux'[t] \in {"open", "failed"} => t = s
    BY <1>1, <1>3, SMT DEF DataOK
  <2>2. s # 0
    BY SMT DEF Sessions, InstanceAssumption
  <2> QED BY <1>0, <1>1, <1>3, <2>1, <2>2, SMT DEF SessionInv, Connecting,
       Bridged
<1> QED BY <1>2, <1>3 DEF ConnectFails, ServeFails

LEMMA SendInitKeepsSessions == ASSUME DataOK, SessionInv, SendInit PROVE SessionInv'
<1> USE DEF fileVars, muVars, SendInit
<1>0. pc = "init" /\ bridge' = bridge 
  OBVIOUS
<1>1. cur # 0 /\ cur \in Sessions /\ bridge = 0 /\ \A t \in Sessions : mux[t] \in {"open", "failed"} => t = cur
  BY <1>0, SMT DEF SessionInv, Connecting, Bridged, Sessions, DataOK
<1>2. CASE UNCHANGED <<mux, cur>> /\ pc' = "await"
  BY <1>0, <1>1, <1>2, SMT DEF SessionInv, Connecting, Bridged
<1>3. CASE CloseSession(cur) /\ cur' = 0 /\ pc' \in {"settle", "deadline"}
  <2>1. \A t \in Sessions : mux'[t] \notin {"open", "failed"}
    BY <1>1, <1>3, SMT DEF CloseSession, DataOK
  <2> QED BY <1>0, <1>1, <1>3, <2>1, SMT DEF SessionInv, Connecting, Bridged
<1> QED BY <1>2, <1>3 DEF ConnectFails, ServeFails

LEMMA AwaitReadyKeepsSessions == ASSUME DataOK, SessionInv, AwaitReady PROVE SessionInv'
<1> USE DEF fileVars, muVars, AwaitReady
<1>0. pc = "await" /\ bridge' = bridge 
  OBVIOUS
<1>1. cur # 0 /\ cur \in Sessions /\ bridge = 0 /\ \A t \in Sessions : mux[t] \in {"open", "failed"} => t = cur
  BY <1>0, SMT DEF SessionInv, Connecting, Bridged, Sessions, DataOK
<1>2. CASE UNCHANGED <<mux, cur>> /\ pc' = "install"
  BY <1>0, <1>1, <1>2, SMT DEF SessionInv, Connecting, Bridged
<1>3. CASE CloseSession(cur) /\ cur' = 0 /\ pc' \in {"settle", "deadline"}
  <2>1. \A t \in Sessions : mux'[t] \notin {"open", "failed"}
    BY <1>1, <1>3, SMT DEF CloseSession, DataOK
  <2> QED BY <1>0, <1>1, <1>3, <2>1, SMT DEF SessionInv, Connecting, Bridged
<1> QED BY <1>2, <1>3 DEF ConnectFails, ServeFails

LEMMA InstallBridgeKeepsSessions == ASSUME DataOK, SessionInv, InstallBridge PROVE SessionInv'
<1> USE DEF fileVars, muVars, InstallBridge
<1>0. pc = "install"
  OBVIOUS
<1>1. cur # 0 /\ cur \in Sessions /\ bridge = 0 /\ \A t \in Sessions : mux[t] \in {"open", "failed"} => t = cur
  BY <1>0, SMT DEF SessionInv, Connecting, Bridged, Sessions, DataOK
<1>2. CASE UNCHANGED <<mux, cur>> /\ pc' = "setReady" /\ bridge' = cur
  BY <1>0, <1>1, <1>2, SMT DEF SessionInv, Connecting, Bridged
<1>3. CASE CloseSession(cur) /\ cur' = 0 /\ pc' = "settle" /\ bridge' = bridge
  <2>1. \A t \in Sessions : mux'[t] \notin {"open", "failed"}
    BY <1>1, <1>3, SMT DEF CloseSession, DataOK
  <2> QED BY <1>0, <1>1, <1>3, <2>1, SMT DEF SessionInv, Connecting, Bridged
<1> QED BY <1>2, <1>3

\* Acknowledging one session leaves the acknowledged ones acknowledged.
LEMMA AwaitReadyKeepsReaders == ASSUME DataOK, SessionInv, ReaderInv, AwaitReady PROVE ReaderInv'
<1> USE DEF fileVars, muVars, AwaitReady, clientVars, refreshVars
<1>0. pc = "await" /\ UNCHANGED <<bridge, target, opener, picked>> /\ pc' # "await"
  BY DEF ConnectFails, ServeFails
<1>1. cur \in Sessions /\ bridge = 0
  BY <1>0, SMT DEF SessionInv, Connecting, Bridged, Sessions, DataOK
<1>2. CASE reader' = [reader EXCEPT ![cur] = "running"] /\ cur' = cur
  <2>1. reader'[cur] = "running" /\ \A t \in Sessions : t # cur => reader'[t] = reader[t]
    BY <1>1, <1>2, SMT DEF DataOK
  <2>2. \A t \in Sessions : reader[t] # "none" => reader'[t] # "none"
    BY <2>1, SMT
  <2>3. target \in 0..MaxSessions /\ \A o \in Openers : picked[o] \in 0..MaxSessions
    BY SMT DEF DataOK
  <2>4. StreamsOnReadyEndpoints'
    BY <1>0, <2>2 DEF ReaderInv, StreamsOnReadyEndpoints
  <2> QED BY <1>0, <1>1, <1>2, <2>1, <2>2, <2>3, <2>4, SMT DEF ReaderInv,
       Sessions
<1>3. CASE reader' = reader /\ pc' # "install"
  <2>4. StreamsOnReadyEndpoints'
    BY <1>0, <1>3 DEF ReaderInv, StreamsOnReadyEndpoints
  <2> QED BY <1>0, <1>1, <1>3, <2>4, SMT DEF ReaderInv
<1> QED BY <1>2, <1>3 DEF ConnectFails, ServeFails

\* The sessions that are not closed are serve's locals and the bridge.
LEMMA SessionInvariant == Spec => []SessionInv
<1> USE DEF SessionInv, DataOK, Connecting, Bridged, Sessions, Startup,
     Connect, Loop, Closing, mainVars, fileVars, muVars, ctxVars,
     sessionVars, serverVars, refreshVars, clientVars
<1>1. Init => SessionInv
  BY SMT DEF Init
<1>2. DataOK /\ SessionInv /\ [Next]_vars => SessionInv'
  <2> SUFFICES ASSUME DataOK, SessionInv, [Next]_vars PROVE SessionInv'
    OBVIOUS
  <2>0. ASSUME UNCHANGED <<pc, cur, bridge, mux>> PROVE SessionInv'
    BY <2>0
  <2>1. CASE Main
    <3>1. CASE Listen
      BY <3>1, SMT DEF Listen, SetState
    <3>2. CASE PrepareEnvironment
      BY <3>2, SMT DEF PrepareEnvironment, ServeFails
    <3>3. CASE DevcontainerUp
      BY <3>3, SMT DEF DevcontainerUp, ServeFails, SetState
    <3>4. CASE StartEndpoint
        BY <3>4, StartEndpointKeepsSessions
    <3>5. CASE SendInit
        BY <3>5, SendInitKeepsSessions
    <3>6. CASE AwaitReady
        BY <3>6, AwaitReadyKeepsSessions
    <3>7. CASE InstallBridge
        BY <3>7, InstallBridgeKeepsSessions
    <3>8. CASE SetReady
      BY <3>8, SMT DEF SetReady, SetState
    <3>9. CASE ServeStops
      BY <3>9, SMT DEF ServeStops
    <3>10. CASE BridgeLost
      BY <3>10, SMT DEF BridgeLost, CloseSession
    <3>11. CASE AnnounceLoss
      BY <3>11, SMT DEF AnnounceLoss, SetState
    <3>12. CASE StopGrace
      BY <3>12, SMT DEF StopGrace
    <3>13. CASE CheckContainer
      BY <3>13, SMT DEF CheckContainer
    <3>14. CASE WindowPassed
      BY <3>14, SMT DEF WindowPassed, FirstReason
    <3>15. CASE StartBackoff
      BY <3>15, SMT DEF StartBackoff
    <3>16. CASE Backoff
      BY <3>16, SMT DEF Backoff
    <3>17. CASE SettleReason
      BY <3>17, SMT DEF SettleReason, FirstReason
    <3>18. CASE AnnounceStop
      BY <3>18, SMT DEF AnnounceStop, SetState
    <3>19. CASE CloseExecs
      BY <3>19, SMT DEF CloseExecs
    <3>20. CASE CloseTunnels
      BY <3>20, SMT DEF CloseTunnels
    <3>21. CASE DropBridge
      BY <3>21, SMT DEF DropBridge, CloseSession
    <3>22. CASE CancelAndWait
      BY <3>22, SMT DEF CancelAndWait
    <3>23. CASE FinalState
      BY <3>23, SMT DEF FinalState, SetState
    <3>24. CASE CloseServer
      BY <3>24, SMT DEF CloseServer
    <3>25. CASE Release
      BY <3>25, SMT DEF Release
    <3> HIDE DEF SessionInv, DataOK, Connecting, Bridged, Sessions, Startup,
         Connect, Loop, Closing
    <3> QED BY <2>1, <3>1, <3>2, <3>3, <3>4, <3>5, <3>6, <3>7, <3>8, <3>9,
         <3>10, <3>11, <3>12, <3>13, <3>14, <3>15, <3>16, <3>17, <3>18,
         <3>19, <3>20, <3>21, <3>22, <3>23, <3>24, <3>25 DEF Main
  <2>2. CASE Refresher
    BY <2>0, <2>2 DEF Refresher, RefreshRun, RefreshStore, RefreshPick,
         RefreshSend, RefreshStops
  <2>3. CASE World
    <3>1. CASE Signal
      BY <2>0, <3>1 DEF Signal, mainVars, fileVars, muVars, ctxVars,
           sessionVars, serverVars, refreshVars, clientVars
    <3>2. CASE ContainerStops
      BY <3>2, SMT DEF ContainerStops
    <3>3. CASE ContainerRestarts
      BY <2>0, <3>3 DEF ContainerRestarts, mainVars, fileVars, muVars,
           ctxVars, sessionVars, serverVars, refreshVars, clientVars
    <3>4. ASSUME NEW s \in Sessions, MuxFails(s) PROVE SessionInv'
      BY <3>4, SMT DEF MuxFails
    <3> HIDE DEF SessionInv, DataOK, Connecting, Bridged, Sessions, Startup,
         Connect, Loop, Closing
    <3> QED BY <2>3, <3>1, <3>2, <3>3, <3>4 DEF World
  <2>4. ASSUME NEW s \in Sessions, ReaderEnds(s) PROVE SessionInv'
    BY <2>0, <2>4 DEF ReaderEnds
  <2>5. ASSUME NEW p \in Stoppers, Stopper(p) PROVE SessionInv'
    BY <2>0, <2>5 DEF Stopper, StopArrives, StopSetsReason, StopCancels
  <2>6. ASSUME NEW o \in Openers, Opener(o) PROVE SessionInv'
    BY <2>0, <2>6 DEF Opener, OpenSnapshot, OpenPick, OpenStream,
         TrackStream, StreamEnds
  <2>7. CASE UNCHANGED vars
    BY <2>0, <2>7 DEF vars
  <2> HIDE DEF SessionInv, DataOK, Connecting, Bridged, Sessions, Startup,
       Connect, Loop, Closing
  <2> QED BY <2>1, <2>2, <2>3, <2>4, <2>5, <2>6, <2>7 DEF Next, Exited
<1> HIDE DEF SessionInv, DataOK, Connecting, Bridged, Sessions, Startup,
     Connect, Loop, Closing
<1> QED BY <1>1, <1>2, DataInvariant, PTL DEF Spec

\* Every session a stream, the bridge or the refresher refers to was
\* acknowledged.
LEMMA ReaderInvariant == Spec => []ReaderInv
<1> USE DEF ReaderInv, StreamsOnReadyEndpoints, DataOK, SessionInv,
     Connecting, Bridged, Sessions, Startup, Connect, Loop, Closing,
     mainVars, fileVars, muVars, ctxVars, sessionVars, serverVars,
     refreshVars, clientVars
<1>1. Init => ReaderInv
  BY SMT DEF Init
<1>2. DataOK /\ SessionInv /\ ReaderInv /\ [Next]_vars => ReaderInv'
  <2> SUFFICES ASSUME DataOK, SessionInv, ReaderInv, [Next]_vars PROVE
       ReaderInv'
    OBVIOUS
  <2>0. ASSUME UNCHANGED <<pc, cur, bridge, target, reader, opener, picked>>
       PROVE ReaderInv'
    BY <2>0
  <2>1. CASE Main
    <3>1. CASE Listen
      BY <3>1, SMT DEF Listen, SetState
    <3>2. CASE PrepareEnvironment
      BY <3>2, SMT DEF PrepareEnvironment, ServeFails
    <3>3. CASE DevcontainerUp
      BY <3>3, SMT DEF DevcontainerUp, ServeFails, SetState
    <3>4. CASE StartEndpoint
      BY <3>4, SMT DEF StartEndpoint, ConnectFails, ServeFails
    <3>5. CASE SendInit
      BY <3>5, SMT DEF SendInit, ConnectFails, ServeFails, CloseSession
    <3>6. CASE AwaitReady
        BY <3>6, AwaitReadyKeepsReaders
    <3>7. CASE InstallBridge
      BY <3>7, SMT DEF InstallBridge, CloseSession
    <3>8. CASE SetReady
      BY <3>8, SMT DEF SetReady, SetState
    <3>9. CASE ServeStops
      BY <3>9, SMT DEF ServeStops
    <3>10. CASE BridgeLost
      BY <3>10, SMT DEF BridgeLost, CloseSession
    <3>11. CASE AnnounceLoss
      BY <3>11, SMT DEF AnnounceLoss, SetState
    <3>12. CASE StopGrace
      BY <3>12, SMT DEF StopGrace
    <3>13. CASE CheckContainer
      BY <3>13, SMT DEF CheckContainer
    <3>14. CASE WindowPassed
      BY <3>14, SMT DEF WindowPassed, FirstReason
    <3>15. CASE StartBackoff
      BY <3>15, SMT DEF StartBackoff
    <3>16. CASE Backoff
      BY <3>16, SMT DEF Backoff
    <3>17. CASE SettleReason
      BY <3>17, SMT DEF SettleReason, FirstReason
    <3>18. CASE AnnounceStop
      BY <3>18, SMT DEF AnnounceStop, SetState
    <3>19. CASE CloseExecs
      BY <3>19, SMT DEF CloseExecs
    <3>20. CASE CloseTunnels
      BY <3>20, SMT DEF CloseTunnels
    <3>21. CASE DropBridge
      BY <3>21, SMT DEF DropBridge, CloseSession
    <3>22. CASE CancelAndWait
      BY <3>22, SMT DEF CancelAndWait
    <3>23. CASE FinalState
      BY <3>23, SMT DEF FinalState, SetState
    <3>24. CASE CloseServer
      BY <3>24, SMT DEF CloseServer
    <3>25. CASE Release
      BY <3>25, SMT DEF Release
    <3> HIDE DEF ReaderInv, StreamsOnReadyEndpoints, DataOK, SessionInv,
         Connecting, Bridged, Sessions, Startup, Connect, Loop, Closing
    <3> QED BY <2>1, <3>1, <3>2, <3>3, <3>4, <3>5, <3>6, <3>7, <3>8, <3>9,
         <3>10, <3>11, <3>12, <3>13, <3>14, <3>15, <3>16, <3>17, <3>18,
         <3>19, <3>20, <3>21, <3>22, <3>23, <3>24, <3>25 DEF Main
  <2>2. CASE Refresher
    <3>1. CASE RefreshRun
      BY <2>0, <3>1 DEF RefreshRun, mainVars, fileVars, muVars, ctxVars,
           sessionVars, serverVars, refreshVars, clientVars
    <3>2. CASE RefreshStore
      BY <2>0, <3>2 DEF RefreshStore, mainVars, fileVars, muVars, ctxVars,
           sessionVars, serverVars, refreshVars, clientVars
    <3>3. CASE RefreshPick
      BY <3>3, SMT DEF RefreshPick
    <3>4. CASE RefreshSend
      BY <2>0, <3>4 DEF RefreshSend, mainVars, fileVars, muVars, ctxVars,
           sessionVars, serverVars, refreshVars, clientVars
    <3>5. CASE RefreshStops
      BY <2>0, <3>5 DEF RefreshStops, mainVars, fileVars, muVars, ctxVars,
           sessionVars, serverVars, refreshVars, clientVars
    <3> HIDE DEF ReaderInv, StreamsOnReadyEndpoints, DataOK, SessionInv,
         Connecting, Bridged, Sessions, Startup, Connect, Loop, Closing
    <3> QED BY <2>2, <3>1, <3>2, <3>3, <3>4, <3>5 DEF Refresher
  <2>3. CASE World
    BY <2>0, <2>3 DEF World, Signal, ContainerStops, ContainerRestarts,
         MuxFails
  <2>4. ASSUME NEW s \in Sessions, ReaderEnds(s) PROVE ReaderInv'
    BY <2>4, SMT DEF ReaderEnds
  <2>5. ASSUME NEW p \in Stoppers, Stopper(p) PROVE ReaderInv'
    BY <2>0, <2>5 DEF Stopper, StopArrives, StopSetsReason, StopCancels
  <2>6. ASSUME NEW o \in Openers, Opener(o) PROVE ReaderInv'
    <3>1. CASE OpenSnapshot(o)
      BY <3>1, SMT DEF OpenSnapshot
    <3>2. CASE OpenPick(o)
      BY <3>2, SMT DEF OpenPick, LiveBridge
    <3>3. CASE OpenStream(o)
      BY <3>3, SMT DEF OpenStream
    <3>4. CASE TrackStream(o)
      BY <3>4, SMT DEF TrackStream
    <3>5. CASE StreamEnds(o)
      BY <3>5, SMT DEF StreamEnds
    <3> HIDE DEF ReaderInv, StreamsOnReadyEndpoints, DataOK, SessionInv,
         Connecting, Bridged, Sessions, Startup, Connect, Loop, Closing
    <3> QED BY <2>6, <3>1, <3>2, <3>3, <3>4, <3>5 DEF Opener
  <2>7. CASE UNCHANGED vars
    BY <2>0, <2>7 DEF vars
  <2> HIDE DEF ReaderInv, StreamsOnReadyEndpoints, DataOK, SessionInv,
       Connecting, Bridged, Sessions, Startup, Connect, Loop, Closing
  <2> QED BY <2>1, <2>2, <2>3, <2>4, <2>5, <2>6, <2>7 DEF Next, Exited
<1> HIDE DEF ReaderInv, StreamsOnReadyEndpoints, DataOK, SessionInv,
     Connecting, Bridged, Sessions, Startup, Connect, Loop, Closing
<1> QED BY <1>1, <1>2, DataInvariant, SessionInvariant, PTL DEF Spec

\* The published state follows the goroutine's position.
LEMMA LifeInvariant == Spec => []LifeInv
<1> USE DEF LifeInv, DataOK, States, Stopping, Sessions, Startup, Connect,
     Loop, Closing, mainVars, fileVars, muVars, ctxVars, sessionVars,
     serverVars, refreshVars, clientVars
<1>1. Init => LifeInv
  BY SMT DEF Init
<1>2. DataOK /\ LifeInv /\ [Next]_vars => LifeInv'
  <2> SUFFICES ASSUME DataOK, LifeInv, [Next]_vars PROVE LifeInv'
    OBVIOUS
  <2>0. ASSUME UNCHANGED <<pc, state>> PROVE LifeInv'
    BY <2>0
  <2>1. CASE Main
    <3>1. CASE Listen
      BY <3>1, SMT DEF Listen, SetState
    <3>2. CASE PrepareEnvironment
      BY <3>2, SMT DEF PrepareEnvironment, ServeFails
    <3>3. CASE DevcontainerUp
      BY <3>3, SMT DEF DevcontainerUp, ServeFails, SetState
    <3>4. CASE StartEndpoint
      BY <3>4, SMT DEF StartEndpoint, ConnectFails, ServeFails
    <3>5. CASE SendInit
      BY <3>5, SMT DEF SendInit, ConnectFails, ServeFails, CloseSession
    <3>6. CASE AwaitReady
      BY <3>6, SMT DEF AwaitReady, ConnectFails, ServeFails, CloseSession
    <3>7. CASE InstallBridge
      BY <3>7, SMT DEF InstallBridge, CloseSession
    <3>8. CASE SetReady
      BY <3>8, SMT DEF SetReady, SetState
    <3>9. CASE ServeStops
      BY <3>9, SMT DEF ServeStops
    <3>10. CASE BridgeLost
      BY <3>10, SMT DEF BridgeLost, CloseSession
    <3>11. CASE AnnounceLoss
      BY <3>11, SMT DEF AnnounceLoss, SetState
    <3>12. CASE StopGrace
      BY <3>12, SMT DEF StopGrace
    <3>13. CASE CheckContainer
      BY <3>13, SMT DEF CheckContainer
    <3>14. CASE WindowPassed
      BY <3>14, SMT DEF WindowPassed, FirstReason
    <3>15. CASE StartBackoff
      BY <3>15, SMT DEF StartBackoff
    <3>16. CASE Backoff
      BY <3>16, SMT DEF Backoff
    <3>17. CASE SettleReason
      BY <3>17, SMT DEF SettleReason, FirstReason
    <3>18. CASE AnnounceStop
      BY <3>18, SMT DEF AnnounceStop, SetState
    <3>19. CASE CloseExecs
      BY <3>19, SMT DEF CloseExecs
    <3>20. CASE CloseTunnels
      BY <3>20, SMT DEF CloseTunnels
    <3>21. CASE DropBridge
      BY <3>21, SMT DEF DropBridge, CloseSession
    <3>22. CASE CancelAndWait
      BY <3>22, SMT DEF CancelAndWait
    <3>23. CASE FinalState
      BY <3>23, SMT DEF FinalState, SetState
    <3>24. CASE CloseServer
      BY <3>24, SMT DEF CloseServer
    <3>25. CASE Release
      BY <3>25, SMT DEF Release
    <3> HIDE DEF LifeInv, DataOK, States, Stopping, Sessions, Startup,
         Connect, Loop, Closing
    <3> QED BY <2>1, <3>1, <3>2, <3>3, <3>4, <3>5, <3>6, <3>7, <3>8, <3>9,
         <3>10, <3>11, <3>12, <3>13, <3>14, <3>15, <3>16, <3>17, <3>18,
         <3>19, <3>20, <3>21, <3>22, <3>23, <3>24, <3>25 DEF Main
  <2>2. CASE Refresher
    BY <2>0, <2>2 DEF Refresher, RefreshRun, RefreshStore, RefreshPick,
         RefreshSend, RefreshStops
  <2>3. CASE World
    BY <2>0, <2>3 DEF World, Signal, ContainerStops, ContainerRestarts,
         MuxFails
  <2>4. ASSUME NEW s \in Sessions, ReaderEnds(s) PROVE LifeInv'
    BY <2>0, <2>4 DEF ReaderEnds
  <2>5. ASSUME NEW p \in Stoppers, Stopper(p) PROVE LifeInv'
    BY <2>0, <2>5 DEF Stopper, StopArrives, StopSetsReason, StopCancels
  <2>6. ASSUME NEW o \in Openers, Opener(o) PROVE LifeInv'
    BY <2>0, <2>6 DEF Opener, OpenSnapshot, OpenPick, OpenStream,
         TrackStream, StreamEnds
  <2>7. CASE UNCHANGED vars
    BY <2>0, <2>7 DEF vars
  <2> HIDE DEF LifeInv, DataOK, States, Stopping, Sessions, Startup,
       Connect, Loop, Closing
  <2> QED BY <2>1, <2>2, <2>3, <2>4, <2>5, <2>6, <2>7 DEF Next, Exited
<1> HIDE DEF LifeInv, DataOK, States, Stopping, Sessions, Startup, Connect,
     Loop, Closing
<1> QED BY <1>1, <1>2, DataInvariant, PTL DEF Spec

\* A clean shutdown has a reason from the moment serve returned.
LEMMA StopInvariant == Spec => []StopInv
<1> USE DEF StopInv, DataOK, LifeInv, Stops, Stopping, Sessions, Startup,
     Connect, Loop, Closing, mainVars, fileVars, muVars, ctxVars,
     sessionVars, serverVars, refreshVars, clientVars
<1>1. Init => StopInv
  BY SMT DEF Init
<1>2. DataOK /\ LifeInv /\ StopInv /\ [Next]_vars => StopInv'
  <2> SUFFICES ASSUME DataOK, LifeInv, StopInv, [Next]_vars PROVE StopInv'
    OBVIOUS
  <2>0. ASSUME UNCHANGED <<pc, runErr, ctxDone, parentDone, stopReason,
       state, reason, stopper>> PROVE StopInv'
    BY <2>0
  <2>1. CASE Main
    <3>1. CASE Listen
      BY <3>1, SMT DEF Listen, SetState
    <3>2. CASE PrepareEnvironment
      <4>1. CASE ctxDone
        BY <3>2, <4>1, SMT DEF PrepareEnvironment, ServeFails
      <4>2. CASE ~ctxDone
        BY <3>2, <4>2, SMT DEF PrepareEnvironment, ServeFails
      <4> QED BY <4>1, <4>2
    <3>3. CASE DevcontainerUp
      <4>1. CASE ctxDone
        BY <3>3, <4>1, SMT DEF DevcontainerUp, ServeFails, SetState
      <4>2. CASE ~ctxDone
        BY <3>3, <4>2, SMT DEF DevcontainerUp, ServeFails, SetState
      <4> QED BY <4>1, <4>2
    <3>4. CASE StartEndpoint
      <4>1. CASE ctxDone
        BY <3>4, <4>1, SMT DEF StartEndpoint, ConnectFails, ServeFails
      <4>2. CASE ~ctxDone
        BY <3>4, <4>2, SMT DEF StartEndpoint, ConnectFails, ServeFails
      <4> QED BY <4>1, <4>2
    <3>5. CASE SendInit
      <4>1. CASE ctxDone
        BY <3>5, <4>1, SMT DEF SendInit, ConnectFails, ServeFails, CloseSession
      <4>2. CASE ~ctxDone
        BY <3>5, <4>2, SMT DEF SendInit, ConnectFails, ServeFails, CloseSession
      <4> QED BY <4>1, <4>2
    <3>6. CASE AwaitReady
      <4>1. CASE ctxDone
        BY <3>6, <4>1, SMT DEF AwaitReady, ConnectFails, ServeFails,
             CloseSession
      <4>2. CASE ~ctxDone
        BY <3>6, <4>2, SMT DEF AwaitReady, ConnectFails, ServeFails,
             CloseSession
      <4> QED BY <4>1, <4>2
    <3>7. CASE InstallBridge
      BY <3>7, SMT DEF InstallBridge, CloseSession
    <3>8. CASE SetReady
      BY <3>8, SMT DEF SetReady, SetState
    <3>9. CASE ServeStops
      BY <3>9, SMT DEF ServeStops
    <3>10. CASE BridgeLost
      BY <3>10, SMT DEF BridgeLost, CloseSession
    <3>11. CASE AnnounceLoss
      BY <3>11, SMT DEF AnnounceLoss, SetState
    <3>12. CASE StopGrace
      BY <3>12, SMT DEF StopGrace
    <3>13. CASE CheckContainer
      BY <3>13, SMT DEF CheckContainer
    <3>14. CASE WindowPassed
      <4>1. CASE ctxDone
        BY <3>14, <4>1, SMT DEF WindowPassed, FirstReason
      <4>2. CASE ~ctxDone
        BY <3>14, <4>2, SMT DEF WindowPassed, FirstReason
      <4> QED BY <4>1, <4>2
    <3>15. CASE StartBackoff
      BY <3>15, SMT DEF StartBackoff
    <3>16. CASE Backoff
      BY <3>16, SMT DEF Backoff
    <3>17. CASE SettleReason
      BY <3>17, SMT DEF SettleReason, FirstReason
    <3>18. CASE AnnounceStop
      BY <3>18, SMT DEF AnnounceStop, SetState
    <3>19. CASE CloseExecs
      BY <3>19, SMT DEF CloseExecs
    <3>20. CASE CloseTunnels
      BY <3>20, SMT DEF CloseTunnels
    <3>21. CASE DropBridge
      BY <3>21, SMT DEF DropBridge, CloseSession
    <3>22. CASE CancelAndWait
      BY <3>22, SMT DEF CancelAndWait
    <3>23. CASE FinalState
      BY <3>23, SMT DEF FinalState, SetState
    <3>24. CASE CloseServer
      BY <3>24, SMT DEF CloseServer
    <3>25. CASE Release
      BY <3>25, SMT DEF Release
    <3> HIDE DEF StopInv, DataOK, LifeInv, Stops, Stopping, Sessions,
         Startup, Connect, Loop, Closing
    <3> QED BY <2>1, <3>1, <3>2, <3>3, <3>4, <3>5, <3>6, <3>7, <3>8, <3>9,
         <3>10, <3>11, <3>12, <3>13, <3>14, <3>15, <3>16, <3>17, <3>18,
         <3>19, <3>20, <3>21, <3>22, <3>23, <3>24, <3>25 DEF Main
  <2>2. CASE Refresher
    BY <2>0, <2>2 DEF Refresher, RefreshRun, RefreshStore, RefreshPick,
         RefreshSend, RefreshStops
  <2>3. CASE World
    <3>1. CASE Signal
      BY <3>1, SMT DEF Signal
    <3>2. CASE ContainerStops
      BY <2>0, <3>2 DEF ContainerStops, mainVars, fileVars, muVars, ctxVars,
           sessionVars, serverVars, refreshVars, clientVars
    <3>3. CASE ContainerRestarts
      BY <2>0, <3>3 DEF ContainerRestarts, mainVars, fileVars, muVars,
           ctxVars, sessionVars, serverVars, refreshVars, clientVars
    <3>4. ASSUME NEW s \in Sessions, MuxFails(s) PROVE StopInv'
      BY <2>0, <3>4 DEF MuxFails, mainVars, fileVars, muVars, ctxVars,
           sessionVars, serverVars, refreshVars, clientVars
    <3> HIDE DEF StopInv, DataOK, LifeInv, Stops, Stopping, Sessions,
         Startup, Connect, Loop, Closing
    <3> QED BY <2>3, <3>1, <3>2, <3>3, <3>4 DEF World
  <2>4. ASSUME NEW s \in Sessions, ReaderEnds(s) PROVE StopInv'
    BY <2>0, <2>4 DEF ReaderEnds
  <2>5. ASSUME NEW p \in Stoppers, Stopper(p) PROVE StopInv'
    <3>1. CASE StopArrives(p)
      BY <3>1, SMT DEF StopArrives
    <3>2. CASE StopSetsReason(p)
      BY <3>2, SMT DEF StopSetsReason, FirstReason
    <3>3. CASE StopCancels(p)
      BY <3>3, SMT DEF StopCancels
    <3> HIDE DEF StopInv, DataOK, LifeInv, Stops, Stopping, Sessions,
         Startup, Connect, Loop, Closing
    <3> QED BY <2>5, <3>1, <3>2, <3>3 DEF Stopper
  <2>6. ASSUME NEW o \in Openers, Opener(o) PROVE StopInv'
    BY <2>0, <2>6 DEF Opener, OpenSnapshot, OpenPick, OpenStream,
         TrackStream, StreamEnds
  <2>7. CASE UNCHANGED vars
    BY <2>0, <2>7 DEF vars
  <2> HIDE DEF StopInv, DataOK, LifeInv, Stops, Stopping, Sessions, Startup,
       Connect, Loop, Closing
  <2> QED BY <2>1, <2>2, <2>3, <2>4, <2>5, <2>6, <2>7 DEF Next, Exited
<1> HIDE DEF StopInv, DataOK, LifeInv, Stops, Stopping, Sessions, Startup,
     Connect, Loop, Closing
<1> QED BY <1>1, <1>2, DataInvariant, LifeInvariant, PTL DEF Spec

\* What the endpoints hold is never newer than env, and the bridge's is env.
LEMMA EnvInvariant == Spec => []EnvInv
<1> USE InstanceAssumption DEF EnvInv, RefreshReachesBridge, DataOK,
     SessionInv, ReaderInv, Connecting, Bridged, Sessions, Startup, Connect,
     Loop, Closing, mainVars, fileVars, muVars, ctxVars, sessionVars,
     serverVars, refreshVars, clientVars
<1>1. Init => EnvInv
  BY SMT DEF Init
<1>2. DataOK /\ SessionInv /\ ReaderInv /\ EnvInv /\ [Next]_vars => EnvInv'
  <2> SUFFICES ASSUME DataOK, SessionInv, ReaderInv, EnvInv, [Next]_vars
       PROVE EnvInv'
    OBVIOUS
  <2>0. ASSUME UNCHANGED <<pc, refresher, target, env, newEnv, sentEnv, mux,
       reader, cur>> PROVE EnvInv'
    BY <2>0
  <2>1. CASE Main
    <3>1. CASE Listen
      BY <3>1, SMT DEF Listen, SetState
    <3>2. CASE PrepareEnvironment
      BY <3>2, SMT DEF PrepareEnvironment, ServeFails
    <3>3. CASE DevcontainerUp
      BY <3>3, SMT DEF DevcontainerUp, ServeFails, SetState
    <3>4. CASE StartEndpoint
      BY <3>4, SMT DEF StartEndpoint, ConnectFails, ServeFails
    <3>5. CASE SendInit
      BY <3>5, SMTT(30) DEF SendInit, ConnectFails, ServeFails, CloseSession
    <3>6. CASE AwaitReady
      BY <3>6, SMT DEF AwaitReady, ConnectFails, ServeFails, CloseSession
    <3>7. CASE InstallBridge
      BY <3>7, SMT DEF InstallBridge, CloseSession
    <3>8. CASE SetReady
      BY <3>8, SMT DEF SetReady, SetState
    <3>9. CASE ServeStops
      BY <3>9, SMT DEF ServeStops
    <3>10. CASE BridgeLost
      BY <3>10, SMT DEF BridgeLost, CloseSession
    <3>11. CASE AnnounceLoss
      BY <3>11, SMT DEF AnnounceLoss, SetState
    <3>12. CASE StopGrace
      BY <3>12, SMT DEF StopGrace
    <3>13. CASE CheckContainer
      BY <3>13, SMT DEF CheckContainer
    <3>14. CASE WindowPassed
      BY <3>14, SMT DEF WindowPassed, FirstReason
    <3>15. CASE StartBackoff
      BY <3>15, SMT DEF StartBackoff
    <3>16. CASE Backoff
      BY <3>16, SMT DEF Backoff
    <3>17. CASE SettleReason
      BY <3>17, SMT DEF SettleReason, FirstReason
    <3>18. CASE AnnounceStop
      BY <3>18, SMT DEF AnnounceStop, SetState
    <3>19. CASE CloseExecs
      BY <3>19, SMT DEF CloseExecs
    <3>20. CASE CloseTunnels
      BY <3>20, SMT DEF CloseTunnels
    <3>21. CASE DropBridge
      BY <3>21, SMT DEF DropBridge, CloseSession
    <3>22. CASE CancelAndWait
      BY <3>22, SMT DEF CancelAndWait
    <3>23. CASE FinalState
      BY <3>23, SMT DEF FinalState, SetState
    <3>24. CASE CloseServer
      BY <3>24, SMT DEF CloseServer
    <3>25. CASE Release
      BY <3>25, SMT DEF Release
    <3> HIDE DEF EnvInv, RefreshReachesBridge, DataOK, SessionInv,
         ReaderInv, Connecting, Bridged, Sessions, Startup, Connect, Loop,
         Closing
    <3> QED BY <2>1, <3>1, <3>2, <3>3, <3>4, <3>5, <3>6, <3>7, <3>8, <3>9,
         <3>10, <3>11, <3>12, <3>13, <3>14, <3>15, <3>16, <3>17, <3>18,
         <3>19, <3>20, <3>21, <3>22, <3>23, <3>24, <3>25 DEF Main
  <2>2. CASE Refresher
    <3>1. CASE RefreshRun
      BY <3>1, SMT DEF RefreshRun
    <3>2. CASE RefreshStore
      BY <3>2, SMT DEF RefreshStore
    <3>3. CASE RefreshPick
      BY <3>3, SMT DEF RefreshPick
    <3>4. CASE RefreshSend
      BY <3>4, SMT DEF RefreshSend
    <3>5. CASE RefreshStops
      BY <3>5, SMT DEF RefreshStops
    <3> HIDE DEF EnvInv, RefreshReachesBridge, DataOK, SessionInv,
         ReaderInv, Connecting, Bridged, Sessions, Startup, Connect, Loop,
         Closing
    <3> QED BY <2>2, <3>1, <3>2, <3>3, <3>4, <3>5 DEF Refresher
  <2>3. CASE World
    <3>1. CASE Signal
      BY <2>0, <3>1 DEF Signal, mainVars, fileVars, muVars, ctxVars,
           sessionVars, serverVars, refreshVars, clientVars
    <3>2. CASE ContainerStops
      BY <3>2, SMT DEF ContainerStops
    <3>3. CASE ContainerRestarts
      BY <2>0, <3>3 DEF ContainerRestarts, mainVars, fileVars, muVars,
           ctxVars, sessionVars, serverVars, refreshVars, clientVars
    <3>4. ASSUME NEW s \in Sessions, MuxFails(s) PROVE EnvInv'
      BY <3>4, SMT DEF MuxFails
    <3> HIDE DEF EnvInv, RefreshReachesBridge, DataOK, SessionInv,
         ReaderInv, Connecting, Bridged, Sessions, Startup, Connect, Loop,
         Closing
    <3> QED BY <2>3, <3>1, <3>2, <3>3, <3>4 DEF World
  <2>4. ASSUME NEW s \in Sessions, ReaderEnds(s) PROVE EnvInv'
    BY <2>4, SMT DEF ReaderEnds
  <2>5. ASSUME NEW p \in Stoppers, Stopper(p) PROVE EnvInv'
    BY <2>0, <2>5 DEF Stopper, StopArrives, StopSetsReason, StopCancels
  <2>6. ASSUME NEW o \in Openers, Opener(o) PROVE EnvInv'
    BY <2>0, <2>6 DEF Opener, OpenSnapshot, OpenPick, OpenStream,
         TrackStream, StreamEnds
  <2>7. CASE UNCHANGED vars
    BY <2>0, <2>7 DEF vars
  <2> HIDE DEF EnvInv, RefreshReachesBridge, DataOK, SessionInv, ReaderInv,
       Connecting, Bridged, Sessions, Startup, Connect, Loop, Closing
  <2> QED BY <2>1, <2>2, <2>3, <2>4, <2>5, <2>6, <2>7 DEF Next, Exited
<1> HIDE DEF EnvInv, RefreshReachesBridge, DataOK, SessionInv, ReaderInv,
     Connecting, Bridged, Sessions, Startup, Connect, Loop, Closing
<1> QED BY <1>1, <1>2, DataInvariant, SessionInvariant, ReaderInvariant, PTL
     DEF Spec

-----------------------------------------------------------------------------
\* Every variable keeps its type, for any number of sessions, attempts,
\* environments, clients and requests.
THEOREM TypeCorrect == Spec => []TypeOK
BY FlagsInvariant, DataInvariant, PTL DEF TypeOK

\* No path through connect, reconnect or stop leaves an endpoint's docker
\* exec behind: every session that is not closed is the bridge or the one
\* serve is connecting, and none survives shutdown.
THEOREM SessionsNeverLeak == Spec => []NoSessionLeak
<1>1. DataOK /\ SessionInv => NoSessionLeak
  <2> SUFFICES ASSUME DataOK, SessionInv PROVE NoSessionLeak
    OBVIOUS
  <2>1. \A s \in Sessions : mux[s] \in {"open", "failed"} => s = cur
    BY DEF SessionInv
  <2>2. ASSUME pc \in {"cancel", "final", "closeServer", "release", "exited"},
               NEW s \in Sessions
        PROVE  mux[s] \in {"unused", "closed"}
    <3>1. cur = 0
      BY <2>2, SMT DEF SessionInv, Connecting, Bridged
    <3>2. mux[s] \in {"unused", "open", "failed", "closed"}
      BY SMT DEF DataOK
    <3>3. s # 0
      BY SMT DEF Sessions, InstanceAssumption
    <3> QED BY <2>1, <3>1, <3>2, <3>3, SMT
  <2> QED BY <2>1, <2>2 DEF NoSessionLeak
<1> QED BY <1>1, DataInvariant, SessionInvariant, PTL

\* A clean stop carries the first stop reason in the state file, and
\* announced it while stopping, whatever order op stop, a signal and the
\* container's end came in.
THEOREM CauseIsNamed == Spec => []StoppedNamesCause
<1>1. DataOK /\ LifeInv /\ StopInv => StoppedNamesCause
  <2> SUFFICES ASSUME DataOK, LifeInv, StopInv PROVE StoppedNamesCause
    OBVIOUS
  <2>1. pc \in Startup \cup Connect \cup Loop \cup Closing
    BY DEF DataOK
  <2>2. state = "stopping" => pc \in Stopping
    BY <2>1, SMT DEF LifeInv, Startup, Connect, Loop, Closing, Stopping
  <2> QED BY <2>2, SMT DEF StopInv, StoppedNamesCause
<1> QED BY <1>1, DataInvariant, LifeInvariant, StopInvariant, PTL

\* Streams are served only on sessions whose endpoint acknowledged its init,
\* whatever changed between openStream's reads.
THEOREM ServedOnReadyEndpoints == Spec => []StreamsOnReadyEndpoints
<1>1. ReaderInv => StreamsOnReadyEndpoints
  BY DEF ReaderInv
<1> QED BY <1>1, ReaderInvariant, PTL

\* A refresh that found the current bridge has brought the endpoint the
\* newest environment.
THEOREM RefreshIsDelivered == Spec => []RefreshReachesBridge
<1>1. EnvInv => RefreshReachesBridge
  BY DEF EnvInv
<1> QED BY <1>1, EnvInvariant, PTL

\* No endpoint ever gets an older environment than it had, although SendInit
\* and sendEnvironment run in two goroutines.
THEOREM EnvironmentIsMonotonic == Spec => EnvironmentNeverGoesBack
<1> DEFINE Monotonic == \A s \in Sessions : sentEnv'[s] >= sentEnv[s]
<1>1. ASSUME DataOK, EnvInv, [Next]_vars PROVE [Monotonic]_vars
  <2>0. sentEnv \in [Sessions -> 0..MaxEnv] /\ env \in Nat /\ newEnv \in Nat
    <3>1. /\ sentEnv \in [Sessions -> 0..MaxEnv]
          /\ env \in 0..MaxEnv /\ newEnv \in 0..MaxEnv
      BY <1>1 DEF DataOK
    <3> QED BY <3>1, SMT
  <2>i. \A s \in Sessions : sentEnv[s] <= env /\ sentEnv[s] \in Nat
    BY <1>1, <2>0, SMT DEF EnvInv, InstanceAssumption
  <2>1. ASSUME sentEnv' = sentEnv PROVE Monotonic
    BY <2>i, <2>1, SMT
  <2>2. CASE SendInit
    <3>1. CASE sentEnv' = [sentEnv EXCEPT ![cur] = env]
      BY <2>0, <2>i, <3>1, SMT
    <3> QED BY <2>1, <2>2, <3>1 DEF SendInit
  <2>3. CASE RefreshSend
    <3>1. CASE sentEnv' = [sentEnv EXCEPT ![target] = newEnv]
      <4>1. newEnv = env
        BY <1>1, <2>3, SMT DEF RefreshSend, EnvInv
      <4> QED BY <2>0, <2>i, <3>1, <4>1, SMT
    <3> QED BY <2>1, <2>3, <3>1 DEF RefreshSend
  <2>4. (SendInit \/ RefreshSend) \/ sentEnv' = sentEnv
    <3> USE DEF sessionVars
    <3>1. CASE Main
      BY <3>1, Zenon DEF Main, Listen, PrepareEnvironment, DevcontainerUp,
         StartEndpoint, AwaitReady, InstallBridge, SetReady, ServeStops,
         BridgeLost, AnnounceLoss, StopGrace, CheckContainer, WindowPassed,
         StartBackoff, Backoff, SettleReason, AnnounceStop, CloseExecs,
         CloseTunnels, DropBridge, CancelAndWait, FinalState, CloseServer,
         Release
    <3>2. CASE Refresher
      BY <3>2, Zenon DEF Refresher, RefreshRun, RefreshStore, RefreshPick,
         RefreshStops
    <3>3. CASE World \/ UNCHANGED vars
      BY <3>3, Zenon DEF World, Signal, ContainerStops, ContainerRestarts,
         MuxFails, vars
    <3>4. ASSUME NEW s \in Sessions, ReaderEnds(s) PROVE sentEnv' = sentEnv
      BY <3>4, Zenon DEF ReaderEnds
    <3>5. ASSUME NEW p \in Stoppers, Stopper(p) PROVE sentEnv' = sentEnv
      BY <3>5, Zenon DEF Stopper, StopArrives, StopSetsReason, StopCancels
    <3>6. ASSUME NEW o \in Openers, Opener(o) PROVE sentEnv' = sentEnv
      BY <3>6, Zenon DEF Opener, OpenSnapshot, OpenPick, OpenStream,
         TrackStream, StreamEnds
    <3> QED BY <1>1, <3>1, <3>2, <3>3, <3>4, <3>5, <3>6, Zenon DEF Next, Exited
  <2> QED BY <2>1, <2>2, <2>3, <2>4
<1> QED BY <1>1, DataInvariant, EnvInvariant, PTL
        DEF Spec, EnvironmentNeverGoesBack

\* After CloseExecs no exec stream is served, those opened before it and
\* tracked after it included.
THEOREM NoExecIsServedAfterClose == Spec => []NoExecAfterClose
<1> USE DEF NoExecAfterClose, clientVars, serverVars
<1>1. Init => NoExecAfterClose
  BY Zenon DEF Init
<1>2. DataOK /\ NoExecAfterClose /\ [Next]_vars => NoExecAfterClose'
  <2> SUFFICES ASSUME DataOK, NoExecAfterClose, [Next]_vars PROVE NoExecAfterClose'
    OBVIOUS
  <2> USE DEF DataOK
  <2>0. ASSUME execsClosed' = execsClosed,
               \A o \in Openers : opener'[o] = "serving" =>
                  opener[o] = "serving" \/ ~execsClosed
        PROVE  NoExecAfterClose'
    BY <2>0, Zenon
  <2>a. ASSUME UNCHANGED <<execsClosed, opener>> PROVE NoExecAfterClose'
    BY <2>a, Zenon
  <2>1. CASE CloseExecs
    BY <2>1, SMT DEF CloseExecs
  <2>2. ASSUME NEW o \in Openers, Opener(o) PROVE NoExecAfterClose'
    <3>1. execsClosed' = execsClosed
      BY <2>2, Zenon DEF Opener, OpenSnapshot, OpenPick, OpenStream,
           TrackStream, StreamEnds
    <3>2. CASE TrackStream(o)
      <4>1. CASE execsClosed
        BY <2>0, <3>1, <3>2, <4>1, SMT DEF TrackStream
      <4>2. CASE ~execsClosed
        BY <2>0, <3>1, <4>2, Zenon
      <4> QED BY <4>1, <4>2
    <3>3. ASSUME NEW v \in {"idle", "snapshot", "picked", "opened"},
                 opener' = [opener EXCEPT ![o] = v]
          PROVE  NoExecAfterClose'
      BY <2>0, <3>1, <3>3, SMT
    <3>4. TrackStream(o) \/ \E v \in {"idle", "snapshot", "picked", "opened"} : opener' = [opener EXCEPT ![o] = v]
      BY <2>2, Zenon DEF Opener, OpenSnapshot, OpenPick, OpenStream, StreamEnds
    <3> QED BY <3>2, <3>3, <3>4
  <2>3. CASE Main /\ ~CloseExecs
    BY <2>3, <2>a, Zenon DEF Main, Listen, PrepareEnvironment, DevcontainerUp,
       StartEndpoint, SendInit, AwaitReady, InstallBridge, SetReady, ServeStops,
       BridgeLost, AnnounceLoss, StopGrace, CheckContainer, WindowPassed,
       StartBackoff, Backoff, SettleReason, AnnounceStop,
       CloseTunnels, DropBridge, CancelAndWait, FinalState, CloseServer,
       Release
  <2>4. CASE Refresher \/ World
    BY <2>4, <2>a, Zenon DEF Refresher, RefreshRun, RefreshStore, RefreshPick,
       RefreshSend, RefreshStops, World, Signal, ContainerStops, ContainerRestarts, MuxFails
  <2>5. ASSUME NEW s \in Sessions, ReaderEnds(s) PROVE NoExecAfterClose'
    BY <2>5, <2>a, Zenon DEF ReaderEnds
  <2>6. ASSUME NEW p \in Stoppers, Stopper(p) PROVE NoExecAfterClose'
    BY <2>6, <2>a, Zenon DEF Stopper, StopArrives, StopSetsReason, StopCancels
  <2>7. CASE UNCHANGED vars
    BY <2>7, <2>a, Zenon DEF vars
  <2> HIDE DEF NoExecAfterClose, DataOK
  <2> QED BY <2>1, <2>2, <2>3, <2>4, <2>5, <2>6, <2>7, Zenon DEF Next, Exited
<1> HIDE DEF NoExecAfterClose
<1> QED BY <1>1, <1>2, DataInvariant, PTL DEF Spec

-----------------------------------------------------------------------------
(***************************************************************************)
(* Instance.tla implements InstanceLifecycle.tla: the state file, the stop *)
(* reason and ReadyBridge move only as the abstract lifecycle allows.  The *)
(* step needs LifeInv (which state each step starts from), SessionInv (the *)
(* bridge is gone when its loss is announced) and StopInv (a clean end has *)
(* a cause and has announced it).                                          *)
(***************************************************************************)

\* Commands are served exactly while ready with a live bridge.
LEMMA ServingMeans ==
  (ReadyBridge # 0) <=> (state = "ready" /\ bridge # 0 /\ mux[bridge] = "open")
BY Zenon DEF ReadyBridge, LiveBridge

\* The same after the step.
LEMMA ServingMeansNext ==
  (ReadyBridge' # 0) <=> (state' = "ready" /\ bridge' # 0 /\ mux'[bridge'] = "open")
BY Zenon DEF ReadyBridge, LiveBridge

\* While not ready, sessions come and go unseen.
LEMMA StepWhileNotReady ==
  ASSUME state # "ready", state' # "ready",
         state' = state, reason' = reason, stopReason' = stopReason
  PROVE  UNCHANGED Lifecycle!vars
BY Zenon DEF Lifecycle!vars, ReadyBridge

\* Clients see only the published state, the stop reason and the live bridge.
LEMMA StepIsHidden ==
  ASSUME UNCHANGED <<state, reason, stopReason, bridge, mux>>
  PROVE  UNCHANGED Lifecycle!vars
BY Zenon DEF Lifecycle!vars, ReadyBridge, LiveBridge

\* A step that does not bring the bridge back is StopServing or unseen.
LEMMA StepLosesBridge ==
  ASSUME UNCHANGED <<state, reason, stopReason>>, (ReadyBridge' # 0) => (ReadyBridge # 0)
  PROVE  Lifecycle!StopServing \/ UNCHANGED Lifecycle!vars
BY Zenon DEF Lifecycle!vars, Lifecycle!StopServing

\* requestStop is WantStop the first time and unseen afterwards.
LEMMA StepWantsStop ==
  ASSUME NEW r \in Stops, FirstReason(r), UNCHANGED <<state, reason, bridge, mux>>
  PROVE  (\E c \in Lifecycle!Causes : Lifecycle!WantStop(c)) \/ UNCHANGED Lifecycle!vars
<1>0. (ReadyBridge # 0)' = (ReadyBridge # 0)
  BY Zenon DEF ReadyBridge, LiveBridge
<1>1. CASE stopReason = "none"
  <2>1. Lifecycle!WantStop(r)
    BY <1>0, <1>1, Zenon DEF FirstReason, Lifecycle!WantStop
  <2>2. r \in Lifecycle!Causes
    BY Zenon DEF Stops, Lifecycle!Causes
  <2> QED BY <2>1, <2>2, Zenon
<1>2. CASE stopReason # "none"
  BY <1>0, <1>2, Zenon DEF FirstReason, Lifecycle!vars
<1> QED BY <1>1, <1>2, Zenon

\* Every step is a step of InstanceLifecycle or leaves its variables alone.
LEMMA StepRefines ==
  ASSUME DataOK, SessionInv, LifeInv, StopInv, [Next]_vars
  PROVE  [Lifecycle!Next]_(Lifecycle!vars)
<1> USE DEF mainVars, fileVars, muVars, ctxVars, sessionVars, serverVars,
     refreshVars, clientVars, SetState
<1> DEFINE Goal == Lifecycle!Next \/ UNCHANGED Lifecycle!vars
<1> SUFFICES Goal BY Zenon DEF Lifecycle!Next
<1>0. Lifecycle!StopServing \/ Lifecycle!BecomeReady => Goal
  BY Zenon DEF Lifecycle!Next
<1>a. ASSUME UNCHANGED <<state, reason, stopReason, bridge, mux>> PROVE Goal
  BY <1>a, StepIsHidden, Zenon
<1>1. CASE Listen
  <2>1. CASE fileVars' = fileVars
    BY <1>1, <2>1, <1>a DEF Listen
  <2>2. CASE SetState("failed", "error")
    <3>1. state = "starting"
      BY <1>1, SMT DEF Listen, LifeInv, Startup
    <3>2. Lifecycle!Fail
      BY <1>1, <2>2, <3>1, Zenon DEF Listen, Lifecycle!Fail, ReadyBridge
    <3> QED BY <3>2, Zenon DEF Lifecycle!Next
  <2> QED BY <1>1, <2>1, <2>2, Zenon DEF Listen
<1>2. CASE DevcontainerUp
  <2>1. CASE UNCHANGED <<state, reason>>
    BY <1>2, <2>1, <1>a, Zenon DEF DevcontainerUp
  <2>2. CASE SetState("connecting", "none")
    <3>1. state = "starting"
      BY <1>2, SMT DEF DevcontainerUp, LifeInv, Startup
    <3>2. Lifecycle!StartConnecting
      BY <1>2, <2>2, <3>1, Zenon DEF DevcontainerUp,
           Lifecycle!StartConnecting, ReadyBridge
    <3> QED BY <3>2, Zenon DEF Lifecycle!Next
  <2> QED BY <1>2, <2>1, <2>2, Zenon DEF DevcontainerUp
<1>3. CASE StartEndpoint \/ SendInit \/ AwaitReady \/ InstallBridge
  <2>1. pc \in Connect /\ UNCHANGED <<state, reason, stopReason>>
    BY <1>3, Zenon DEF Connect, StartEndpoint, SendInit, AwaitReady,
         InstallBridge
  <2>2. state # "ready"
    BY <2>1, SMT DEF LifeInv
  <2> QED BY <2>1, <2>2, StepWhileNotReady
<1>4. CASE SetReady
  <2>1. state \in {"connecting", "reconnecting"}
    BY <1>4, SMT DEF SetReady, LifeInv, Connect
  <2>2. Lifecycle!BecomeReady
    BY <1>4, <2>1, Zenon DEF SetReady, Lifecycle!BecomeReady
  <2> QED BY <2>2, Zenon DEF Lifecycle!Next
<1>5. CASE BridgeLost
  <2>1. bridge' = 0 /\ UNCHANGED <<state, reason, stopReason>>
    BY <1>5, Zenon DEF BridgeLost
  <2> QED BY <2>1, StepLosesBridge, ServingMeansNext, Zenon DEF Lifecycle!Next
<1>6. CASE AnnounceLoss
  <2>1. state = "ready"
    BY <1>6, SMT DEF AnnounceLoss, LifeInv
  <2>2. bridge = 0
    BY <1>6, SMT DEF AnnounceLoss, SessionInv, Connecting, Bridged
  <2>3. Lifecycle!AnnounceLoss
    BY <1>6, <2>1, <2>2, Zenon DEF AnnounceLoss, Lifecycle!AnnounceLoss,
         ReadyBridge, LiveBridge
  <2> QED BY <2>3, Zenon DEF Lifecycle!Next
<1>7. CASE WindowPassed
  <2>1. UNCHANGED <<state, reason, bridge, mux>> /\ (FirstReason("container_stopped") \/ stopReason' = stopReason)
    BY <1>7, Zenon DEF WindowPassed
  <2> QED BY <2>1, StepWantsStop, <1>a, Zenon DEF Stops, Lifecycle!Next
<1>8. CASE SettleReason
  <2>1. UNCHANGED <<state, reason, bridge, mux>> /\ (FirstReason("signal") \/ stopReason' = stopReason)
    BY <1>8, Zenon DEF SettleReason
  <2> QED BY <2>1, StepWantsStop, <1>a, Zenon DEF Stops, Lifecycle!Next
<1>9. CASE AnnounceStop
  <2>1. state \notin {"stopping", "stopped", "failed"}
    BY <1>9, SMT DEF AnnounceStop, LifeInv
  <2>2. Lifecycle!AnnounceStop
    BY <1>9, <2>1, Zenon DEF AnnounceStop, Lifecycle!AnnounceStop,
         Lifecycle!Ended, ReadyBridge
  <2> QED BY <2>2, Zenon DEF Lifecycle!Next
<1>10. CASE DropBridge
  <2>1. state = "stopping" /\ UNCHANGED <<state, reason, stopReason>>
    BY <1>10, SMT DEF DropBridge, LifeInv, Stopping
  <2> QED BY <2>1, StepWhileNotReady, Zenon
<1>11. CASE FinalState
  <2>0. state = "stopping" /\ stopReason' = stopReason
    BY <1>11, SMT DEF FinalState, LifeInv, Stopping
  <2>1. CASE SetState("failed", "error")
    <3>1. Lifecycle!Fail
      BY <1>11, <2>0, <2>1, Zenon DEF Lifecycle!Fail, ReadyBridge
    <3> QED BY <3>1, Zenon DEF Lifecycle!Next
  <2>2. CASE runErr = "nil" /\ SetState("stopped", stopReason)
    <3>1. stopReason # "none" /\ reason = stopReason
      BY <1>11, <2>2, SMT DEF FinalState, StopInv, Stopping
    <3>2. Lifecycle!Stop
      BY <2>0, <2>2, <3>1, Zenon DEF Lifecycle!Stop, ReadyBridge
    <3> QED BY <3>2, Zenon DEF Lifecycle!Next
  <2> QED BY <1>11, <2>1, <2>2, Zenon DEF FinalState
<1>12. ASSUME NEW p \in Stoppers, StopSetsReason(p) PROVE Goal
  <2>1. UNCHANGED <<state, reason, bridge, mux>> /\ FirstReason("stop_requested")
    BY <1>12, Zenon DEF StopSetsReason
  <2> QED BY <2>1, StepWantsStop, Zenon DEF Stops, Lifecycle!Next
<1>13. ASSUME NEW s \in Sessions, MuxFails(s) PROVE Goal
  <2>1. UNCHANGED <<state, reason, stopReason, bridge>>
    BY <1>13, Zenon DEF MuxFails
  <2>2. bridge # 0 /\ mux'[bridge] = "open" => mux[bridge] = "open"
    BY <1>13, SMT DEF MuxFails, DataOK, Sessions
  <2> QED BY <2>1, <2>2, StepLosesBridge, ServingMeans, ServingMeansNext,
       Zenon DEF Lifecycle!Next
<1>14. CASE ContainerStops
  <2>1. UNCHANGED <<state, reason, stopReason, bridge>>
    BY <1>14, Zenon DEF ContainerStops
  <2>2. bridge # 0 /\ mux'[bridge] = "open" => mux[bridge] = "open"
    BY <1>14, SMT DEF ContainerStops, DataOK, Sessions
  <2> QED BY <2>1, <2>2, StepLosesBridge, ServingMeans, ServingMeansNext,
       Zenon DEF Lifecycle!Next
<1>15. CASE PrepareEnvironment \/ ServeStops \/ StopGrace \/ CheckContainer
     \/ StartBackoff \/ Backoff \/ CloseExecs \/ CloseTunnels \/
     CancelAndWait \/ CloseServer \/ Release
  BY <1>15, <1>a, Zenon DEF PrepareEnvironment, ServeStops, StopGrace,
       CheckContainer, StartBackoff, Backoff, CloseExecs, CloseTunnels,
       CancelAndWait, CloseServer, Release
<1>16. CASE Refresher \/ Signal \/ ContainerRestarts
  BY <1>16, <1>a, Zenon DEF Refresher, RefreshRun, RefreshStore,
       RefreshPick, RefreshSend, RefreshStops, Signal, ContainerRestarts
<1>17. ASSUME NEW s \in Sessions, ReaderEnds(s) PROVE Goal
  BY <1>17, <1>a, Zenon DEF ReaderEnds
<1>18. ASSUME NEW p \in Stoppers, StopArrives(p) \/ StopCancels(p) PROVE Goal
  BY <1>18, <1>a, Zenon DEF StopArrives, StopCancels
<1>19. ASSUME NEW o \in Openers, Opener(o) PROVE Goal
  BY <1>19, <1>a, Zenon DEF Opener, OpenSnapshot, OpenPick, OpenStream,
       TrackStream, StreamEnds
<1>20. CASE UNCHANGED vars
  BY <1>20, <1>a, Zenon DEF vars
<1>21. CASE Main
  BY <1>1, <1>2, <1>3, <1>4, <1>5, <1>6, <1>7, <1>8, <1>9, <1>10, <1>11,
       <1>15, <1>21, Zenon DEF Main
<1>22. CASE World
  BY <1>13, <1>14, <1>16, <1>22, Zenon DEF World
<1>23. ASSUME NEW p \in Stoppers, Stopper(p) PROVE Goal
  BY <1>12, <1>18, <1>23, Zenon DEF Stopper
<1> HIDE DEF Goal
<1> QED BY <1>16, <1>17, <1>19, <1>20, <1>21, <1>22, <1>23, Zenon DEF Next,
     Exited

\* The instance implements the lifecycle its clients rely on.
THEOREM InstanceImplementsLifecycle == Spec => ImplementsLifecycle
<1>1. Init => Lifecycle!Init
  BY Zenon DEF Init, Lifecycle!Init, ReadyBridge
<1> QED BY <1>1, StepRefines, DataInvariant, SessionInvariant,
          LifeInvariant, StopInvariant, PTL
       DEF Spec, Lifecycle!Spec, ImplementsLifecycle
=============================================================================
