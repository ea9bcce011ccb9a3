------------------------------ MODULE Instance ------------------------------
(***************************************************************************)
(* One workspace instance (internal/host/instancerun.go): the goroutine    *)
(* that runs serve and shutdown, the control reader of every bridge        *)
(* session, the environment refresher, the stop handlers, and the requests *)
(* that open streams over the bridge.  The instance holds its workspace    *)
(* lock for the whole behaviour.  A definition named X_Y and marked         *)
(* "Fault:" is X with a mistake; no specification uses it, it stands beside *)
(* X so that a run can show which property the mistake breaks.             *)
(*                                                                         *)
(* Sessions are numbered in the order startEndpoint creates them; 0 is the *)
(* nil *bridgeSession.  An environment is the number of the host command's *)
(* run that produced it.                                                   *)
(***************************************************************************)
EXTENDS Naturals

CONSTANTS
  MaxSessions,   \* bound: endpoints docker starts; every later start fails
  MaxAttempts,   \* bound: iterations of the reconnect loop in its window
  MaxEnv,        \* bound: successful runs of the host environment command
  Openers,       \* requests that open a stream over the bridge
  Stoppers       \* clients that send op stop

ASSUME InstanceAssumption ==
  /\ MaxSessions \in Nat
  /\ MaxAttempts \in Nat
  /\ MaxEnv \in Nat \ {0}

Sessions == 1..MaxSessions

VARIABLES
  \* the serve/shutdown goroutine and its locals
  pc, cur, attempt, lastErr, runErr,
  \* the state file
  state, reason, connected, reconnects,
  \* the fields guarded by Instance.mu
  stopReason, bridge, env,
  \* the instance context and its parent
  ctxDone, parentDone,
  \* bridge sessions: the mux, the readControl goroutine, the environment sent
  mux, reader, sentEnv,
  \* the container, and the exec server
  running, server, execsClosed, tunnels,
  \* the refresher and its locals
  refresher, newEnv, target,
  \* the stop handlers and the stream openers
  stopper, opener, picked

mainVars    == <<pc, cur, attempt, lastErr, runErr>>
fileVars    == <<state, reason, connected, reconnects>>
muVars      == <<stopReason, bridge, env>>
ctxVars     == <<ctxDone, parentDone>>
sessionVars == <<mux, reader, sentEnv>>
serverVars  == <<server, execsClosed, tunnels>>
refreshVars == <<refresher, newEnv, target>>
clientVars  == <<stopper, opener, picked>>
vars == <<mainVars, fileVars, muVars, ctxVars, sessionVars, running,
          serverVars, refreshVars, clientVars>>

States  == {"starting", "connecting", "ready", "reconnecting", "stopping",
            "stopped", "failed"}
Stops   == {"stop_requested", "signal", "container_stopped"}
Startup == {"listen", "prepare", "up"}
Connect == {"start", "init", "await", "install", "setReady"}
Loop    == {"serve", "lost", "grace", "retry", "deadline", "backoff"}
Closing == {"settle", "announce", "closeExecs", "closeTunnels", "drop",
            "cancel", "final", "closeServer", "release", "exited"}

FlagsOK ==
  /\ connected \in BOOLEAN
  /\ ctxDone \in BOOLEAN /\ parentDone \in BOOLEAN
  /\ running \in BOOLEAN /\ execsClosed \in BOOLEAN

DataOK ==
  /\ pc \in Startup \cup Connect \cup Loop \cup Closing
  /\ cur \in 0..MaxSessions /\ bridge \in 0..MaxSessions
  /\ attempt \in 0..MaxAttempts /\ (pc = "backoff" => attempt < MaxAttempts)
  /\ lastErr \in {"none", "stopped", "error"}
  /\ runErr \in {"nil", "error"}
  /\ state \in States
  /\ reason \in Stops \cup {"none", "bridge_lost", "error"}
  /\ reconnects \in Nat
  /\ stopReason \in Stops \cup {"none"}
  /\ env \in 0..MaxEnv /\ newEnv \in 0..MaxEnv
  /\ mux \in [Sessions -> {"unused", "open", "failed", "closed"}]
  /\ reader \in [Sessions -> {"none", "running", "done"}]
  /\ sentEnv \in [Sessions -> 0..MaxEnv]
  /\ server \in {"none", "up", "closed"}
  /\ tunnels \in {"none", "open", "closed"}
  /\ refresher \in {"off", "waiting", "store", "pick", "send", "stopped"}
  /\ target \in 0..MaxSessions
  /\ stopper \in [Stoppers -> {"idle", "asked", "cancels", "done"}]
  /\ opener \in [Openers -> {"idle", "snapshot", "picked", "opened", "serving"}]
  /\ picked \in [Openers -> 0..MaxSessions]

TypeOK == FlagsOK /\ DataOK

Init ==
  /\ pc = "listen" /\ cur = 0 /\ attempt = 0 /\ lastErr = "none"
  /\ runErr = "nil"
  /\ state = "starting" /\ reason = "none" /\ connected = FALSE /\ reconnects = 0
  /\ stopReason = "none" /\ bridge = 0 /\ env = 0
  /\ ctxDone = FALSE /\ parentDone = FALSE
  /\ mux = [s \in Sessions |-> "unused"]
  /\ reader = [s \in Sessions |-> "none"]
  /\ sentEnv = [s \in Sessions |-> 0]
  /\ running = FALSE
  /\ server = "none" /\ execsClosed = FALSE /\ tunnels = "none"
  /\ refresher = "off" /\ newEnv = 0 /\ target = 0
  /\ stopper = [p \in Stoppers |-> "idle"]
  /\ opener = [o \in Openers |-> "idle"]
  /\ picked = [o \in Openers |-> 0]

-----------------------------------------------------------------------------
(* Helpers *)

\* setState: the state file's State and Reason (the event follows it).
SetState(s, r) == state' = s /\ reason' = r

\* Fault: the last reason wins.
FirstReason_Last(r) == stopReason' = r

\* requestStop's effect on stopReason: the first reason wins.
FirstReason(r) == stopReason' = IF stopReason = "none" THEN r ELSE stopReason

\* Fault: the session is forgotten, not closed.
CloseSession_Forgets(s) == mux' = mux

\* bridgeSession.close, and conn.Close on a failed connect; nil is skipped.
CloseSession(s) ==
  mux' = IF s = 0 THEN mux ELSE [mux EXCEPT ![s] = "closed"]

\* Fault: the session being connected is used instead of the bridge.
LiveBridge_Session == IF cur # 0 /\ mux[cur] = "open" THEN cur ELSE 0

\* liveBridge: the bridge unless its mux has failed (0 is nil).
LiveBridge == IF bridge # 0 /\ mux[bridge] = "open" THEN bridge ELSE 0

\* readyBridge, and with it ready and the answer of op status.
ReadyBridge == IF state = "ready" THEN LiveBridge ELSE 0

\* serve returns: nil when the context has ended, else the error.
ServeFails == pc' = "settle" /\ runErr' = IF ctxDone THEN "nil" ELSE "error"

\* connect returned an error: serve returns on the first connect, reconnect
\* looks at its deadline.  Only serve's locals tell the two apart, and the
\* state file says the same.
ConnectFails ==
  IF state = "connecting"
  THEN ServeFails /\ UNCHANGED lastErr
  ELSE pc' = "deadline" /\ lastErr' = "error" /\ UNCHANGED runErr

-----------------------------------------------------------------------------
(* run and serve: startup *)

\* run: NewExecServer.  On an error the state is failed and run returns.
Listen ==
  /\ pc = "listen"
  /\ \/ pc' = "prepare" /\ server' = "up" /\ UNCHANGED fileVars
     \/ /\ pc' = "release"
        /\ SetState("failed", "error")
        /\ UNCHANGED <<server, connected, reconnects>>
  /\ UNCHANGED <<cur, attempt, lastErr, runErr, muVars, ctxVars, sessionVars,
                 running, execsClosed, tunnels, refreshVars, clientVars>>

\* config.Load, config.Validate, RunEnvironmentCommand, setEnv.  A
\* configuration error is returned even when a stop was requested.
PrepareEnvironment ==
  /\ pc = "prepare"
  /\ \/ pc' = "settle" /\ runErr' = "error" /\ UNCHANGED env
     \/ ServeFails /\ UNCHANGED env
     \/ ~ctxDone /\ pc' = "up" /\ env' = 1 /\ UNCHANGED runErr
  /\ UNCHANGED <<cur, attempt, lastErr, fileVars, stopReason, bridge, ctxVars,
                 sessionVars, running, serverVars, refreshVars, clientVars>>

\* devcontainerUp; then the tunnel manager and its port watcher.
DevcontainerUp ==
  /\ pc = "up"
  /\ \/ ServeFails /\ UNCHANGED <<state, reason, running, tunnels>>
     \/ /\ ~ctxDone
        /\ running' = TRUE
        /\ SetState("connecting", "none")
        /\ tunnels' = "open"
        /\ pc' = "start"
        /\ UNCHANGED runErr
  /\ UNCHANGED <<cur, attempt, lastErr, connected, reconnects, muVars, ctxVars,
                 sessionVars, server, execsClosed, refreshVars, clientVars>>

-----------------------------------------------------------------------------
(* connect *)

\* startEndpoint: docker cp and docker exec, not tied to the context.
StartEndpoint ==
  /\ pc = "start"
  /\ \/ \E s \in Sessions :
          /\ running
          /\ mux[s] = "unused"
          /\ \A t \in Sessions : t < s => mux[t] # "unused"
          /\ mux' = [mux EXCEPT ![s] = "open"]
          /\ cur' = s
          /\ pc' = "init"
          /\ UNCHANGED <<lastErr, runErr>>
     \/ ConnectFails /\ UNCHANGED <<mux, cur>>
  /\ UNCHANGED <<attempt, fileVars, muVars, ctxVars, reader, sentEnv, running,
                 serverVars, refreshVars, clientVars>>

\* currentEnv, then SendControl(init).
SendInit ==
  /\ pc = "init"
  /\ \/ /\ mux[cur] = "open"
        /\ sentEnv' = [sentEnv EXCEPT ![cur] = env]
        /\ pc' = "await"
        /\ UNCHANGED <<mux, cur, lastErr, runErr>>
     \/ /\ mux[cur] # "open"
        /\ CloseSession(cur)
        /\ cur' = 0
        /\ ConnectFails
        /\ UNCHANGED sentEnv
  /\ UNCHANGED <<attempt, fileVars, muVars, ctxVars, reader, running,
                 serverVars, refreshVars, clientVars>>

\* waitEnvironmentReady: acknowledged, or rejected, mismatched, lost, or timed
\* out.  An acknowledged session gets its agent and its control reader.
AwaitReady ==
  /\ pc = "await"
  /\ \/ /\ mux[cur] \in {"open", "failed"}
        /\ reader' = [reader EXCEPT ![cur] = "running"]
        /\ pc' = "install"
        /\ UNCHANGED <<mux, cur, lastErr, runErr>>
     \/ /\ CloseSession(cur)
        /\ cur' = 0
        /\ ConnectFails
        /\ UNCHANGED reader
  /\ UNCHANGED <<attempt, fileVars, muVars, ctxVars, sentEnv, running,
                 serverVars, refreshVars, clientVars>>

\* serve after connect: a session that arrives after the stop is closed,
\* otherwise setBridge.
InstallBridge ==
  /\ pc = "install"
  /\ \/ /\ ctxDone
        /\ CloseSession(cur)
        /\ cur' = 0
        /\ pc' = "settle"
        /\ UNCHANGED <<bridge, connected>>
     \/ /\ ~ctxDone
        /\ bridge' = cur
        /\ connected' = TRUE
        /\ pc' = "setReady"
        /\ UNCHANGED <<mux, cur>>
  /\ UNCHANGED <<attempt, lastErr, runErr, state, reason, reconnects,
                 stopReason, env, ctxVars, reader, sentEnv, running,
                 serverVars, refreshVars, clientVars>>

\* setState(ready); the first time the refresher starts too (without a
\* refresh interval it returns at once).
SetReady ==
  /\ pc = "setReady"
  /\ SetState("ready", "none")
  /\ refresher' \in IF refresher = "off" THEN {"waiting", "stopped"}
                                         ELSE {refresher}
  /\ pc' = "serve"
  /\ UNCHANGED <<cur, attempt, lastErr, runErr, connected, reconnects, muVars,
                 ctxVars, sessionVars, running, serverVars, newEnv, target,
                 clientVars>>

-----------------------------------------------------------------------------
(* serve: the bridge loop, and reconnect *)

\* select on ctx.Done: serve returns nil.
ServeStops ==
  /\ pc = "serve" /\ ctxDone
  /\ pc' = "settle"
  /\ UNCHANGED <<cur, attempt, lastErr, runErr, fileVars, muVars, ctxVars,
                 sessionVars, running, serverVars, refreshVars, clientVars>>

\* select on session.done: setBridge(nil), and close the old session.
BridgeLost ==
  /\ pc = "serve" /\ reader[cur] = "done"
  /\ bridge' = 0
  /\ connected' = FALSE
  /\ CloseSession(bridge)
  /\ cur' = 0
  /\ pc' = "lost"
  /\ UNCHANGED <<attempt, lastErr, runErr, state, reason, reconnects,
                 stopReason, env, ctxVars, reader, sentEnv, running,
                 serverVars, refreshVars, clientVars>>

\* Reconnects++ and setState(reconnecting, bridge_lost).
AnnounceLoss ==
  /\ pc = "lost"
  /\ reconnects' = reconnects + 1
  /\ SetState("reconnecting", "bridge_lost")
  /\ pc' = "grace"
  /\ UNCHANGED <<cur, attempt, lastErr, runErr, connected, muVars, ctxVars,
                 sessionVars, running, serverVars, refreshVars, clientVars>>

\* stopRequested: a stop that arrives within the grace is a clean shutdown.
StopGrace ==
  /\ pc = "grace"
  /\ \/ ctxDone /\ pc' = "settle" /\ UNCHANGED attempt
     \/ pc' = "retry" /\ attempt' = 0
  /\ UNCHANGED <<cur, lastErr, runErr, fileVars, muVars, ctxVars, sessionVars,
                 running, serverVars, refreshVars, clientVars>>

\* reconnect: only a running container is connected to.
CheckContainer ==
  /\ pc = "retry"
  /\ \/ running /\ pc' = "start" /\ UNCHANGED lastErr
     \/ ~running /\ pc' = "deadline" /\ lastErr' = "stopped"
  /\ UNCHANGED <<cur, attempt, runErr, fileVars, muVars, ctxVars, sessionVars,
                 running, serverVars, refreshVars, clientVars>>

\* Fault: serve returns nil for a stopped container without requestStop.
WindowPassed_NoReason ==
  /\ pc = "deadline"
  /\ pc' = "settle"
  /\ runErr' = IF ctxDone \/ lastErr = "stopped" THEN "nil" ELSE "error"
  /\ UNCHANGED <<cur, attempt, lastErr, fileVars, muVars, ctxVars, sessionVars,
                 running, serverVars, refreshVars, clientVars>>

\* reconnect: the window has passed (it has at MaxAttempts; a slow docker can
\* use it up earlier), and serve handles what reconnect returns.
WindowPassed ==
  /\ pc = "deadline"
  /\ pc' = "settle"
  /\ \/ /\ ~ctxDone /\ lastErr = "stopped"
        /\ FirstReason("container_stopped")
        /\ ctxDone' = TRUE
        /\ UNCHANGED runErr
     \/ /\ ctxDone \/ lastErr # "stopped"
        /\ runErr' = IF ctxDone THEN "nil" ELSE "error"
        /\ UNCHANGED <<stopReason, ctxDone>>
  /\ UNCHANGED <<cur, attempt, lastErr, fileVars, bridge, env, parentDone,
                 sessionVars, running, serverVars, refreshVars, clientVars>>

\* Fault: reconnect never looks at its deadline.
StartBackoff_NoDeadline ==
  /\ pc = "deadline"
  /\ pc' = "backoff"
  /\ UNCHANGED <<cur, attempt, lastErr, runErr, fileVars, muVars, ctxVars,
                 sessionVars, running, serverVars, refreshVars, clientVars>>

\* reconnect: the window has not passed.
StartBackoff ==
  /\ pc = "deadline"
  /\ attempt < MaxAttempts
  /\ pc' = "backoff"
  /\ UNCHANGED <<cur, attempt, lastErr, runErr, fileVars, muVars, ctxVars,
                 sessionVars, running, serverVars, refreshVars, clientVars>>

\* Fault: the window starts again on every iteration.
Backoff_RestartsWindow ==
  /\ pc = "backoff"
  /\ pc' = IF ctxDone THEN "settle" ELSE "retry"
  /\ UNCHANGED <<cur, attempt, lastErr, runErr, fileVars, muVars, ctxVars,
                 sessionVars, running, serverVars, refreshVars, clientVars>>

\* reconnect: wait for the delay unless the context ends.
Backoff ==
  /\ pc = "backoff"
  /\ \/ ctxDone /\ pc' = "settle" /\ UNCHANGED attempt
     \/ pc' = "retry" /\ attempt' = attempt + 1
  /\ UNCHANGED <<cur, lastErr, runErr, fileVars, muVars, ctxVars, sessionVars,
                 running, serverVars, refreshVars, clientVars>>

-----------------------------------------------------------------------------
(* run after serve, and shutdown *)

\* run: a clean end without a reason while the parent is done is a signal.
SettleReason ==
  /\ pc = "settle"
  /\ IF runErr = "nil" /\ stopReason = "none" /\ parentDone
     THEN FirstReason("signal") /\ ctxDone' = TRUE
     ELSE UNCHANGED <<stopReason, ctxDone>>
  /\ pc' = "announce"
  /\ UNCHANGED <<cur, attempt, lastErr, runErr, fileVars, bridge, env,
                 parentDone, sessionVars, running, serverVars, refreshVars,
                 clientVars>>

AnnounceStop ==
  /\ pc = "announce"
  /\ SetState("stopping", stopReason)
  /\ pc' = "closeExecs"
  /\ UNCHANGED <<cur, attempt, lastErr, runErr, connected, reconnects, muVars,
                 ctxVars, sessionVars, running, serverVars, refreshVars,
                 clientVars>>

\* server.CloseExecs: closes the tracked exec streams; later ones are refused.
CloseExecs ==
  /\ pc = "closeExecs"
  /\ execsClosed' = TRUE
  /\ opener' = [o \in Openers |->
                  IF opener[o] = "serving" THEN "idle" ELSE opener[o]]
  /\ picked' = [o \in Openers |->
                  IF opener[o] = "serving" THEN 0 ELSE picked[o]]
  /\ pc' = "closeTunnels"
  /\ UNCHANGED <<cur, attempt, lastErr, runErr, fileVars, muVars, ctxVars,
                 sessionVars, running, server, tunnels, refreshVars, stopper>>

CloseTunnels ==
  /\ pc = "closeTunnels"
  /\ tunnels' = IF tunnels = "open" THEN "closed" ELSE tunnels
  /\ pc' = "drop"
  /\ UNCHANGED <<cur, attempt, lastErr, runErr, fileVars, muVars, ctxVars,
                 sessionVars, running, server, execsClosed, refreshVars,
                 clientVars>>

\* setBridge(nil), and close the session it returns.
DropBridge ==
  /\ pc = "drop"
  /\ CloseSession(bridge)
  /\ bridge' = 0
  /\ connected' = FALSE
  /\ cur' = 0
  /\ pc' = "cancel"
  /\ UNCHANGED <<attempt, lastErr, runErr, state, reason, reconnects,
                 stopReason, env, ctxVars, reader, sentEnv, running,
                 serverVars, refreshVars, clientVars>>

\* Fault: shutdown waits for the background goroutines without a timeout.
CancelAndWait_NoTimeout ==
  /\ pc = "cancel"
  /\ ctxDone' = TRUE
  /\ refresher \in {"off", "stopped"}
  /\ pc' = "final"
  /\ UNCHANGED <<cur, attempt, lastErr, runErr, fileVars, muVars, parentDone,
                 sessionVars, running, serverVars, refreshVars, clientVars>>

\* cancel, and waitTimeout: the goroutines end or two seconds pass.
CancelAndWait ==
  /\ pc = "cancel"
  /\ ctxDone' = TRUE
  /\ pc' = "final"
  /\ UNCHANGED <<cur, attempt, lastErr, runErr, fileVars, muVars, parentDone,
                 sessionVars, running, serverVars, refreshVars, clientVars>>

FinalState ==
  /\ pc = "final"
  /\ \/ runErr = "error" /\ SetState("failed", "error")
     \/ runErr = "nil" /\ SetState("stopped", stopReason)
  /\ pc' = "closeServer"
  /\ UNCHANGED <<cur, attempt, lastErr, runErr, connected, reconnects, muVars,
                 ctxVars, sessionVars, running, serverVars, refreshVars,
                 clientVars>>

\* bus.Close and server.Close.
CloseServer ==
  /\ pc = "closeServer"
  /\ server' = "closed"
  /\ pc' = "release"
  /\ UNCHANGED <<cur, attempt, lastErr, runErr, fileVars, muVars, ctxVars,
                 sessionVars, running, execsClosed, tunnels, refreshVars,
                 clientVars>>

\* The deferred cancel and lock.Release.
Release ==
  /\ pc = "release"
  /\ ctxDone' = TRUE
  /\ pc' = "exited"
  /\ UNCHANGED <<cur, attempt, lastErr, runErr, fileVars, muVars, parentDone,
                 sessionVars, running, serverVars, refreshVars, clientVars>>

-----------------------------------------------------------------------------
(* The control readers *)

\* readControl: RecvControl fails; session.done is closed.
ReaderEnds(s) ==
  /\ reader[s] = "running" /\ mux[s] # "open"
  /\ reader' = [reader EXCEPT ![s] = "done"]
  /\ UNCHANGED <<mainVars, fileVars, muVars, ctxVars, mux, sentEnv, running,
                 serverVars, refreshVars, clientVars>>

-----------------------------------------------------------------------------
(* The environment refresher *)

\* Fault: a failed run falls back to the values of the first one.
RefreshRun_FallsBack ==
  /\ refresher = "waiting" /\ ~ctxDone
  /\ newEnv' \in {1, env + 1} \cap 0..MaxEnv
  /\ refresher' = "store"
  /\ UNCHANGED <<mainVars, fileVars, muVars, ctxVars, sessionVars, running,
                 serverVars, target, clientVars>>

\* RefreshEnvironment: the ticker fires and the host command succeeds.  A
\* failed run keeps the environment and waits for the next tick.
RefreshRun ==
  /\ refresher = "waiting" /\ ~ctxDone
  /\ env < MaxEnv
  /\ newEnv' = env + 1
  /\ refresher' = "store"
  /\ UNCHANGED <<mainVars, fileVars, muVars, ctxVars, sessionVars, running,
                 serverVars, target, clientVars>>

\* Fault: sendEnvironment sends without storing.
RefreshStore_Skips ==
  /\ refresher = "store"
  /\ refresher' = "pick"
  /\ UNCHANGED <<mainVars, fileVars, muVars, ctxVars, sessionVars, running,
                 serverVars, newEnv, target, clientVars>>

\* sendEnvironment: setEnv.
RefreshStore ==
  /\ refresher = "store"
  /\ env' = newEnv
  /\ refresher' = "pick"
  /\ UNCHANGED <<mainVars, fileVars, stopReason, bridge, ctxVars, sessionVars,
                 running, serverVars, newEnv, target, clientVars>>

\* sendEnvironment: currentBridge; without one the next init is relied on.
RefreshPick ==
  /\ refresher = "pick"
  /\ target' = bridge
  /\ refresher' = IF bridge = 0 THEN "waiting" ELSE "send"
  /\ UNCHANGED <<mainVars, fileVars, muVars, ctxVars, sessionVars, running,
                 serverVars, newEnv, clientVars>>

\* sendEnvironment: SendControl(environment), which fails on a failed mux.
RefreshSend ==
  /\ refresher = "send"
  /\ sentEnv' = IF mux[target] = "open"
                THEN [sentEnv EXCEPT ![target] = newEnv] ELSE sentEnv
  /\ refresher' = "waiting"
  /\ UNCHANGED <<mainVars, fileVars, muVars, ctxVars, mux, reader, running,
                 serverVars, newEnv, target, clientVars>>

RefreshStops ==
  /\ refresher = "waiting" /\ ctxDone
  /\ refresher' = "stopped"
  /\ UNCHANGED <<mainVars, fileVars, muVars, ctxVars, sessionVars, running,
                 serverVars, newEnv, target, clientVars>>

-----------------------------------------------------------------------------
(* Stop requests and the parent context *)

\* op stop reached the instance.
StopArrives(p) ==
  /\ server = "up" /\ stopper[p] = "idle"
  /\ stopper' = [stopper EXCEPT ![p] = "asked"]
  /\ UNCHANGED <<mainVars, fileVars, muVars, ctxVars, sessionVars, running,
                 serverVars, refreshVars, opener, picked>>

\* requestStop: the reason, under mu ...
StopSetsReason(p) ==
  /\ stopper[p] = "asked"
  /\ FirstReason("stop_requested")
  /\ stopper' = [stopper EXCEPT ![p] = "cancels"]
  /\ UNCHANGED <<mainVars, fileVars, bridge, env, ctxVars, sessionVars,
                 running, serverVars, refreshVars, opener, picked>>

\* ... then cancel.
StopCancels(p) ==
  /\ stopper[p] = "cancels"
  /\ ctxDone' = TRUE
  /\ stopper' = [stopper EXCEPT ![p] = "done"]
  /\ UNCHANGED <<mainVars, fileVars, muVars, parentDone, sessionVars, running,
                 serverVars, refreshVars, opener, picked>>

\* SIGTERM ends the parent context, and the instance context with it.
Signal ==
  /\ ~parentDone
  /\ parentDone' = TRUE
  /\ ctxDone' = TRUE
  /\ UNCHANGED <<mainVars, fileVars, muVars, sessionVars, running, serverVars,
                 refreshVars, clientVars>>

-----------------------------------------------------------------------------
(* Requests that need the bridge: openStream *)

\* readyBridge, first half: the state snapshot.
OpenSnapshot(o) ==
  /\ server = "up" /\ opener[o] = "idle" /\ state = "ready"
  /\ opener' = [opener EXCEPT ![o] = "snapshot"]
  /\ UNCHANGED <<mainVars, fileVars, muVars, ctxVars, sessionVars, running,
                 serverVars, refreshVars, stopper, picked>>

\* readyBridge, second half: liveBridge; nil answers "not ready".
OpenPick(o) ==
  /\ opener[o] = "snapshot"
  /\ picked' = [picked EXCEPT ![o] = LiveBridge]
  /\ opener' = [opener EXCEPT ![o] = IF LiveBridge = 0 THEN "idle"
                                                       ELSE "picked"]
  /\ UNCHANGED <<mainVars, fileVars, muVars, ctxVars, sessionVars, running,
                 serverVars, refreshVars, stopper>>

\* mux.OpenStream; a mux that failed since then answers "not ready".
OpenStream(o) ==
  /\ opener[o] = "picked"
  /\ \/ /\ mux[picked[o]] = "open"
        /\ opener' = [opener EXCEPT ![o] = "opened"]
        /\ UNCHANGED picked
     \/ /\ mux[picked[o]] # "open"
        /\ opener' = [opener EXCEPT ![o] = "idle"]
        /\ picked' = [picked EXCEPT ![o] = 0]
  /\ UNCHANGED <<mainVars, fileVars, muVars, ctxVars, sessionVars, running,
                 serverVars, refreshVars, stopper>>

\* Fault: track does not look at execsClosed.
TrackStream_Unchecked(o) ==
  /\ opener[o] = "opened"
  /\ opener' = [opener EXCEPT ![o] = "serving"]
  /\ UNCHANGED <<mainVars, fileVars, muVars, ctxVars, sessionVars, running,
                 serverVars, refreshVars, stopper, picked>>

\* handleExec: track refuses the stream once execs are closed.
TrackStream(o) ==
  /\ opener[o] = "opened"
  /\ \/ /\ ~execsClosed
        /\ opener' = [opener EXCEPT ![o] = "serving"]
        /\ UNCHANGED picked
     \/ /\ execsClosed
        /\ opener' = [opener EXCEPT ![o] = "idle"]
        /\ picked' = [picked EXCEPT ![o] = 0]
  /\ UNCHANGED <<mainVars, fileVars, muVars, ctxVars, sessionVars, running,
                 serverVars, refreshVars, stopper>>

\* The process exits, the caller leaves, or the stream ends with its mux.
StreamEnds(o) ==
  /\ opener[o] = "serving"
  /\ opener' = [opener EXCEPT ![o] = "idle"]
  /\ picked' = [picked EXCEPT ![o] = 0]
  /\ UNCHANGED <<mainVars, fileVars, muVars, ctxVars, sessionVars, running,
                 serverVars, refreshVars, stopper>>

-----------------------------------------------------------------------------
(* The container and the bridge fail on their own *)

MuxFails(s) ==
  /\ mux[s] = "open"
  /\ mux' = [mux EXCEPT ![s] = "failed"]
  /\ UNCHANGED <<mainVars, fileVars, muVars, ctxVars, reader, sentEnv, running,
                 serverVars, refreshVars, clientVars>>

\* A container that goes down takes every endpoint in it along.
ContainerStops ==
  /\ running
  /\ running' = FALSE
  /\ mux' = [s \in Sessions |-> IF mux[s] = "open" THEN "failed" ELSE mux[s]]
  /\ UNCHANGED <<mainVars, fileVars, muVars, ctxVars, reader, sentEnv,
                 serverVars, refreshVars, clientVars>>

ContainerRestarts ==
  /\ tunnels # "none" /\ ~running
  /\ running' = TRUE
  /\ UNCHANGED <<mainVars, fileVars, muVars, ctxVars, sessionVars, serverVars,
                 refreshVars, clientVars>>

-----------------------------------------------------------------------------
Main ==
  \/ Listen \/ PrepareEnvironment \/ DevcontainerUp
  \/ StartEndpoint \/ SendInit \/ AwaitReady \/ InstallBridge \/ SetReady
  \/ ServeStops \/ BridgeLost \/ AnnounceLoss \/ StopGrace \/ CheckContainer
  \/ WindowPassed \/ StartBackoff \/ Backoff
  \/ SettleReason \/ AnnounceStop \/ CloseExecs \/ CloseTunnels \/ DropBridge
  \/ CancelAndWait \/ FinalState \/ CloseServer \/ Release

Refresher ==
  RefreshRun \/ RefreshStore \/ RefreshPick \/ RefreshSend \/ RefreshStops

Stopper(p) == StopArrives(p) \/ StopSetsReason(p) \/ StopCancels(p)

Opener(o) ==
  OpenSnapshot(o) \/ OpenPick(o) \/ OpenStream(o) \/ TrackStream(o)
    \/ StreamEnds(o)

World ==
  \/ Signal \/ ContainerStops \/ ContainerRestarts
  \/ \E s \in Sessions : MuxFails(s)

\* RunInstance has returned; its process exits.
Exited == pc = "exited" /\ UNCHANGED vars

Next ==
  \/ Main
  \/ \E s \in Sessions : ReaderEnds(s)
  \/ Refresher
  \/ \E p \in Stoppers : Stopper(p)
  \/ \E o \in Openers : Opener(o)
  \/ World
  \/ Exited

Spec == Init /\ [][Next]_vars

\* Goroutines that can run do run; docker commands return; timers fire.
Fairness ==
  /\ WF_vars(Main)
  /\ \A s \in Sessions : WF_vars(ReaderEnds(s))
  /\ \A p \in Stoppers : WF_vars(StopSetsReason(p) \/ StopCancels(p))

FairSpec == Spec /\ Fairness

-----------------------------------------------------------------------------
(* The abstract lifecycle *)

Lifecycle == INSTANCE InstanceLifecycle
               WITH cause <- stopReason, serving <- ReadyBridge # 0

\* Clients see the lifecycle of InstanceLifecycle: a loss is announced after
\* commands are refused, a failed bridge never serves again, and a stop is
\* announced once, with its cause, before the end.
ImplementsLifecycle == Lifecycle!Spec

\* And under the fairness of the goroutines it does not get stuck on the way.
ImplementsLiveLifecycle == Lifecycle!FairSpec

-----------------------------------------------------------------------------
(* Properties *)

\* Every bridge session that was started and not closed is the current bridge
\* or the one serve is connecting, and none is left once shutdown has dropped
\* the bridge: no path through connect, reconnect or stop leaks the docker exec
\* process of an endpoint.
NoSessionLeak ==
  /\ \A s \in Sessions : mux[s] \in {"open", "failed"} => s \in {bridge, cur}
  /\ pc \in {"cancel", "final", "closeServer", "release", "exited"} =>
       \A s \in Sessions : mux[s] \in {"unused", "closed"}

\* A clean stop always names why: whatever order op stop, a signal and the
\* container's end arrive in, the state file of a stopped instance carries the
\* first stop reason, and the one it announced while stopping.
StoppedNamesCause ==
  /\ state = "stopped" => stopReason # "none" /\ reason = stopReason
  /\ state = "stopping" /\ runErr = "nil" => stopReason # "none" /\ reason = stopReason

\* A stream is only ever served on a session whose endpoint acknowledged its
\* init, however the state snapshot, the bridge and the mux changed between
\* openStream's three reads.
StreamsOnReadyEndpoints ==
  \A o \in Openers :
    opener[o] \in {"picked", "opened", "serving"} =>
      picked[o] \in Sessions /\ reader[picked[o]] # "none"

\* Once CloseExecs has run no exec stream is served again, those that were
\* opened but not yet tracked at that moment included.
NoExecAfterClose ==
  execsClosed => \A o \in Openers : opener[o] # "serving"

\* A refresh that found the current bridge has brought the endpoint the newest
\* environment, or the bridge is lost.
RefreshReachesBridge ==
  refresher = "waiting" /\ target # 0 /\ mux[target] = "open"
    => sentEnv[target] = env

\* An endpoint never gets an older environment than one it already had.
EnvironmentNeverGoesBack ==
  [][\A s \in Sessions : sentEnv'[s] >= sentEnv[s]]_vars

\* A lost bridge is noticed and made good: however often it fails, the instance
\* has a bridge that serves again, or it stops within the reconnect window.
BridgeIsRestored ==
  (state \in {"ready", "reconnecting"} /\ ReadyBridge = 0) ~>
    (ReadyBridge # 0 \/ state \in {"stopping", "stopped", "failed"})
=============================================================================
