------------------------------ MODULE Terminal ------------------------------
(***************************************************************************)
(* The commands at a user's terminal: the shell with its status bar        *)
(* (internal/host/tui/model.go), which starts a new shell when the bridge   *)
(* comes back, and dworm exec with and without a PTY (execclient.go).      *)
(*                                                                         *)
(* Three goroutines share the session of the client: the one that runs the *)
(* command and reads its output (pc), the one that handles signals and the *)
(* instance's states (ev), and the one that reads the keyboard (input).    *)
(*                                                                         *)
(* The instance is what its socket shows: its state, the event stream, and *)
(* for each exec a reply, room for frames to the process, and an end.      *)
(***************************************************************************)
EXTENDS Naturals, FiniteSets, Sequences

CONSTANTS
  Modes,       \* which of "shell" (the TUI), "tty" and "exec"
  Signals,     \* which of "HUP", "TERM" and "INT"
  Room,        \* frames between a client and its process
  MaxSignals,  \* bound: signals that arrive
  MaxInput,    \* bound: reads from the keyboard
  MaxEvents,   \* bound: states on the event stream that are not handled
  MaxChanges   \* bound: losses and recoveries of the bridge

ASSUME TerminalAssumption ==
  /\ Modes \subseteq {"shell", "tty", "exec"}
  /\ Signals \subseteq {"HUP", "TERM", "INT"}
  /\ {Room, MaxSignals, MaxInput, MaxEvents, MaxChanges} \subseteq Nat

Sessions == 1..3    \* one of the command, one of each other goroutine

VARIABLES
  mode,
  inst,     \* the instance's state
  events,   \* states on the event stream, "end" when it has ended
  changes,
  exec,     \* each session's exec as the instance sees it
  fill,     \* frames on the way to each session's process
  open,     \* sessions whose connection the client has not closed
  pc,       \* the goroutine of run, ExecTTY or ExecViaSocket
  cur,      \* its session
  first,    \* no shell has been started yet
  session,  \* Model.session, 0 for nil
  state,    \* Model.state
  readyCh,  \* Model.readyCh holds its signal
  quitCode, \* Model.quitCode, "none" before quitCh is closed
  timer,    \* the timer of waitAndRestart has fired
  result,   \* what the command reports
  signals, arrived, \* signals that are pending; how many have arrived
  ev, input, typed  \* the session each goroutine writes to, 0 for none

world  == <<inst, events, changes>>
conns  == <<exec, fill, open>>
main   == <<mode, pc, cur, first, result, timer>>
model  == <<session, state, readyCh, quitCode>>
sigs   == <<signals, arrived>>
keys   == <<input, typed>>
vars   == <<world, conns, main, model, sigs, ev, keys>>

Ends == {"exited", "lost"}

TypeOK ==
  /\ mode \in Modes
  /\ inst \in {"ready", "reconnecting", "stopping", "stopped"}
  /\ events \in Seq({"ready", "reconnecting", "stopping", "stopped"})
  /\ Len(events) <= MaxEvents + 2 /\ changes \in 0..MaxChanges
  /\ exec \in [Sessions -> {"none", "asked", "not_ready", "refused", "running"}
                           \cup Ends]
  /\ fill \in [Sessions -> 0..Room] /\ open \subseteq Sessions
  /\ pc \in {"start", "reply", "install", "resize", "read", "close", "wait",
             "select", "left"}
  /\ cur \in Sessions \cup {0} /\ first \in BOOLEAN
  /\ session \in Sessions \cup {0}
  /\ state \in {"ready", "reconnecting", "stopping", "stopped"}
  /\ readyCh \in BOOLEAN /\ timer \in BOOLEAN
  /\ quitCode \in {"none", "lost", "HUP", "TERM"}
  /\ result \in {"none", "exit", "lost", "error", "HUP", "TERM"}
  /\ signals \in Seq(Signals) /\ arrived \in 0..MaxSignals
  /\ ev \in Sessions \cup {0}
  /\ input \in Sessions \cup {0} /\ typed \in 0..MaxInput

\* A shell has subscribed, and the bus has sent it the instance's state.
Init ==
  /\ mode \in Modes
  /\ inst = "ready" /\ changes = 0
  /\ events = IF mode = "shell" THEN <<inst>> ELSE <<>>
  /\ exec = [s \in Sessions |-> "none"] /\ fill = [s \in Sessions |-> 0]
  /\ open = {}
  /\ pc = "start" /\ cur = 0 /\ first = TRUE
  /\ session = 0 /\ state = "ready" /\ readyCh = FALSE /\ quitCode = "none"
  /\ timer = FALSE /\ result = "none"
  /\ signals = <<>> /\ arrived = 0 /\ ev = 0 /\ input = 0 /\ typed = 0

-----------------------------------------------------------------------------
(* The instance and the process *)

Announce(s) ==
  /\ inst' = s
  /\ events' = IF mode = "shell" THEN Append(events, s) ELSE events

\* The bridge fails: a running exec is lost, one that has not started yet is
\* rejected, with no code if its request was on the bridge.
Lost ==
  \E reply \in {"not_ready", "refused"} :
    exec' = [s \in Sessions |-> CASE exec[s] = "running" -> "lost"
                                  [] exec[s] = "asked" -> reply
                                  [] OTHER -> exec[s]]

LoseBridge ==
  /\ inst = "ready" /\ Len(events) < MaxEvents /\ changes < MaxChanges
  /\ changes' = changes + 1
  /\ Announce("reconnecting") /\ Lost
  /\ UNCHANGED <<fill, open, main, model, sigs, ev, keys>>

Recover ==
  /\ inst = "reconnecting" /\ Len(events) < MaxEvents /\ changes < MaxChanges
  /\ changes' = changes + 1
  /\ Announce("ready")
  /\ UNCHANGED <<conns, main, model, sigs, ev, keys>>

StopInstance ==
  /\ inst \in {"ready", "reconnecting"} /\ Len(events) < MaxEvents
  /\ Announce("stopping")
  /\ UNCHANGED <<changes, conns, main, model, sigs, ev, keys>>

\* CloseExecs, and socket and event stream go; or the instance is killed.
InstanceEnds ==
  /\ inst # "stopped"
  /\ Announce("stopped") /\ Lost
  /\ UNCHANGED <<changes, fill, open, main, model, sigs, ev, keys>>

\* An answer that nobody waits for any more is left out.
Answer(s) ==
  /\ exec[s] = "asked" /\ s \in open
  /\ \E reply \in IF inst = "ready" THEN {"running", "refused"}
                 ELSE {"not_ready"} :
       exec' = [exec EXCEPT ![s] = reply]
  /\ UNCHANGED <<world, fill, open, main, model, sigs, ev, keys>>

ProcessReads(s) ==
  /\ exec[s] = "running" /\ fill[s] > 0
  /\ fill' = [fill EXCEPT ![s] = @ - 1]
  /\ UNCHANGED <<world, exec, open, main, model, sigs, ev, keys>>

ProcessExits(s) ==
  /\ exec[s] = "running"
  /\ exec' = [exec EXCEPT ![s] = "exited"]
  /\ UNCHANGED <<world, fill, open, main, model, sigs, ev, keys>>

\* writeFrame: returns when there is room, or with an error when the connection
\* is closed or nothing reads it any more.
Fails(s) == s \notin open \/ exec[s] # "running"

\* Fault: a write does not wait for room.
WriteEnds_Always(s) == TRUE

\* Fault: a lost connection stays open and its writers wait on.
WriteEnds_OnlyRoom(s) == fill[s] < Room

WriteEnds(s) == Fails(s) \/ fill[s] < Room
Write(s) == fill' = IF Fails(s) THEN fill ELSE [fill EXCEPT ![s] = @ + 1]

-----------------------------------------------------------------------------
(* run, ExecTTY and ExecViaSocket: StartExec *)

Leave(outcome) == pc' = "left" /\ result' = outcome

\* Dial and the request.
Ask ==
  /\ pc = "start" /\ inst # "stopped"
  /\ \E s \in Sessions \ (open \cup {ev, input}) :
       /\ \A t \in Sessions \ (open \cup {ev, input}) : s <= t
       /\ cur' = s /\ open' = open \cup {s}
       /\ exec' = [exec EXCEPT ![s] = "asked"]
       /\ fill' = [fill EXCEPT ![s] = 0]
  /\ pc' = "reply"
  /\ UNCHANGED <<world, mode, first, result, timer, model, sigs, ev, keys>>

\* The start fails: only a shell that was lost tries again, and only if the
\* instance says that it is not ready.
StartFails(error) ==
  CASE first -> Leave("error")
    [] ~first /\ error = "not_ready" -> pc' = "select" /\ UNCHANGED result
    [] OTHER -> Leave("lost")

NoSocket ==
  /\ pc = "start" /\ inst = "stopped"
  /\ StartFails("unavailable")
  /\ UNCHANGED <<world, conns, mode, cur, first, timer, model, sigs, ev, keys>>

\* The reply is an error, or does not come within ten seconds.
Rejected ==
  /\ pc = "reply"
  /\ \/ exec[cur] \in {"not_ready", "refused"} /\ StartFails(exec[cur])
     \/ exec[cur] = "asked" /\ StartFails("unavailable")
  /\ open' = open \ {cur}
  /\ UNCHANGED <<world, exec, fill, mode, cur, first, timer, model, sigs, ev,
                 keys>>

Accepted ==
  /\ pc = "reply" /\ exec[cur] \in {"running"} \cup Ends
  /\ pc' = "install"
  /\ UNCHANGED <<world, conns, mode, cur, first, result, timer, model, sigs, ev,
                 keys>>

\* setSession.
Install ==
  /\ pc = "install"
  /\ session' = cur /\ first' = FALSE
  /\ pc' = IF mode = "shell" THEN "resize" ELSE "read"
  /\ UNCHANGED <<world, conns, mode, cur, result, timer, state, readyCh,
                 quitCode,
                 sigs, ev, keys>>

\* resizeSession: waits for writers that hold the session's lock.
Resize ==
  /\ pc = "resize" /\ cur \notin {ev, input} /\ WriteEnds(cur)
  /\ Write(cur)
  /\ pc' = "read"
  /\ UNCHANGED <<world, exec, open, mode, cur, first, result, timer, model,
                 sigs, ev, keys>>

-----------------------------------------------------------------------------
(* run: copyOutput and waitAndRestart *)

\* A shell waits for a new one, a command ends with ExitLost.
AfterLoss ==
  /\ IF mode = "shell" THEN pc' = "wait" /\ UNCHANGED result ELSE Leave("lost")
  /\ timer' = FALSE

CloseConn == open' = open \ {cur} /\ session' = 0

\* The handlers of signals that close the session.
Closes(sig) == (mode = "shell" /\ sig # "INT") \/ (mode = "tty" /\ sig = "HUP")

\* An observed exit frame is authoritative, also when the shell is to quit.
ReadExit ==
  /\ pc = "read" /\ exec[cur] = "exited"
  /\ CloseConn /\ Leave("exit")
  /\ UNCHANGED <<world, exec, fill, mode, cur, first, timer, state, readyCh,
                 quitCode, sigs, ev, keys>>

\* Fault: the old connection is not closed before the shell is started again.
ReadLost_KeepsConn ==
  /\ pc = "read" /\ (exec[cur] = "lost" \/ cur \notin open)
  /\ session' = 0 /\ UNCHANGED open
  /\ AfterLoss
  /\ UNCHANGED <<world, exec, fill, mode, cur, first, state, readyCh, quitCode,
                 sigs, ev, keys>>

\* Fault: the end of the connection is seen before an exit frame in its buffer.
ReadLost_BeforeExit ==
  /\ pc = "read" /\ (exec[cur] \in Ends \/ cur \notin open)
  /\ CloseConn
  /\ AfterLoss
  /\ UNCHANGED <<world, exec, fill, mode, cur, first, state, readyCh, quitCode,
                 sigs, ev, keys>>

\* A frame that says the bridge is lost, or a connection that ends without one.
ReadLost ==
  /\ pc = "read" /\ (exec[cur] = "lost" \/ cur \notin open)
  /\ CloseConn
  /\ AfterLoss
  /\ UNCHANGED <<world, exec, fill, mode, cur, first, state, readyCh, quitCode,
                 sigs, ev, keys>>

\* Fault: a ready instance is looked at before the request to quit.
Wait_ReadyFirst ==
  /\ pc = "wait"
  /\ CASE state = "ready" -> pc' = "start" /\ UNCHANGED result
       [] state # "ready" /\ quitCode # "none" -> Leave(quitCode)
       [] OTHER -> pc' = "select" /\ UNCHANGED result
  /\ UNCHANGED <<world, conns, mode, cur, first, timer, model, sigs, ev, keys>>

\* Fault: every turn of the loop starts a new timer.
Wait_NewTimer ==
  /\ pc = "wait" /\ timer' = FALSE
  /\ IF quitCode # "none" THEN Leave(quitCode)
     ELSE /\ pc' = IF state = "ready" THEN "start" ELSE "select"
          /\ UNCHANGED result
  /\ UNCHANGED <<world, conns, mode, cur, first, model, sigs, ev, keys>>

\* The head of the loop in waitAndRestart.
Wait ==
  /\ pc = "wait"
  /\ IF quitCode # "none" THEN Leave(quitCode)
     ELSE /\ pc' = IF state = "ready" THEN "start" ELSE "select"
          /\ UNCHANGED result
  /\ UNCHANGED <<world, conns, mode, cur, first, timer, model, sigs, ev, keys>>

\* Its select; the poll of half a second runs out if nothing else is ready.
Select ==
  /\ pc = "select"
  /\ \/ readyCh /\ readyCh' = FALSE /\ pc' = "wait" /\ UNCHANGED result
     \/ quitCode # "none" /\ Leave(quitCode) /\ UNCHANGED readyCh
     \/ timer /\ Leave("lost") /\ UNCHANGED readyCh
     \/ /\ ~readyCh /\ quitCode = "none" /\ ~timer
        /\ pc' = "wait" /\ UNCHANGED <<readyCh, result>>
  /\ UNCHANGED <<world, conns, mode, cur, first, timer, session, state,
                 quitCode,
                 sigs, ev, keys>>

\* Two minutes after the loss.
TimerFires ==
  /\ mode = "shell" /\ ~first /\ pc \in {"start", "reply", "wait", "select"}
  /\ ~timer /\ timer' = TRUE
  /\ UNCHANGED <<world, conns, mode, pc, cur, first, result, model, sigs, ev,
                 keys>>

-----------------------------------------------------------------------------
(* Signals, states and keys *)

Handling == ev = 0 /\ ~first /\ pc # "left"

\* ExecTTY takes signals before it starts its command, the others after.
SignalArrives(sig) ==
  /\ arrived < MaxSignals /\ pc # "left" /\ (~first \/ mode = "tty")
  /\ arrived' = arrived + 1 /\ signals' = Append(signals, sig)
  /\ UNCHANGED <<world, conns, main, model, ev, keys>>

\* quit: the first reason counts.
Quit(code) == quitCode' = IF quitCode = "none" THEN code ELSE quitCode

\* SIGHUP and SIGTERM end a shell, SIGHUP ends an exec on a PTY: closing the
\* session hangs up the process.
HangUp ==
  /\ Handling /\ signals # <<>> /\ Closes(Head(signals))
  /\ signals' = Tail(signals)
  /\ IF mode = "shell" THEN Quit(Head(signals)) ELSE UNCHANGED quitCode
  /\ open' = open \ {session}
  /\ UNCHANGED <<world, exec, fill, main, session, state, readyCh, arrived, ev,
                 keys>>

\* Other signals are sent to the process, in a shell as keys.
ForwardSignal ==
  /\ Handling /\ signals # <<>> /\ ~Closes(Head(signals))
  /\ signals' = Tail(signals) /\ ev' = session
  /\ UNCHANGED <<world, conns, main, model, arrived, keys>>

\* The frame waits for a writer that holds the session's lock.
SignalWritten ==
  /\ ev # 0 /\ input # ev /\ WriteEnds(ev)
  /\ Write(ev) /\ ev' = 0
  /\ UNCHANGED <<world, exec, open, main, model, sigs, keys>>

\* readEvents and handleEvents for a state, or for the end of the stream.
HandleState ==
  /\ Handling /\ mode = "shell" /\ events # <<>>
  /\ events' = Tail(events) /\ state' = Head(events)
  /\ readyCh' = (readyCh \/ Head(events) = "ready")
  /\ IF Head(events) \in {"stopping", "stopped"}
     THEN Quit("lost") /\ open' = open \ {session}
     ELSE UNCHANGED <<quitCode, open>>
  /\ UNCHANGED <<inst, changes, exec, fill, main, session, sigs, ev, keys>>

\* A read from the keyboard or the standard input, for the current session.
ReadInput ==
  /\ input = 0 /\ ~first /\ pc # "left" /\ typed < MaxInput
  /\ typed' = typed + 1 /\ input' = session
  /\ UNCHANGED <<world, conns, main, model, sigs, ev>>

InputWritten ==
  /\ input # 0 /\ WriteEnds(input)
  /\ Write(input) /\ input' = 0
  /\ UNCHANGED <<world, exec, open, main, model, sigs, ev, typed>>

-----------------------------------------------------------------------------
Run ==
  \/ Ask \/ NoSocket \/ Rejected \/ Accepted \/ Install \/ Resize
  \/ ReadExit \/ ReadLost \/ Wait \/ Select

HandleEvents == HangUp \/ ForwardSignal \/ SignalWritten \/ HandleState

Next ==
  \/ Run \/ HandleEvents \/ ReadInput \/ InputWritten \/ TimerFires
  \/ LoseBridge \/ Recover \/ StopInstance \/ InstanceEnds
  \/ \E sig \in Signals : SignalArrives(sig)
  \/ \E s \in Sessions : Answer(s) \/ ProcessReads(s) \/ ProcessExits(s)

Spec == Init /\ [][Next]_vars

\* The client's goroutines run on and its timers fire, the instance replies or
\* the deadline passes.  Processes, users and the bridge do as they like.
FairSpec ==
  /\ Spec
  /\ WF_vars(Run) /\ WF_vars(TimerFires)
  /\ WF_vars(HangUp \/ ForwardSignal) /\ WF_vars(HandleState)
  /\ WF_vars(SignalWritten) /\ WF_vars(InputWritten)

-----------------------------------------------------------------------------
(* Properties *)

\* A client never has two connections, whatever it loses and starts again, and
\* leaves none behind: an exec nobody reads would keep its process alive.
OneShell ==
  Cardinality(open) <= 1 /\ (pc = "left" => open = {})

\* The reported end is the true one: an exit status is the process's own, and a
\* process that has ended with one is not reported lost or hung up unless the
\* client had closed the session for the reason that it reports.
ExitStatusIsTrue ==
  pc = "left" =>
    IF cur = 0 \/ exec[cur] # "exited" THEN result # "exit"
    ELSE result \in {"exit", IF mode = "shell" THEN quitCode ELSE "lost"}
         /\ (result = "lost" => mode # "exec")

\* There is no room for a frame to a process that runs and could read.
Full(s) == s \in open /\ exec[s] = "running" /\ fill[s] = Room

\* A shell that was lost is replaced, or given up after the two minutes; unless
\* the new one never reads and its first keys leave no room for the resize.
LossSettles ==
  (pc = "wait") ~> (pc \in {"read", "left"} \/ [](pc = "resize" /\ Full(cur)))

\* A shell leaves once its instance has stopped, whatever it was doing; and once
\* it was told to quit while it waited for the instance or had its session.
QuitLeaves ==
  /\ (mode = "shell" /\ inst = "stopped") ~> (pc = "left")
  /\ (quitCode # "none" /\ (pc \in {"wait", "select"} \/
                            (pc \in {"resize", "read"} /\ cur \notin open)))
       ~> (pc = "left")

\* A signal waits for a writer at most: while the command goes on it is handled,
\* on whichever connection, though the keyboard fills the same one and shares
\* its lock, and connections are lost under both; unless its frame waits for
\* ever for room, because a running process does not read what it is sent.
SignalsArrive ==
  (signals # <<>> \/ ev # 0) ~>
    (pc = "left" \/ (ev = 0 /\ signals = <<>>) \/ []Full(ev))


=============================================================================
