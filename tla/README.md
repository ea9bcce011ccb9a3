# Verification of dworm

dworm runs one background *instance* per workspace on the host. It starts the
dev container, injects an *endpoint* program into it with `docker exec`, and
talks to it over one multiplexed bridge (yamux over the endpoint's stdin and
stdout). Clients (`dworm exec`, `dworm shell`, the terminal UI, `dworm status`)
talk to the instance over a unix socket.

These modules model the parts of that system whose correctness depends on the
order of things: goroutines that meet at a mutex, bridges that fail and come
back, timers that fire too late, queues that fill up, clients that leave.
TLC checks them on small instances. TLAPS proves every safety property of every
module, and both refinements, for every value of the constants; liveness stays
with TLC.

## 1. The system: inventory

Paths are below `src/internal/` unless they start with `src/`.

| Component | State | Operations | Meets |
|---|---|---|---|
| Instance run loop (`host/instancerun.go`, `host/endpoint.go`, `host/environment.go`) | state file, stop reason, current bridge, environment, context | run, serve, connect, reconnect, shutdown, requestStop, sendEnvironment, openStream, status | docker, endpoint, control socket, tunnels, event bus |
| Port forwarding (`host/tunnel.go`) | desired ports, listeners, retry timers, active connections | UpdatePorts, Close, timer callbacks, accept/register/dial/proxy | control reader, shutdown, watchPorts |
| Event bus (`host/events.go`) | newest state and ports, ring of log events, subscriber queues and drop counts | Publish, Subscribe, Close | everything that publishes; op events |
| Control socket (`host/execserver.go`) | tracked connections and streams, attached clients | accept, exec (raw and framed), events, status, stop, CloseExecs, Close | clients, run loop, bridge |
| Endpoint exec manager (`endpoint/exec.go`) | running processes, closed flag | handle, register/started/unregister, closeAll, terminate/hangup | bridge streams, processes |
| Endpoint server (`endpoint/server.go`) | environment, reported ports | init, port scan and report, environment update, tunnel streams, cleanup | bridge, exec manager, forwarders |
| Ensure (`host/ensure.go`, `host/controlclient.go`) | attempts, spawned child | check, attach, spawn, waitReady, waitUnlocked | instance lock, control socket, state file |
| Lock and state file (`host/instance.go`) | flock, JSON file | acquire, release, probe, atomic rewrite | every dworm process of the workspace |
| Forwarders (`endpoint/agent.go`, `gpg.go`, `gitcred.go`, `host/agent.go`) | socket paths | start, accept, close | two endpoints after a reconnect |
| Environment (`config/config.go`, `endpoint/environment.go`) | layers of variables | parse, merge, publish | init, environment message, exec |
| Exec client, shell and terminal UI (`host/execclient.go`, `host/shell.go`, `host/tui/model.go`) | session, last state, quit code, pending signals and keys | start, read output, wait and restart, handle signals and states, forward keys | control socket, event stream |
| Status, remove, logs, version, command line | per command | | control socket, docker |

What is hard about each, and the properties that make it correct:

* **Run loop.** Five kinds of goroutine run with it: a control reader per
  bridge session, the environment refresher, op stop handlers, requests that
  open streams, the port watcher. A stop or a signal can meet it in any step,
  and so can a failing bridge or a container that stops. Correct means: no
  session leaks, the state clients see follows the documented lifecycle, a stop
  is named and ends, streams only reach endpoints that are initialised, the
  environment arrives and never goes back.
* **Port forwarding.** Timer callbacks cannot be taken back, connections are
  between accept and proxy when their port disappears, and Close races with the
  control reader. Correct means: exactly the reported ports are forwarded or
  retried, and no connection is orphaned.
* **Event bus.** Queues and the ring overflow. Correct means: no silent gap, no
  duplicate, and a stream that ends.
* **Exec path** (client, control socket, stream, endpoint, process). Every hop
  has its own buffer and its own goroutines. Correct means: the process group
  dies with its caller, the exit status is the last frame, the limit holds.
* **Endpoint server.** After a lost bridge the old endpoint still cleans up while
  the new one starts, and both share an environment file and socket paths. A
  report of the port scanner can fail or be lost with its bridge. Correct means:
  layers of the environment are exact after any updates, the newest one is
  published, sockets lead to the endpoint that serves, and the host comes to
  forward just the ports that listen.
* **Terminal.** Three goroutines share a session that is lost and replaced,
  while the instance stops and signals arrive. Correct means: one connection at
  a time, the true exit status, and a command that settles and leaves.
* **Ensure and lock.** Several processes start, find, and wait for the same
  instance. Correct means: one instance at a time, and a client gets a ready
  instance or the reason why not.

`PROJECT.json` lists the hazards one by one with the line where each bites and
the property that would catch it.

## 2. Modules

| Module | Models | State |
|---|---|---|
| `InstanceLifecycle` | what clients rely on: published state, reason, cause, "commands are served" | abstract specification |
| `Instance` | the run loop and everything that runs beside it | modelled |
| `InstanceProofs` | inductive invariants of `Instance`, seven theorems, and that it implements `InstanceLifecycle` | proved |
| `TunnelManager` | port forwarding with the control reader and watchPorts, for any reports | modelled |
| `TunnelManagerProofs` | types, ports served, no orphaned connection | proved |
| `PortReport` | `TunnelManager` driven by the endpoint's scanner over a bridge that is replaced, and the tunnels back | modelled |
| `PortReportProofs` | the composition implements `TunnelManager`; what was reported is what is forwarded | proved |
| `Endpoint` | the endpoint server over its generations: init, environment updates, cleanup, the published file, sockets, the environment of a shell | modelled |
| `EndpointProofs` | five theorems about overlapping generations | proved |
| `Terminal` | the terminal UI, `dworm exec` with and without a PTY | modelled |
| `TerminalProofs` | types, one connection, true exit statuses | proved |
| `EventBus` | the bus and op events | modelled |
| `EventBusProofs` | no silent gap, and the ring is the end of the log | proved |
| `ExecStream` | one exec, from its caller to the process and back | modelled |
| `ExecStreamProofs` | types, stdin faithful, exit status last | proved |
| `Ensure` | clients, stop commands and instances of one workspace at the lock, the state file and the socket | modelled |
| `EnsureProofs` | five theorems about `Ensure` | proved |

### Instance

`pc` is the position of the goroutine that runs `run`, `serve` and `shutdown`;
one action is one stretch of code between two points where another goroutine
can observe or change something (`Listen` ... `Release` in source order). `cur`
is its local `session`, `bridge` the field under `mu`, `mux` and `reader` the
multiplexer and the control reader of each session, `sentEnv` the number of the
environment each endpoint was last sent. `refresher` splits `sendEnvironment`
into its three steps (store, pick, send), `stopper` op stop into its two
(reason under the lock, then cancel), `opener` a request into the state
snapshot, the bridge, the stream, and its registration. An environment is the
number of the run of the host command that produced it; sessions are numbered
in the order they start. Docker, `devcontainer up` and the host command either
succeed or fail; the acknowledgement of the init either arrives or does not.
Time is left out: a timeout is a step that may happen, and the reconnect window
is a bound on the number of retries that may also end earlier.

### TunnelManager

Every stretch of code under `TunnelManager.mu` is one action. `retryTimers` is
the map of the same name, `strayArmed` and `strayFired` count the timers it no
longer holds but whose callbacks still come. `toClose` holds the connections
that UpdatePorts and Close took out of `activeConns` and close after the unlock.

### PortReport

Composes `TunnelManager` with what feeds it. `sockets` is what listens in the
container, `scan` and `found` the scanner between its scan, its send and
`updatePortState`, `currentPorts`, `portsReported` and `portAddresses` the
fields of `Server`, `control` the reports on the control stream. `HandleReport`
is `readControl` calling `UpdatePorts`, and a connection of `TunnelManager` gets
its tunnel only if the endpoint's dial reaches a socket. A bridge that fails
takes the endpoint and some of the reports along; the next endpoint starts with
nothing reported while the host still forwards what the last one reported.
Addresses are the five kinds the code tells apart. A report whose send fails is
not delivered later; a control stream that was cut inside a message counts as a
failed bridge.

### Endpoint

`pc[g]` is the position of generation `g` in `Server.Run`, its forwarders and
`cleanup`; `procEnv` its process environment, `envVars` the field, `inbox` what
the host has sent it. `file` is `environment.json` with the generation that wrote
it last, `bound` the generation whose listener a socket path leads to. Whatever
ends an endpoint early (a message that does not come, a file that cannot be
written, a reply that cannot be sent) leads to its `cleanup`, whose last step
closes the mux. Updates that do not decode or hold values that cannot be set are
left out: the host encodes them, and `config.Validate` has checked them. The host
is `Connect`, `SendEnvironment` and `LoseBridge`. `shell` goes through the exec
that starts the launcher, the launcher (`RunWithEnvironment`), and the prompts
(`ShellEnvironment`). A killed endpoint leaves its sockets and the file behind.

### Terminal

`pc` is the goroutine of `run`, `ExecTTY` or `ExecViaSocket`, `ev` and `input`
are the writes that the other two goroutines have under way: a write holds the
session's lock and ends when there is room or the connection is closed. A shell
begins with the state that the bus sends a new subscriber, so that `readyCh` may
be stale from the start; `ExecTTY` takes signals before its command has started.
`session`, `state`, `readyCh` and `quitCode` are the model's fields. `exec` is what the
instance's socket makes of each session.

### EventBus

Publishing is one action, as it runs under the bus lock. An event is its number
and type, so that a gap, a duplicate or a wrong order shows. `got` is what the
client has been sent. A client that leaves ends its subscription; what its queue
still holds is written until a write fails (`WriteFails`). `Offer`, `Recent` and `Snapshot` are the code's functions
as operators.

### ExecStream

One exec crosses four hops: the caller's connection (`conn`), the host's handler
with the goroutine that reads the connection (`hpc`, `hin`), the bridge stream
(`down`, `up`), and the endpoint's handler with its reader, stdin writer and
output pump (`epc`, `reader`, `writer`, `pump`). Each goroutine holds at most
one frame (`hinHeld`, `readerHeld`, ...) and each queue between two of them is
bounded, so each can block on the next. A payload is its number; the number 0 is
the end of the input one way and the exit status the other way. `hpc` and `epc`
follow `handleExec` and `execManager.handle`; the two sides of proxyRaw and
proxyFramed that differ are disjuncts on `mode`. `gone` is the closed channel
callerGone. TERM, grace and KILL are one action (`GroupEnds`): up to it the
process does as it likes, and it may leave a descendant in its group or a daemon
outside that holds its output, and stdin: a write to it fails only when nobody
holds its other end (`StdinHeld`). `CloseExecs` closes each session the server
tracks, the stream and the caller's connection alike, so a caller that stays may
be `cut` from the host without an exit frame. Of the frames that the endpoint had
sent before a bridge is lost, the host may still read the first few.

### Ensure

Processes that share no memory: instances, clients inside `EnsureAndRun`, and
`StopInstance`. They meet at the flock (`holder` exclusive, `sharers` for the
instant of a probe), the PID in the state file (`stateFile`) and the socket
(`socket`: who bound it last). An instance is its number, which is also its PID,
and its `phase`; its life in between is `Instance`. `client` follows the
calls of `ensure`: `attach` (query, probe, spawn), `waitReady` (subscribe, next,
requery), `waitUnlocked` (unlock), and the command itself (run). `pending` holds
the state events a client has not read. `asked` holds the instances that were
asked to stop and have not noticed. A kill leaves the files and frees the lock.
The lock file may not open (`Acquire`), a child may not start (`SpawnFails`), and
a command may lose its instance before it was started (`Run`).
Left out: the version check, `--no-start`, log events, and failures of a probe.

### Faults

A definition `X_Y` marked "Fault:" stands before `X` and is `X` with a mistake a
programmer could make (a guard dropped, a reset forgotten). No specification
uses it. Replacing `X` by it makes TLC find the property that `PROJECT.json`
("mutants") names violated; this shows that each property depends on the code.

## 3. Model checking

| Run | Question | Bounds |
|---|---|---|
| `instance` | safety and refinement of the run loop; is a lost bridge restored, does a stop end it | 2 sessions, 1 retry, 2 environments, 1 opener, 1 stopper, fair |
| `tunnels` | safety of port forwarding for any reports | 2 ports, 1 connection slot, channel of 1, 1 stray timer per port |
| `ports` | do listeners follow the container's sockets, do tunnels reach them | 1 port on none, one or two addresses, 2 endpoints, 1 report under way, 1 connection slot, fair |
| `event_bus` | safety of the event stream, and that it ends | 1 subscription, queue of 2, ring of 2, 4 events |
| `exec_stream` | stdin complete, exit status last, and told to a caller that stays and is not cut off | raw, framed and PTY; 2 payloads in either direction, every buffer holds 1 |
| `exec_live` | a disconnect kills and frees the slot, an end reaches the caller, whatever the process does, while stdin does not back up | raw and PTY; 1 payload, every buffer holds 1, fair |
| `exec_stall` | does a disconnect also kill a process that ignores its stdin? No | framed; 4 payloads, enough to fill every buffer, fair |
| `ensure` | a server owns its files, clients fail for a reason, a stop has stopped | 1 client, 1 stop command, 1 other starter, 2 spawns, 1 retry, 1 fault |
| `endpoint` | layers, published file, sockets and shells over two generations | 1 variable with 2 values, 1 socket, 2 endpoints, 2 updates, 1 kill |
| `shell_env` | does a shell that dworm starts follow the published environment? No | the same |
| `terminal` | one session, true status, settles and leaves; signals wait only for a process that does not read | shell, PTY and pipes; 1 signal, 1 read of input, room for 1 frame, 2 events, 3 changes, fair |
| `signal_stuck` | are signals forwarded whatever the process does? No | PTY; 1 signal, 1 read of input, room for 1 frame, fair |

Why the bounds are enough to be interesting: two sessions are one that fails
and one that replaces it, with stale readers, openers and refreshes that still
hold the first; one retry is a loop that has gone round; two environments are
old and new. One connection slot is used again and again, so later connections
meet leftovers of earlier ones; two ports let one come and go while the other
stays. A channel of one is full at once. Four events fill a queue of two, lose
some, send a marker and wrap a ring of two. Buffers of one exec hold one payload
each, so two payloads already make a hop wait and four fill the way from the
caller to the process. One client, one other starter and one respawn make three
instances: one on its way out, one that serves and one that loses the race. One port shows every change of a report, as no code
relates two of them but `tunnels`' shared channel and closing list; two endpoints
are one that reported and one that has not. One variable that the container has
or has not, with two values, is set, changed, removed and restored in two
updates. Three changes of the bridge lose a shell, bring the instance back, and
lose it again. The
one fault is a kill, a lost bridge or a lock that a probe holds just then.
`ErrorsHaveCause` needs that probes are in an instance's way no more often than
it tries (`MaxFaults <= MaxTries`); the code tries six times, 50 ms apart, and a
probe is one system call long. The proofs lift the bounds for every safety
property; the bounds matter for liveness only, and there each run has at least
one round of every loop.

**Fairness.** `Instance!Fairness`: the run loop's goroutine is weakly fair (it
waits only for docker commands, which end, for timers, and for channels that
another fair goroutine closes), and so are a control reader whose mux has failed
and the two steps of a stop handler. The refresher has none, as it may sit in a
host command for ever; shutdown's timeout is what makes the instance end all the
same. Clients, signals, failing bridges and the container have none.
`EventBus!FairSpec`: the handler of a client that reads.
`ExecStream!FairSpec`: one of the goroutines of both sides, of yamux's timer for
a stream that only one side closed, of the header timeout, of the second half of
`CloseExecs` and of the endpoint's cleanup takes a step while one can, which is
enough as what they have to do is finite; nothing of the caller and nothing of
the process. Both `exec_live` and `exec_stall` run under it. The one payload of
`exec_live` always finds room, so it says nothing of a stdin that backs up; that
is the case of `exec_stall`, where four payloads fill every buffer.
`PortReport!ReportSpec`: the scanner's ticker and the control reader go on, and
the send of a report is strongly fair: a bridge that stays up for ever takes a
report that is sent again and again. Listeners may fail for ever, so that a port
is open on the host is not claimed, only that it is served or retried
(`PortsAreServed`). `Terminal!FairSpec`: the client's goroutines and timers, and
that the instance replies or the deadline passes; nothing of the process, so
`LossSettles` and `SignalsArrive` name the one thing that may keep a frame
waiting for ever, a running process that does not read (`Full`).

**Deadlock** is checked in the runs of `Instance`, `TunnelManager` and
`PortReport`. The others stop with their bounds: clients, events, instances,
generations and updates are used up, the one exec or the command has ended.

### Where the code and its documentation disagree

* `exec_stall`: the goroutine that reads the exec stream waits for room in the
  stdin queue (`endpoint/exec.go:301`) and then does not see that its caller has
  left. A process that neither reads stdin nor writes output lives on, against
  `endpoint/exec.go:23` and `README.md:231`.
* `shell_env`: a shell's launcher takes its own environment for the base to
  restore from (`endpoint/environment.go:122`), but it was itself started through
  the endpoint's exec and so has the managed variables in it already. A variable
  that a refresh removes keeps its old value in shells that dworm starts, against
  `README.md:315-324`. `ShellRestores` holds: a launcher with a clean environment,
  as in the unit test, does restore.
* `signal_stuck`: a write of input to a process that does not read holds
  `ExecSession.mu` (`host/execclient.go:81`), and the goroutine that forwards
  signals waits for the same lock: the SIGTERM meant to end that process is never
  sent, and a SIGHUP behind it is not looked at, against the comment of `ExecTTY`
  (`host/execclient.go:214`).

Seen while modelling, and not checked by a run of their own:

* An endpoint whose bridge was lost may still publish the update it was handling
  after its successor has published a newer one (`endpoint/environment.go:18`);
  `PublishedIsLastSent` exempts that late write.
* When the instance shuts down a framed client may see its connection end without
  an exit frame, though it has not left (`host/execserver.go:157-170`): its own
  connection is closed with the others, and the handler takes it for gone.
* A hang-up that meets `startSession` in `waitAndRestart` (`tui/model.go:425`)
  finds no session to close; the new shell runs on.
* A refresh without a bridge is meant to go with the next init
  (`instancerun.go:547`), which `reconnect` may have sent already.
* `UpdatePorts` does not look at `closed`; a report that is handled between
  `TunnelManager.Close` and the drop of the bridge opens listeners again.
* `EventBus.Close` ends a slow subscriber's stream without the pending drop count.
* `closeAll` knows a process only after `started` (`endpoint/exec.go:87`): one
  that is just being started can outlive the endpoint.
* The cleanup of an old endpoint can remove a socket that the next one has bound
  (`endpoint/agent.go:114`); `SocketsAreServed` therefore speaks of an endpoint
  that starts when no older one is left.

## 4. Proofs

Every invariant and action property that a run checks is also a theorem, for
every value of the constants that the module's `...Assumption` allows: natural
bounds, buffers with room for one element at least, finitely many clients; most
sets may be infinite. Each proof has the same shape. A property is seldom
inductive as it stands; the invariant that is (`...Inv`, a conjunction of named
parts) was first checked by TLC, and one lemma per action or group of actions
shows that the parts it disturbs are kept.

**`InstanceProofs`.** Its parts are lemmas of their own:

* `FlagsInvariant`, `DataInvariant`: types. The data half carries one fact
  about control, that a backoff is only entered below the bound.
* `SessionInvariant` (`SessionInv`): where `cur` and `bridge` point at each
  `pc`, and that every session that is not unused or closed is one of them.
  `NoSessionLeak` is its conclusion; the strengthening is what `CloseSession`
  needs to know to close the right one.
* `ReaderInvariant` (`ReaderInv`): the bridge, and everything an opener picked,
  has a control reader; the session being connected has none before `AwaitReady`.
* `LifeInvariant` (`LifeInv`): which published states belong to each `pc`. It
  carries the refinement.
* `StopInvariant` (`StopInv`): what is known of the stop reason, the contexts
  and the error at each `pc`: a context that ended without an error has a reason
  or a parent that ended. `StoppedNamesCause` follows.
* `EnvInvariant` (`EnvInv`): which environments are under way between the
  refresher's three steps. Both environment theorems follow.

`InstanceImplementsLifecycle` then shows that the initial state maps to an
initial state of the lifecycle and that every action maps to one of its steps or
to a stutter, by one lemma per group of actions.

**`TunnelManagerProofs`** (`TunnelInv`). `PortsAreServed` is inductive with the
types: a port's timer is only taken away together with the wish or with a
listener. `NoOrphanConnection` needs `TrackedInv`: a handler past registration
has its half in `activeConns` of its port, or it was taken from there and is in
`toClose` or closed; and ports that are not wanted track nothing.

**`PortReportProofs`** (`ReportInv`). `ReportsDriveTunnels` is a refinement:
`ReportSpec => Spec`, each step of scanner, bridge and host is one that
`TunnelManager` allows or leaves it alone, so its theorems hold in the
composition too (`ReportedPortsServed`). `ReportedIsDesired` needs `Latest`, the
newest report under way or what the manager has when none is, and what it is
between the scanner's send and `updatePortState`.

**`EndpointProofs`** (`EndpointInv`). `StartedInv`: generations start in order
and the bridge's is the newest. `LayersInv`: the process environment at each
position of `Run`. `SentInv` and `FileInv` follow an environment from the host
through the inbox and the field to the file. `BoundInv`: where an endpoint may
be while a socket leads to it, and where it is sure to have made it; an endpoint
that started alone stays the only one to remove it. `ShellInv`: a prompt's
variables are those its launcher inherited under those it has read.

**`TerminalProofs`** (`TerminalInv`). `RunInv` says for each position of the
main goroutine which session it has, whether its connection is open, and what
may have become of the process; `LeftInv` what remains of that when it has left.
Types need the one count that is not obvious: how many states can be unhandled.

**`ExecStreamProofs`** (`ExecInv`). `Run(q, a)`: a buffer holds the numbers that
follow `a`. `OrderInv` and `FlowInv` chain the buffers of each direction, each
one starting where the one in front of it ends, up to the first hop that drops
what it gets; a hop that drops never passes on anything again. `EofInv`,
`CountInv` and `ExitInv` place the end of the input and the exit frame behind
everything else. `HandleInv` relates the positions of the two handlers and their
goroutines.

**`EventBusProofs`** (`BusInv`). `Covered` (how many events a stream accounts
for) and `LogsOf` (the log events among all) are recursive functions over a
sequence. What they compute in general is out of reach, but what appending one
element does to them is all that a step needs; `NatSetInduction`, proved from the
well-foundedness of finite sets, gives that by induction over the length.
`StreamInv` is the balance that each offer, receive and snapshot keeps: where the
stream began, what it covers and what was dropped add up to what was published.
`RingInv` says what is in the ring before and after `next`.

**`EnsureProofs`.** `FilesInv` says, for each phase of an instance, which of
the lock, the state file and the socket are its own; `ServerOwnsFiles` is its
conclusion and inductive only together with the lock's part. `Onward` is what no
step does to an instance that has had the lock: it never gets it again, and its
state file stays its own until it removes it. That keeps `StopInv` true, what a
stop command knows of the instance it found and of the PID it read, and
`StopMeansStopped` follows. `TypeOK` includes that there are no more instances
than the model has numbers for, though a client forgets its count of spawns when
it returns: `BirthsInv` gives each instance that a client started a place of its
own in `Clients \X (1..MaxSpawns)`. `ErrorsHaveCause` is shown by contradiction.
`CauseInv` describes a workspace in which nothing has gone wrong yet: an instance
exits only because another one has the lock, once held the lock is never free
again, what a client asked the socket for comes from the holder, and a client
that needs a second child knows that the lock is held and so does not find it
free again. It needs that a client may start two children (the code: three) and
that fewer faults happened than an instance tries for the lock
(`ErrorsCaused`); `ErrorsCausedWithFewFaults` is the property itself under
`MaxFaults <= MaxTries`, which the run's constants satisfy.

**Only model-checked**: liveness under fairness, which needs `ENABLED`:
`ImplementsLiveLifecycle`, `BridgeIsRestored`, `PortsSettle`, `StreamsEnd`,
`DisconnectKills`, `SlotIsFreed`, `ExitReachesCaller`, `LossSettles`,
`QuitLeaves` and `SignalsArrive`. That every client in `EnsureAndRun` comes to an
end is not checked: the state space that shows the races is too large for
liveness.

## 5. Not modelled

Docker, the devcontainer CLI, yamux and byte encodings are outside or are
libraries. Status and remove list and delete files and containers without a
state of their own; the command line is flags; the version check is one request;
logs are text; parsing of `.env` files and of socket tables is text too. Of the
terminal UI the rendering and the status bar are left out, and with them `uiMu`:
`startSession` and the keyboard take it, and it is held while the status bar is
written, so that a terminal that takes no output stops a session there as it does
in `copyOutput`. Of the forwarders the
connections they carry, of the control socket its limits and timeouts, of the
endpoint's execs the limit over many of them. `ForwardPort`, `StopForwarding` and
`GetForwardedPorts` of the tunnel manager are used by tests only. `components`
in `PROJECT.json` gives the reason part by part.

## 6. Plan

No safety property is left without a theorem. Next, where the model ends:

1. `ExecManager`: many execs of one endpoint at their limit, so that the count of
   running ones and `closeAll` are about more than one (`endpoint/exec.go:59`).
   Then the theorem that a slot is held only by an exec that runs.
2. The connections of the forwarders, from a process in the container to the
   agent on the host.
