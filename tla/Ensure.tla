------------------------------- MODULE Ensure -------------------------------
(***************************************************************************)
(* The processes of one workspace that start, find, use and stop its       *)
(* instance: clients (internal/host/ensure.go), `dworm stop`               *)
(* (controlclient.go), and the instances, which meet at the flock, the     *)
(* state file and the socket (instance.go, instance_unix.go).  A status    *)
(* probe of the lock is what StopInstance begins with.                     *)
(*                                                                         *)
(* An instance's own life is Instance.tla; here it is its phase, and the   *)
(* phases in which its socket answers are the states it publishes.  Its    *)
(* PID is its number.  All clients are of the instances' version, and the  *)
(* container may be started (no --no-start).                               *)
(***************************************************************************)
EXTENDS Naturals, Sequences, FiniteSets

CONSTANTS
  Clients,        \* processes in EnsureAndRun
  Stoppers,       \* processes in StopInstance
  MaxSpawns,      \* instances a client starts (3 in the code)
  MaxAttempts,    \* attempts after an instance has gone (3 in the code)
  MaxTries,       \* times an instance retries the lock (5 in the code)
  MaxUps,         \* bound: instances started by other processes
  MaxFaults       \* bound: bridges that are lost, instances that are killed and
                  \* tries for the lock that fail on a probe, together

ASSUME EnsureAssumption ==
  /\ {MaxSpawns, MaxAttempts, MaxTries, MaxUps, MaxFaults} \subseteq Nat
  /\ IsFiniteSet(Clients)
  /\ Clients \cap Stoppers = {}

Instances == 1..(MaxUps + MaxSpawns * Cardinality(Clients))
Pids == {0} \cup Instances      \* 0 is none

VARIABLES
  phase, tries, exit,   \* of each instance
  asked,                \* instances that were asked to stop
  holder, sharers,      \* the flock: exclusive, and the probes that share it
  stateFile, socket,    \* the PID in the state file, who bound the socket
  started, ups, faults,   \* counters
  \* each client: position, attempt, spawns, its child, the instance whose
  \* events it follows, and the states it has not read yet
  client, attempt, spawns, child, followed, pending,
  \* each StopInstance: position, the PID it read, the instance it has to stop
  stopper, pid, found

instanceVars == <<phase, tries, exit, asked>>
files   == <<holder, stateFile, socket>>
bounds  == <<started, ups, faults>>
clientVars  == <<client, attempt, spawns, child, followed>>
stopperVars == <<stopper, pid, found>>
vars == <<instanceVars, files, sharers, bounds, clientVars, pending,
          stopperVars>>

\* Phases whose socket answers; "stopped" and "failed" precede its close.
Answering == {"starting", "ready", "reconnecting", "stopping", "stopped",
              "failed"}
Stopping == {"stopping", "stopped", "failed", "closed", "released"}
Locked == {"locked", "written"} \cup Stopping \cup Answering
Phases == {"unborn", "locking", "exited"} \cup Locked

TypeOK ==
  /\ phase \in [Instances -> Phases] /\ tries \in [Instances -> 0..MaxTries]
  /\ exit \in [Instances -> {"none", "ok", "error", "running", "killed"}]
  /\ asked \subseteq Instances /\ holder \in Pids
  /\ sharers \subseteq Clients \cup Stoppers
  /\ stateFile \in Pids /\ socket \in Pids /\ started \in Pids
  /\ ups \in 0..MaxUps /\ faults \in 0..MaxFaults
  /\ client \in [Clients -> {"query", "probe", "probing", "free", "held",
       "subscribe", "next", "requery", "gone", "unlock", "unlocking", "run",
       "done", "lost", "nospawn", "error", "timeout"}]
  /\ attempt \in [Clients -> 0..MaxAttempts]
  /\ spawns \in [Clients -> 0..MaxSpawns]
  /\ child \in [Clients -> Pids] /\ followed \in [Clients -> Pids]
  /\ pending \in [Clients -> Seq(Answering)]
  /\ stopper \in [Stoppers -> {"probe", "probing", "read", "request", "wait",
       "check", "checking", "reread", "stopped", "none", "error"}]
  /\ pid \in [Stoppers -> Pids] /\ found \in [Stoppers -> Pids]

Init ==
  /\ phase = [i \in Instances |-> "unborn"] /\ tries = [i \in Instances |-> 0]
  /\ exit = [i \in Instances |-> "none"] /\ asked = {}
  /\ holder = 0 /\ sharers = {} /\ stateFile = 0 /\ socket = 0
  /\ started = 0 /\ ups = 0 /\ faults = 0
  /\ client = [c \in Clients |-> "query"] /\ attempt = [c \in Clients |-> 0]
  /\ spawns = [c \in Clients |-> 0] /\ child = [c \in Clients |-> 0]
  /\ followed = [c \in Clients |-> 0] /\ pending = [c \in Clients |-> <<>>]
  /\ stopper = [s \in Stoppers |-> "probe"]
  /\ pid = [s \in Stoppers |-> 0] /\ found = [s \in Stoppers |-> 0]

-----------------------------------------------------------------------------
(* An instance *)

\* setState: the new state, and the event for those who follow the instance.
Publish(i, s) ==
  /\ phase' = [phase EXCEPT ![i] = s]
  /\ pending' = [c \in Clients |->
       IF followed[c] = i THEN Append(pending[c], s) ELSE pending[c]]

Moves(i, p) == phase' = [phase EXCEPT ![i] = p] /\ UNCHANGED pending

\* AcquireInstanceLock.  A probe may be in the way for an instant, and the lock
\* file may not open or lock at all.
Acquire(i) ==
  /\ phase[i] = "locking"
  /\ \/ /\ holder = 0 /\ sharers = {}
        /\ holder' = i
        /\ Moves(i, "locked")
        /\ tries' = [tries EXCEPT ![i] = 0]
        /\ UNCHANGED <<exit, faults>>
     \/ /\ holder # 0 \/ (sharers # {} /\ faults < MaxFaults)
        /\ faults' = IF holder # 0 THEN faults ELSE faults + 1
        /\ IF tries[i] < MaxTries
           THEN /\ tries' = [tries EXCEPT ![i] = @ + 1]
                /\ UNCHANGED <<phase, pending, exit>>
           ELSE /\ exit' = [exit EXCEPT ![i] = "running"]
                /\ Moves(i, "exited")
                /\ tries' = [tries EXCEPT ![i] = 0]
        /\ UNCHANGED holder
     \/ /\ exit' = [exit EXCEPT ![i] = "error"]
        /\ Moves(i, "exited")
        /\ tries' = [tries EXCEPT ![i] = 0]
        /\ UNCHANGED <<holder, faults>>
  /\ UNCHANGED <<asked, sharers, stateFile, socket, started, ups, clientVars,
                 stopperVars>>

\* OpenOutput and the state file; either may fail.
WriteState(i) ==
  /\ phase[i] = "locked"
  /\ \/ /\ stateFile' = i
        /\ Moves(i, "written")
        /\ UNCHANGED exit
     \/ /\ exit' = [exit EXCEPT ![i] = "error"]
        /\ Moves(i, "closed")
        /\ UNCHANGED stateFile
  /\ UNCHANGED <<tries, asked, holder, sharers, socket, bounds, clientVars,
                 stopperVars>>

\* NewExecServer replaces the socket that a crashed instance left.
Listen(i) ==
  /\ phase[i] = "written"
  /\ \/ /\ socket' = i
        /\ Moves(i, "starting")
        /\ UNCHANGED exit
     \/ /\ exit' = [exit EXCEPT ![i] = "error"]
        /\ socket' = 0
        /\ Moves(i, "closed")
  /\ UNCHANGED <<tries, asked, holder, sharers, stateFile, bounds, clientVars,
                 stopperVars>>

\* serve: ready at last, or the instance fails.
Proceed(i) ==
  /\ phase[i] \in {"starting", "reconnecting"}
  /\ \/ Publish(i, "ready") /\ UNCHANGED exit
     \/ Publish(i, "stopping") /\ exit' = [exit EXCEPT ![i] = "error"]
  /\ asked' = (IF phase'[i] = "ready" THEN asked ELSE asked \ {i})
  /\ UNCHANGED <<tries, files, sharers, bounds, clientVars, stopperVars>>

LoseBridge(i) ==
  /\ phase[i] = "ready" /\ faults < MaxFaults
  /\ faults' = faults + 1
  /\ Publish(i, "reconnecting")
  /\ UNCHANGED <<tries, exit, asked, files, sharers, started, ups, clientVars,
                 stopperVars>>

\* op stop or a signal takes effect.
Stop(i) ==
  /\ i \in asked /\ phase[i] \in {"starting", "ready", "reconnecting"}
  /\ Publish(i, "stopping")
  /\ exit' = [exit EXCEPT ![i] = "ok"]
  /\ asked' = asked \ {i}
  /\ UNCHANGED <<tries, files, sharers, bounds, clientVars, stopperVars>>

\* The last state, and the bus is closed ...
FinalState(i) ==
  /\ phase[i] = "stopping"
  /\ Publish(i, IF exit[i] = "ok" THEN "stopped" ELSE "failed")
  /\ UNCHANGED <<tries, exit, asked, files, sharers, bounds, clientVars,
                 stopperVars>>

\* ... the socket is removed and its connections are closed ...
CloseServer(i) ==
  /\ phase[i] \in {"stopped", "failed"}
  /\ socket' = 0
  /\ Moves(i, "closed")
  /\ UNCHANGED <<tries, exit, asked, holder, sharers, stateFile, bounds,
                 clientVars, stopperVars>>

\* Fault: Release unlocks first and then removes the state file.
Release_UnlocksFirst(i) ==
  /\ \/ /\ phase[i] = "closed"
        /\ holder' = 0
        /\ Moves(i, "released")
        /\ UNCHANGED stateFile
     \/ /\ phase[i] = "released"
        /\ stateFile' = 0
        /\ Moves(i, "exited")
        /\ UNCHANGED holder
  /\ UNCHANGED <<tries, exit, asked, sharers, socket, bounds, clientVars,
                 stopperVars>>

\* ... and Release removes the state file, then the lock.
Release(i) ==
  /\ \/ /\ phase[i] = "closed"
        /\ stateFile' = 0
        /\ Moves(i, "released")
        /\ UNCHANGED holder
     \/ /\ phase[i] = "released"
        /\ holder' = 0
        /\ Moves(i, "exited")
        /\ UNCHANGED stateFile
  /\ UNCHANGED <<tries, exit, asked, sharers, socket, bounds, clientVars,
                 stopperVars>>

\* SIGKILL or a crash: the kernel drops the lock, the files stay.
Kill(i) ==
  /\ phase[i] \in Locked \cup {"locking"} /\ faults < MaxFaults
  /\ faults' = faults + 1
  /\ holder' = IF holder = i THEN 0 ELSE holder
  /\ exit' = [exit EXCEPT ![i] = "killed"]
  /\ phase' = [phase EXCEPT ![i] = "exited"]
  /\ \E lost \in BOOLEAN : pending' = [c \in Clients |->
       IF lost /\ followed[c] = i THEN <<>> ELSE pending[c]]
  /\ UNCHANGED <<tries, asked, sharers, stateFile, socket, started, ups,
                 clientVars, stopperVars>>

\* Another process (`dworm up`, another client) starts an instance.
Up ==
  /\ ups < MaxUps
  /\ ups' = ups + 1
  /\ started' = started + 1
  /\ Moves(started', "locking")
  /\ UNCHANGED <<tries, exit, asked, files, sharers, faults, clientVars,
                 stopperVars>>

-----------------------------------------------------------------------------
(* InstanceRunning: a shared lock for an instant *)

Answers == socket # 0 /\ phase[socket] \in Answering

ProbeHeld == holder # 0 /\ UNCHANGED sharers
ProbeTakes(p) == holder = 0 /\ sharers' = sharers \cup {p}
ProbeReleases(p) == sharers' = sharers \ {p}

-----------------------------------------------------------------------------
(* A client in EnsureAndRun *)

Goes(c, p) == client' = [client EXCEPT ![c] = p]

\* EnsureAndRun returns; its locals are gone.
Returns(c, p) ==
  /\ Goes(c, p)
  /\ attempt' = [attempt EXCEPT ![c] = 0] /\ spawns' = [spawns EXCEPT ![c] = 0]
  /\ child' = [child EXCEPT ![c] = 0] /\ followed' = [followed EXCEPT ![c] = 0]
  /\ pending' = [pending EXCEPT ![c] = <<>>]

\* attach: QueryInstance.
Query(c) ==
  /\ client[c] = "query"
  /\ \/ /\ Goes(c, IF ~Answers THEN "probe" ELSE
                 CASE phase[socket] = "ready" -> "run"
                   [] phase[socket] = "stopped" -> "gone"
                   [] OTHER -> "subscribe")
        /\ Answers => phase[socket] # "failed"
        /\ UNCHANGED <<attempt, spawns, child, followed, pending>>
     \/ Answers /\ phase[socket] = "failed" /\ Returns(c, "error")
  /\ UNCHANGED <<instanceVars, files, sharers, bounds, stopperVars>>

\* attach: InstanceRunning.
Probe(c) ==
  /\ \/ client[c] = "probe" /\ ProbeHeld /\ Goes(c, "held")
     \/ client[c] = "probe" /\ ProbeTakes(c) /\ Goes(c, "probing")
     \/ client[c] = "probing" /\ ProbeReleases(c) /\ Goes(c, "free")
  /\ UNCHANGED <<instanceVars, files, bounds, attempt, spawns, child, followed,
                 pending, stopperVars>>

\* No instance runs, nor has this client one that may still get the lock.
NeedsChild(c) ==
  /\ client[c] = "free"
  /\ child[c] # 0 => exit[child[c]] = "running"

Spawn(c) ==
  /\ NeedsChild(c) /\ spawns[c] < MaxSpawns
  /\ spawns' = [spawns EXCEPT ![c] = @ + 1]
  /\ started' = started + 1
  /\ child' = [child EXCEPT ![c] = started']
  /\ Moves(started', "locking")
  /\ Goes(c, "query")
  /\ UNCHANGED <<tries, exit, asked, files, sharers, ups, faults, attempt,
                 followed, stopperVars>>

\* The log does not open or the child does not start.
SpawnFails(c) ==
  /\ NeedsChild(c) /\ spawns[c] < MaxSpawns
  /\ Returns(c, "nospawn")
  /\ UNCHANGED <<instanceVars, files, sharers, bounds, stopperVars>>

\* Fault: a child that lost the race for the lock counts as failed.
ChildFailed_AnyExit(c) == child[c] # 0 /\ phase[child[c]] = "exited"

ChildFailed(c) ==
  child[c] # 0 /\ phase[child[c]] = "exited" /\ exit[child[c]] # "running"

\* An instance runs, or the child is starting.
AwaitSocket(c) ==
  /\ client[c] \in {"free", "held"} /\ ~NeedsChild(c) /\ ~ChildFailed(c)
  /\ Goes(c, "query")
  /\ UNCHANGED <<instanceVars, files, sharers, bounds, attempt, spawns, child,
                 followed, pending, stopperVars>>

\* Too many children lost the race, or the child failed.
AttachFails(c) ==
  /\ client[c] \in {"free", "held"}
  /\ (NeedsChild(c) /\ spawns[c] = MaxSpawns) \/ ChildFailed(c)
  /\ Returns(c, "error")
  /\ UNCHANGED <<instanceVars, files, sharers, bounds, stopperVars>>

\* waitReady: SubscribeEvents, with the state of the snapshot.
Subscribe(c) ==
  /\ client[c] = "subscribe"
  /\ IF Answers
     THEN /\ followed' = [followed EXCEPT ![c] = socket]
          /\ pending' = [pending EXCEPT ![c] = <<phase[socket]>>]
          /\ Goes(c, "next")
     ELSE Goes(c, "gone") /\ UNCHANGED <<followed, pending>>
  /\ UNCHANGED <<instanceVars, files, sharers, bounds, attempt, spawns, child,
                 stopperVars>>

\* The next state event ...
NextEvent(c) ==
  /\ client[c] = "next" /\ pending[c] # <<>>
  /\ LET s == Head(pending[c]) IN
       \/ /\ s # "failed"
          /\ Goes(c, CASE s = "ready" -> "requery" [] s = "stopped" -> "gone"
                       [] OTHER -> "next")
          /\ pending' = [pending EXCEPT ![c] = Tail(@)]
          /\ UNCHANGED <<attempt, spawns, child, followed>>
       \/ s = "failed" /\ Returns(c, "error")
  /\ UNCHANGED <<instanceVars, files, sharers, bounds, stopperVars>>

\* ... or the stream's end.
StreamEnds(c) ==
  /\ client[c] = "next" /\ pending[c] = <<>>
  /\ phase[followed[c]] \notin Answering
  /\ Goes(c, "gone")
  /\ UNCHANGED <<instanceVars, files, sharers, bounds, attempt, spawns, child,
                 followed, pending, stopperVars>>

\* A ready event may be old: ask again.
Requery(c) ==
  /\ client[c] = "requery"
  /\ \/ /\ Answers
        /\ Goes(c, IF phase[socket] = "ready" THEN "run" ELSE "next")
        /\ UNCHANGED <<attempt, spawns, child, followed, pending>>
     \/ ~Answers /\ Returns(c, "error")
  /\ UNCHANGED <<instanceVars, files, sharers, bounds, stopperVars>>

Unfollow(c) ==
  /\ followed' = [followed EXCEPT ![c] = 0]
  /\ pending' = [pending EXCEPT ![c] = <<>>]

\* Fault: start anew as often as it takes.
Retry_Unlimited(c) ==
  /\ client[c] = "gone"
  /\ Goes(c, "unlock")
  /\ Unfollow(c)
  /\ UNCHANGED <<instanceVars, files, sharers, bounds, attempt, spawns, child,
                 stopperVars>>

\* errInstanceGone: start anew, a few times.
Retry(c) ==
  /\ client[c] = "gone"
  /\ \/ /\ attempt[c] < MaxAttempts
        /\ Goes(c, "unlock")
        /\ Unfollow(c)
        /\ UNCHANGED <<attempt, spawns, child>>
     \/ attempt[c] = MaxAttempts /\ Returns(c, "error")
  /\ UNCHANGED <<instanceVars, files, sharers, bounds, stopperVars>>

\* waitUnlocked, and the next attach.
AwaitUnlock(c) ==
  /\ \/ /\ client[c] = "unlock"
        /\ \/ ProbeHeld /\ UNCHANGED client
           \/ ProbeTakes(c) /\ Goes(c, "unlocking")
        /\ UNCHANGED <<attempt, child>>
     \/ /\ client[c] = "unlocking" /\ ProbeReleases(c) /\ Goes(c, "query")
        /\ attempt' = [attempt EXCEPT ![c] = @ + 1]
        /\ child' = [child EXCEPT ![c] = 0]
  /\ UNCHANGED <<instanceVars, files, bounds, spawns, followed, pending,
                 stopperVars>>

\* Run the command, unless the bridge is lost before it has started ...
Run(c) ==
  /\ client[c] = "run" /\ (Answers => phase[socket] = "ready")
  /\ \E p \in IF Answers THEN {"done", "lost"} ELSE {"error"} : Returns(c, p)
  /\ UNCHANGED <<instanceVars, files, sharers, bounds, stopperVars>>

\* ... but an instance that is not ready rejects it: ensure once more.
NotReady(c) ==
  /\ client[c] = "run" /\ Answers /\ phase[socket] # "ready"
  /\ Goes(c, "query")
  /\ attempt' = [attempt EXCEPT ![c] = 0]
  /\ child' = [child EXCEPT ![c] = 0]
  /\ Unfollow(c)
  /\ UNCHANGED <<instanceVars, files, sharers, bounds, spawns, stopperVars>>

\* Ensure's timeout, the socket's or the lock's deadline.
TimeOut(c) ==
  /\ client[c] \in {"free", "held", "next", "unlock"}
  /\ Returns(c, "timeout")
  /\ UNCHANGED <<instanceVars, files, sharers, bounds, stopperVars>>

-----------------------------------------------------------------------------
(* StopInstance *)

StopGoes(s, p) == stopper' = [stopper EXCEPT ![s] = p]

StopProbes(s) ==
  /\ \/ /\ stopper[s] = "probe" /\ ProbeHeld /\ StopGoes(s, "read")
        /\ found' = [found EXCEPT ![s] = holder]
     \/ /\ UNCHANGED found
        /\ \/ stopper[s] = "probe" /\ ProbeTakes(s) /\ StopGoes(s, "probing")
           \/ stopper[s] = "probing" /\ ProbeReleases(s) /\ StopGoes(s, "none")
           \/ stopper[s] = "check" /\ ProbeHeld /\ StopGoes(s, "reread")
           \/ stopper[s] = "check" /\ ProbeTakes(s) /\ StopGoes(s, "checking")
           \/ stopper[s] = "checking" /\ ProbeReleases(s)
              /\ StopGoes(s, "stopped")
  /\ UNCHANGED <<instanceVars, files, bounds, clientVars, pending, pid>>

StopReads(s) ==
  /\ stopper[s] = "read"
  /\ pid' = [pid EXCEPT ![s] = stateFile]
  /\ StopGoes(s, "request")
  /\ UNCHANGED <<instanceVars, files, sharers, bounds, clientVars, pending,
                 found>>

\* The instance's context is cancelled, which matters until it stops.
Asks(i) ==
  asked' = IF phase[i] \in Stopping THEN asked ELSE asked \cup {i}

\* op stop, or SIGTERM to the PID of the state file.
StopRequests(s) ==
  /\ stopper[s] = "request"
  /\ IF Answers THEN Asks(socket) /\ StopGoes(s, "wait")
     ELSE IF pid[s] # 0 /\ phase[pid[s]] # "exited"
     THEN Asks(pid[s]) /\ StopGoes(s, "check")
     ELSE UNCHANGED asked /\ StopGoes(s, "error")
  /\ UNCHANGED <<phase, tries, exit, files, sharers, bounds, clientVars,
                 pending, pid, found>>

\* The instance closes the connection, or the wait times out.
StopWaits(s) ==
  /\ stopper[s] = "wait"
  /\ StopGoes(s, "check")
  /\ UNCHANGED <<instanceVars, files, sharers, bounds, clientVars, pending, pid,
                 found>>

\* Fault: any change of the state file counts as another instance.
StopRereads_AnyChange(s) ==
  /\ stopper[s] = "reread"
  /\ StopGoes(s, IF stateFile # pid[s] THEN "stopped" ELSE "check")
  /\ UNCHANGED <<instanceVars, files, sharers, bounds, clientVars, pending, pid,
                 found>>

\* Another instance has taken over, or the deadline passes, or look again.
StopRereads(s) ==
  /\ stopper[s] = "reread"
  /\ IF stateFile # 0 /\ pid[s] # 0 /\ stateFile # pid[s]
     THEN StopGoes(s, "stopped")
     ELSE StopGoes(s, "check") \/ StopGoes(s, "error")
  /\ UNCHANGED <<instanceVars, files, sharers, bounds, clientVars, pending, pid,
                 found>>

-----------------------------------------------------------------------------
InstanceStep(i) ==
  \/ Acquire(i) \/ WriteState(i) \/ Listen(i) \/ Proceed(i) \/ Stop(i)
  \/ FinalState(i) \/ CloseServer(i) \/ Release(i)

ClientStep(c) ==
  \/ Query(c) \/ Probe(c) \/ Spawn(c) \/ SpawnFails(c) \/ AwaitSocket(c)
  \/ AttachFails(c) \/ Subscribe(c) \/ NextEvent(c) \/ StreamEnds(c)
  \/ Requery(c) \/ Retry(c) \/ AwaitUnlock(c) \/ Run(c) \/ NotReady(c)

StopperStep(s) ==
  StopProbes(s) \/ StopReads(s) \/ StopRequests(s) \/ StopWaits(s)
  \/ StopRereads(s)

Next ==
  \/ \E i \in Instances :
       InstanceStep(i) \/ LoseBridge(i) \/ Kill(i)
  \/ Up
  \/ \E c \in Clients : ClientStep(c) \/ TimeOut(c)
  \/ \E s \in Stoppers : StopperStep(s)

Spec == Init /\ [][Next]_vars

-----------------------------------------------------------------------------
(* Properties *)

\* An instance that answers holds the lock, and the state file is its own: no
\* leftover of an earlier instance, and nothing another one does on its way out
\* or on its way in, takes its files away.
ServerOwnsFiles ==
  \A i \in Instances : phase[i] \in Answering =>
    holder = i /\ socket = i /\ stateFile = i

\* Something that a user can see goes wrong: an instance fails, is killed or is
\* asked to stop.
Trouble == \E i \in Instances : exit[i] \in {"ok", "error", "killed"}

\* Clients, other starters and probes alone never make a client fail: they all
\* end up at the one instance.  (A child that cannot be started, and a bridge
\* that is lost as the command starts, are results of their own.)
ErrorsHaveCause == \A c \in Clients : client[c] = "error" => Trouble

\* When StopInstance reports success, the instance it found has let go of the
\* workspace.  (Not when the state file was the leftover of a killed one.)
StopMeansStopped ==
  \A s \in Stoppers :
    stopper[s] = "stopped" /\ pid[s] \in {0, found[s]} => holder # found[s]
=============================================================================
