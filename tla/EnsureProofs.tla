---------------------------- MODULE EnsureProofs ----------------------------
(***************************************************************************)
(* Who owns the files of a workspace, and what the success of StopInstance *)
(* means, for every number of processes, retries, kills and lost bridges;  *)
(* and that no more instances are born than the model has room for.        *)
(*                                                                         *)
(* FilesInv ties the phase of each instance to the lock, the state file    *)
(* and the socket; StopInv ties what a stop command has read to the phase  *)
(* of that instance.  In between stands Onward: what no step does to an    *)
(* instance that has been seen with the lock.  BirthsInv gives every       *)
(* instance that a client starts a place of its own among its spawns.      *)
(* CauseInv says what a workspace in which nothing went wrong looks like,  *)
(* so that a client that fails there is a contradiction.                   *)
(***************************************************************************)
EXTENDS Ensure, FiniteSetTheorems, TLAPS

Unseen == {"unborn", "locking"}             \* has never had the lock
Silent == Unseen \cup {"locked"}            \* has never written the state file

FilesInv ==
  /\ phase \in [Instances -> Phases]
  /\ started \in Nat /\ holder \in Pids /\ stateFile \in Pids
  /\ holder # 0 => phase[holder] \in Locked
  /\ \A i \in Instances :
       /\ phase[i] \in Locked => holder = i
       /\ phase[i] \in Answering \cup {"written"} => stateFile = i
       /\ phase[i] \in Answering => socket = i
       /\ phase[i] = "released" => stateFile = 0
       /\ stateFile = i => phase[i] \notin Silent
       /\ i > started => phase[i] = "unborn"

\* An instance never gets the lock twice, and the state file it wrote is its
\* own until it removes it.
Onward ==
  \A i \in Instances :
    /\ phase[i] \notin Unseen =>
         phase'[i] \notin Unseen /\ (holder' = i => holder = i)
    /\ phase[i] \notin Silent => phase'[i] \notin Silent
    /\ phase[i] \notin Silent /\ (phase[i] = "closed" => stateFile = i) =>
         (phase'[i] = "closed" => stateFile' = i)

After == {"read", "request", "wait", "check", "checking", "reread", "stopped"}

StopInv ==
  /\ stopper \in [Stoppers -> After \cup {"probe", "probing", "none", "error"}]
  /\ pid \in [Stoppers -> Pids] /\ found \in [Stoppers -> Pids]
  /\ \A s \in Stoppers :
       /\ stopper[s] \in After => found[s] # 0
       /\ found[s] # 0 => phase[found[s]] \notin Unseen
       /\ pid[s] # 0 =>
            /\ phase[pid[s]] \notin Silent
            /\ phase[pid[s]] = "closed" => stateFile = pid[s]
       /\ stopper[s] \in {"checking", "stopped"} /\ pid[s] \in {0, found[s]} =>
            holder # found[s]

fileVars == <<phase, started, holder, stateFile, socket>>

-----------------------------------------------------------------------------
\* Instances are numbered from 1; 0 is none of them.
LEMMA InstanceNumbers ==
  /\ Instances \subseteq Nat \ {0}
  /\ Pids = Instances \cup {0}
<1>1. Cardinality(Clients) \in Nat
  BY EnsureAssumption, FS_CardinalityType
<1>2. MaxUps + MaxSpawns * Cardinality(Clients) \in Nat
  BY <1>1, EnsureAssumption
<1> QED
  BY <1>2 DEF Instances, Pids

LEMMA FilesInit == Init => FilesInv
  BY InstanceNumbers DEF Init, FilesInv, Phases, Locked, Stopping, Answering,
    Silent, Unseen

\* A step that leaves the lock, the files and the phases alone.
LEMMA FilesStutter ==
  ASSUME FilesInv, UNCHANGED fileVars
  PROVE  FilesInv' /\ Onward
  BY DEF FilesInv, fileVars, Onward

\* The steps of an instance.
LEMMA FilesInstance ==
  ASSUME FilesInv, NEW i \in Instances,
         InstanceStep(i) \/ LoseBridge(i) \/ Kill(i)
  PROVE  FilesInv' /\ Onward
<1> USE InstanceNumbers DEF FilesInv, Onward, Phases, Locked, Stopping,
     Answering, Silent, Unseen
<1>1. CASE Acquire(i)
  BY <1>1 DEF Acquire, Moves
<1>2. CASE WriteState(i)
  BY <1>2 DEF WriteState, Moves, bounds
<1>3. CASE Listen(i)
  BY <1>3 DEF Listen, Moves, bounds
<1>4. CASE Proceed(i)
  BY <1>4 DEF Proceed, Publish, files, bounds
<1>5. CASE Stop(i)
  BY <1>5 DEF Stop, Publish, files, bounds
<1>6. CASE FinalState(i)
  BY <1>6 DEF FinalState, Publish, files, bounds
<1>7. CASE CloseServer(i)
  BY <1>7 DEF CloseServer, Moves, bounds
<1>8. CASE Release(i)
  BY <1>8 DEF Release, Moves, bounds
<1>9. CASE LoseBridge(i)
  BY <1>9 DEF LoseBridge, Publish, files
<1>10. CASE Kill(i)
  BY <1>10 DEF Kill
<1> QED
  BY <1>1, <1>2, <1>3, <1>4, <1>5, <1>6, <1>7, <1>8, <1>9, <1>10
  DEF InstanceStep

\* A new instance, of a client or of another process.
LEMMA FilesBirth ==
  ASSUME FilesInv, started' = started + 1, Moves(started', "locking"),
         UNCHANGED files
  PROVE  FilesInv' /\ Onward
<1> DEFINE n == started + 1
<1>1. /\ started' = n /\ phase' = [phase EXCEPT ![n] = "locking"]
      /\ holder' = holder /\ stateFile' = stateFile /\ socket' = socket
  BY DEF Moves, files
<1>2. n \in Nat /\ n > started
  BY DEF FilesInv
<1>3. CASE n \notin Instances
  <2>1. phase' \in [Instances -> Phases]
    BY <1>1, <1>3 DEF FilesInv
  <2>2. \A i \in Instances : phase'[i] = phase[i]
    BY <1>1, <1>3 DEF FilesInv
  <2> QED
    BY <1>1, <1>2, <2>1, <2>2, InstanceNumbers DEF FilesInv, Onward
<1>4. CASE n \in Instances
  <2>1. phase[n] = "unborn"
    BY <1>2, <1>4 DEF FilesInv
  <2>2. \A i \in Instances : phase'[i] = IF i = n THEN "locking" ELSE phase[i]
    BY <1>1 DEF FilesInv
  <2>3. phase' \in [Instances -> Phases]
    BY <1>1 DEF FilesInv, Phases
  <2> HIDE DEF n
  <2>4. holder # n /\ stateFile # n
    BY <2>1, <1>4, InstanceNumbers
    DEF FilesInv, Locked, Stopping, Answering, Silent, Unseen
  <2>5. holder # 0 => phase'[holder] \in Locked
    BY <2>2, <2>4, InstanceNumbers DEF FilesInv
  <2> QED
    BY <1>1, <1>2, <1>4, <2>1, <2>2, <2>3, <2>4, <2>5, InstanceNumbers
    DEF FilesInv, Onward, Locked, Stopping, Answering, Silent, Unseen
<1> QED
  BY <1>3, <1>4

\* The steps of a client.
LEMMA FilesClient ==
  ASSUME FilesInv, NEW c \in Clients, ClientStep(c) \/ TimeOut(c)
  PROVE  FilesInv' /\ Onward
<1>1. CASE Spawn(c)
  BY <1>1, FilesBirth DEF Spawn
<1>2. CASE ~Spawn(c)
  <2>1. UNCHANGED fileVars
    BY <1>2 DEF fileVars, ClientStep, Query, Probe, AwaitSocket, AttachFails,
      SpawnFails,
      Subscribe, NextEvent, StreamEnds, Requery, Retry, AwaitUnlock, Run,
      NotReady, TimeOut, instanceVars, files, bounds
  <2> QED
    BY <2>1, FilesStutter
<1> QED
  BY <1>1, <1>2

\* The steps of a stop command.
LEMMA FilesStopper ==
  ASSUME FilesInv, NEW s \in Stoppers, StopperStep(s)
  PROVE  UNCHANGED fileVars
  BY DEF fileVars, StopperStep, StopProbes, StopReads, StopRequests, StopWaits,
    StopRereads, instanceVars, files, bounds

LEMMA FilesStep ==
  ASSUME FilesInv, [Next]_vars
  PROVE  FilesInv' /\ Onward
<1>1. ASSUME NEW i \in Instances, InstanceStep(i) \/ LoseBridge(i) \/ Kill(i)
      PROVE  FilesInv' /\ Onward
  BY <1>1, FilesInstance
<1>2. CASE Up
  BY <1>2, FilesBirth DEF Up
<1>3. ASSUME NEW c \in Clients, ClientStep(c) \/ TimeOut(c)
      PROVE  FilesInv' /\ Onward
  BY <1>3, FilesClient
<1>4. ASSUME NEW s \in Stoppers, StopperStep(s)
      PROVE  FilesInv' /\ Onward
  BY <1>4, FilesStopper, FilesStutter
<1>5. CASE UNCHANGED vars
  BY <1>5, FilesStutter DEF vars, fileVars, instanceVars, files, bounds
<1> QED
  BY <1>1, <1>2, <1>3, <1>4, <1>5 DEF Next

LEMMA FilesInvariant == Spec => []FilesInv
<1>1. FilesInv /\ [Next]_vars => FilesInv'
  BY FilesStep
<1> QED
  BY FilesInit, <1>1, PTL DEF Spec

\* An instance that answers on the socket holds the lock, and the socket and the
\* state file are its own, whatever others start, stop, leave behind or remove.
THEOREM ServersOwnTheirFiles == Spec => []ServerOwnsFiles
<1>1. FilesInv => ServerOwnsFiles
  BY DEF FilesInv, ServerOwnsFiles, Locked
<1> QED
  BY FilesInvariant, <1>1, PTL

-----------------------------------------------------------------------------
LEMMA StopInit == Init => StopInv
  BY InstanceNumbers DEF Init, StopInv, After

\* What other processes do leaves a stop command's knowledge true.
LEMMA StopOthers ==
  ASSUME FilesInv, StopInv, Onward, UNCHANGED stopperVars
  PROVE  StopInv'
<1>1. stopper' = stopper /\ pid' = pid /\ found' = found
  BY DEF stopperVars
<1>2. ASSUME NEW s \in Stoppers, found[s] # 0
      PROVE  /\ phase'[found[s]] \notin Unseen
             /\ holder' = found[s] => holder = found[s]
  <2>1. found[s] \in Instances
    BY <1>2, InstanceNumbers DEF StopInv
  <2>2. phase[found[s]] \notin Unseen
    BY <1>2 DEF StopInv
  <2> QED
    BY <2>1, <2>2 DEF Onward
<1>3. ASSUME NEW s \in Stoppers, pid[s] # 0
      PROVE  /\ phase'[pid[s]] \notin Silent
             /\ phase'[pid[s]] = "closed" => stateFile' = pid[s]
  <2>1. pid[s] \in Instances
    BY <1>3, InstanceNumbers DEF StopInv
  <2>2. /\ phase[pid[s]] \notin Silent
        /\ phase[pid[s]] = "closed" => stateFile = pid[s]
    BY <1>3 DEF StopInv
  <2> QED
    BY <2>1, <2>2, Zenon DEF Onward
<1>4. ASSUME NEW s \in Stoppers,
             stopper[s] \in {"checking", "stopped"}, pid[s] \in {0, found[s]}
      PROVE  holder' # found[s]
  BY <1>2, <1>4 DEF StopInv, After
<1> QED
  BY <1>1, <1>2, <1>3, <1>4 DEF StopInv

\* What a stop command does itself.
LEMMA StopOwn ==
  ASSUME FilesInv, StopInv, NEW s \in Stoppers, StopperStep(s)
  PROVE  StopInv'
<1>0. UNCHANGED fileVars
  BY FilesStopper
<1> USE <1>0, InstanceNumbers DEF StopInv, After, StopGoes, fileVars
<1>1. CASE StopProbes(s)
  BY <1>1 DEF StopProbes, ProbeHeld, ProbeTakes, ProbeReleases, FilesInv,
    Unseen, Locked, Stopping, Answering
<1>2. CASE StopReads(s)
  BY <1>2 DEF StopReads, FilesInv
<1>3. CASE StopRequests(s)
  BY <1>3 DEF StopRequests
<1>4. CASE StopWaits(s)
  BY <1>4 DEF StopWaits
<1>5. CASE StopRereads(s)
  BY <1>5 DEF StopRereads, FilesInv, Silent, Unseen, Locked, Stopping, Answering
<1> QED
  BY <1>1, <1>2, <1>3, <1>4, <1>5 DEF StopperStep

LEMMA StopStep ==
  ASSUME FilesInv, StopInv, [Next]_vars
  PROVE  StopInv'
<1>1. CASE \E s \in Stoppers : StopperStep(s)
  BY <1>1, StopOwn
<1>2. CASE ~\E s \in Stoppers : StopperStep(s)
  <2>1. UNCHANGED stopperVars
    BY <1>2 DEF Next, vars, stopperVars, InstanceStep, Acquire, WriteState,
      Listen, Proceed, Stop, FinalState, CloseServer, Release, LoseBridge,
      Kill, Up, ClientStep, Query, Probe, Spawn, AwaitSocket, AttachFails,
      SpawnFails,
      Subscribe, NextEvent, StreamEnds, Requery, Retry, AwaitUnlock, Run,
      NotReady, TimeOut
  <2> QED
    BY <2>1, FilesStep, StopOthers
<1> QED
  BY <1>1, <1>2

LEMMA StopInvariant == Spec => []StopInv
<1>1. FilesInv /\ StopInv /\ [Next]_vars => StopInv'
  BY StopStep
<1> QED
  BY StopInit, FilesInvariant, <1>1, PTL DEF Spec

\* When StopInstance reports success, the instance it found has let go of the
\* workspace, unless the state file it read was a killed instance's.
THEOREM StopHasStopped == Spec => []StopMeansStopped
<1>1. StopInv => StopMeansStopped
  BY DEF StopInv, StopMeansStopped
<1> QED
  BY StopInvariant, <1>1, PTL

-----------------------------------------------------------------------------
(* Types.  That an instance's number is one is the bound on how many are ever *)
(* started: each that a client started has a place of its own among those of *)
(* the client's, which it never uses again, also when EnsureAndRun returns.  *)

Ended == {"done", "lost", "nospawn", "error", "timeout"}
Places == Clients \X (1..MaxSpawns)

\* The place p was used by its client.
Used(p) == client[p[1]] \in Ended \/ p[2] <= spawns[p[1]]

BirthsInv ==
  /\ ups \in 0..MaxUps /\ started - ups \in Nat
  /\ \E f \in Injection(1..(started - ups), Places) :
       \A n \in 1..(started - ups) : Used(f[n])

Positions == {"query", "probe", "probing", "free", "held", "subscribe", "next",
              "requery", "gone", "unlock", "unlocking", "run"} \cup Ended

ClientsInv ==
  /\ client \in [Clients -> Positions]
  /\ attempt \in [Clients -> 0..MaxAttempts]
  /\ spawns \in [Clients -> 0..MaxSpawns]
  /\ child \in [Clients -> Pids] /\ followed \in [Clients -> Pids]
  /\ pending \in [Clients -> Seq(Answering)]
  /\ \A c \in Clients :
       client[c] \in {"unlock", "unlocking"} => attempt[c] < MaxAttempts

OthersInv ==
  /\ tries \in [Instances -> 0..MaxTries]
  /\ exit \in [Instances -> {"none", "ok", "error", "running", "killed"}]
  /\ asked \subseteq Instances /\ socket \in Pids
  /\ sharers \subseteq Clients \cup Stoppers /\ faults \in 0..MaxFaults

LEMMA EnsureBounds ==
  /\ MaxSpawns \in Nat /\ MaxAttempts \in Nat /\ MaxTries \in Nat
  /\ MaxUps \in Nat /\ MaxFaults \in Nat /\ Cardinality(Clients) \in Nat
  BY EnsureAssumption, FS_CardinalityType

\* No more instances than places.
LEMMA PlacesBound ==
  ASSUME NEW n \in Nat, NEW f \in Injection(1..n, Places)
  PROVE  n <= MaxSpawns * Cardinality(Clients)
<1>1. IsFiniteSet(1..MaxSpawns) /\ Cardinality(1..MaxSpawns) = MaxSpawns
  <2>1. MaxSpawns \in Nat
    BY EnsureBounds
  <2>2. /\ IsFiniteSet(1..MaxSpawns)
        /\ Cardinality(1..MaxSpawns) = IF 1 > MaxSpawns THEN 0
                                      ELSE MaxSpawns - 1 + 1
    BY <2>1, FS_Interval
  <2> QED
    BY <2>1, <2>2
<1>2. /\ IsFiniteSet(Places)
      /\ Cardinality(Places) = Cardinality(Clients) * MaxSpawns
  BY <1>1, EnsureAssumption, FS_Product DEF Places
<1>3. Cardinality(1..n) <= Cardinality(Places)
  BY <1>2, FS_Injection
<1>4. Cardinality(1..n) = n
  <2>1. Cardinality(1..n) = IF 1 > n THEN 0 ELSE n - 1 + 1
    BY FS_Interval
  <2> QED
    BY <2>1
<1>5. Cardinality(Clients) * MaxSpawns = MaxSpawns * Cardinality(Clients)
  BY EnsureBounds
<1> QED
  BY <1>2, <1>3, <1>4, <1>5

LEMMA BirthsBound ==
  ASSUME NEW s \in Nat, NEW u \in 0..MaxUps, s - u \in Nat,
         NEW f \in Injection(1..(s - u), Places)
  PROVE  s \in Pids
<1>1. s - u <= MaxSpawns * Cardinality(Clients)
  BY PlacesBound
<1>2. MaxSpawns * Cardinality(Clients) \in Nat
  BY EnsureBounds
<1>3. s <= MaxUps + MaxSpawns * Cardinality(Clients)
  <2> DEFINE p == MaxSpawns * Cardinality(Clients)
  <2>1. p \in Nat /\ s - u <= p
    BY <1>1, <1>2
  <2> HIDE DEF p
  <2>2. s <= MaxUps + p
    BY <2>1, EnsureBounds
  <2> QED
    BY <2>2 DEF p
<1> QED
  BY <1>2, <1>3, EnsureBounds DEF Pids, Instances

\* Used places stay used.
LEMMA BirthsKept ==
  ASSUME BirthsInv, ClientsInv, UNCHANGED <<started, ups>>,
         \A c \in Clients :
           \/ client'[c] \in Ended
           \/ client[c] \notin Ended /\ spawns'[c] = spawns[c]
  PROVE  BirthsInv'
<1>1. PICK f \in Injection(1..(started - ups), Places) :
        \A n \in 1..(started - ups) : Used(f[n])
  BY DEF BirthsInv
<1>2. \A n \in 1..(started - ups) : f[n] \in Places
  BY <1>1 DEF Injection
<1>3. ASSUME NEW n \in 1..(started - ups)
      PROVE  client'[f[n][1]] \in Ended \/ f[n][2] <= spawns'[f[n][1]]
  <2>1. f[n][1] \in Clients
    BY <1>2 DEF Places
  <2>2. client[f[n][1]] \in Ended \/ f[n][2] <= spawns[f[n][1]]
    BY <1>1 DEF Used
  <2> QED
    BY <2>1, <2>2
<1> QED
  BY <1>1, <1>3 DEF BirthsInv, Used

\* An instance of another process takes no client's place.
LEMMA BirthsUp ==
  ASSUME BirthsInv, started \in Nat, Up
  PROVE  BirthsInv' /\ started' \in Pids
<1>1. /\ started' = started + 1 /\ ups' = ups + 1 /\ ups' \in 0..MaxUps
      /\ client' = client /\ spawns' = spawns /\ started' \in Nat
  BY EnsureBounds DEF Up, clientVars, BirthsInv
<1>2. started' - ups' = started - ups
  BY <1>1, EnsureBounds DEF BirthsInv
<1>3. PICK f \in Injection(1..(started - ups), Places) :
        \A n \in 1..(started - ups) : Used(f[n])
  BY DEF BirthsInv
<1>4. BirthsInv'
  BY <1>1, <1>2, <1>3 DEF BirthsInv, Used
<1>5. started' \in Pids
  BY <1>1, <1>2, <1>3, BirthsBound DEF BirthsInv
<1> QED
  BY <1>4, <1>5

LEMMA BirthsSpawn ==
  ASSUME BirthsInv, ClientsInv, started \in Nat, NEW c \in Clients, Spawn(c)
  PROVE  BirthsInv' /\ started' \in Pids
<1> DEFINE m == started - ups
<1>1. /\ started' = started + 1 /\ ups' = ups /\ started' \in Nat
      /\ client[c] = "free" /\ spawns[c] < MaxSpawns
      /\ client' = [client EXCEPT ![c] = "query"]
      /\ spawns' = [spawns EXCEPT ![c] = @ + 1]
  BY DEF Spawn, NeedsChild, Goes
<1>2. m \in Nat /\ started' - ups' = m + 1
  BY <1>1, EnsureBounds DEF BirthsInv
<1>3. PICK f \in Injection(1..m, Places) : \A n \in 1..m : Used(f[n])
  BY DEF BirthsInv
<1> HIDE DEF m
<1> DEFINE p == <<c, spawns[c] + 1>>
<1> DEFINE g == [n \in 1..(m + 1) |-> IF n = m + 1 THEN p ELSE f[n]]
<1>4. /\ f \in [1..m -> Places]
      /\ \A a, b \in 1..m : f[a] = f[b] => a = b
  BY <1>3 DEF Injection, IsInjective
<1>5. p \in Places
  BY <1>1, EnsureBounds DEF ClientsInv, Places
<1>6. \A n \in 1..(m + 1) : n # m + 1 => n \in 1..m
  BY <1>2
<1>7. ASSUME NEW n \in 1..m
      PROVE  f[n] # p
  <2>1. CASE f[n][1] # c
    BY <2>1
  <2>2. CASE f[n][1] = c
    <3>1. f[n][2] <= spawns[c]
      BY <1>1, <1>3, <2>2 DEF Used, Ended
    <3>2. f[n][2] \in Nat /\ spawns[c] \in Nat
      BY <1>4, EnsureBounds DEF Places, ClientsInv
    <3> QED
      BY <3>1, <3>2
  <2> QED
    BY <2>1, <2>2
<1>8. g \in Injection(1..(m + 1), Places)
  <2>1. g \in [1..(m + 1) -> Places]
    BY <1>4, <1>5, <1>6
  <2>2. ASSUME NEW a \in 1..(m + 1), NEW b \in 1..(m + 1), g[a] = g[b]
        PROVE  a = b
    BY <1>4, <1>6, <1>7, <2>2
  <2> HIDE DEF g
  <2> QED
    BY <2>1, <2>2 DEF Injection, IsInjective
<1>9. ASSUME NEW n \in 1..(m + 1)
      PROVE  client'[g[n][1]] \in Ended \/ g[n][2] <= spawns'[g[n][1]]
  <2>1. CASE n = m + 1
    <3>1. g[n][1] = c /\ g[n][2] = spawns[c] + 1 /\ spawns'[c] = spawns[c] + 1
      BY <1>1, <2>1 DEF ClientsInv
    <3>2. spawns[c] + 1 \in Nat
      BY EnsureBounds DEF ClientsInv
    <3> QED
      BY <3>1, <3>2
  <2>2. CASE n # m + 1
    <3>1. n \in 1..m /\ g[n] = f[n]
      BY <1>6, <2>2
    <3>2. f[n][1] \in Clients /\ f[n][2] \in Nat
      BY <1>4, <3>1, EnsureBounds DEF Places
    <3>3. client[f[n][1]] \in Ended \/ f[n][2] <= spawns[f[n][1]]
      BY <1>3, <3>1 DEF Used
    <3>4. CASE f[n][1] = c
      <4>1. f[n][2] <= spawns[c] /\ spawns'[c] = spawns[c] + 1
        BY <1>1, <3>3, <3>4 DEF ClientsInv, Ended
      <4>2. spawns[c] \in Nat
        BY EnsureBounds DEF ClientsInv
      <4> QED
        BY <3>1, <3>2, <3>4, <4>1, <4>2
    <3>5. CASE f[n][1] # c
      BY <1>1, <3>1, <3>2, <3>3, <3>5 DEF ClientsInv
    <3> QED
      BY <3>4, <3>5
  <2> QED
    BY <2>1, <2>2
<1> HIDE DEF g
<1>10. BirthsInv'
  BY <1>1, <1>2, <1>8, <1>9 DEF BirthsInv, Used
<1>11. started' \in Pids
  <2>1. ups' \in 0..MaxUps /\ started' - ups' \in Nat
    BY <1>1, <1>2 DEF BirthsInv
  <2> QED
    BY <1>1, <1>2, <1>8, <2>1, BirthsBound
<1> QED
  BY <1>10, <1>11

\* An event for those who follow the instance.
LEMMA PublishTypes ==
  ASSUME ClientsInv, NEW i \in Instances, NEW s \in Answering, Publish(i, s)
  PROVE  pending' \in [Clients -> Seq(Answering)]
<1>1. \A c \in Clients : Append(pending[c], s) \in Seq(Answering)
  BY DEF ClientsInv
<1> QED
  BY <1>1 DEF Publish, ClientsInv

LEMMA TypesInstance ==
  ASSUME FilesInv, ClientsInv, OthersInv, NEW i \in Instances,
         InstanceStep(i) \/ LoseBridge(i) \/ Kill(i)
  PROVE  ClientsInv' /\ OthersInv' /\ UNCHANGED clientVars
<1>1. pending' \in [Clients -> Seq(Answering)]
  <2>1. CASE \E s \in Answering : Publish(i, s)
    BY <2>1, PublishTypes
  <2>2. CASE UNCHANGED pending
    BY <2>2 DEF ClientsInv
  <2>3. CASE Kill(i)
    <3>1. <<>> \in Seq(Answering)
      OBVIOUS
    <3> QED
      BY <2>3, <3>1 DEF Kill, ClientsInv
  <2>4. \/ \E s \in Answering : Publish(i, s)
        \/ UNCHANGED pending
        \/ Kill(i)
    BY DEF InstanceStep, Acquire, WriteState, Listen, Proceed, Stop, FinalState,
      CloseServer, Release, LoseBridge, Moves, Answering
  <2> QED
    BY <2>1, <2>2, <2>3, <2>4
<1>2. UNCHANGED clientVars
  BY DEF InstanceStep, Acquire, WriteState, Listen, Proceed, Stop, FinalState,
    CloseServer, Release, LoseBridge, Kill
<1>3. ClientsInv'
  BY <1>1, <1>2 DEF ClientsInv, clientVars
<1>4. tries' \in [Instances -> 0..MaxTries]
  <2>1. CASE Acquire(i)
    <3>1. tries[i] < MaxTries => tries[i] + 1 \in 0..MaxTries
      BY EnsureBounds DEF OthersInv
    <3> QED
      BY <2>1, <3>1, EnsureBounds DEF Acquire, OthersInv
  <2>2. CASE ~Acquire(i)
    BY <2>2 DEF InstanceStep, WriteState, Listen, Proceed, Stop, FinalState,
      CloseServer, Release, LoseBridge, Kill, OthersInv
  <2> QED
    BY <2>1, <2>2
<1>5. exit' \in [Instances -> {"none", "ok", "error", "running", "killed"}]
  BY DEF InstanceStep, Acquire, WriteState, Listen, Proceed, Stop, FinalState,
    CloseServer, Release, LoseBridge, Kill, OthersInv
<1>6. asked' \subseteq Instances /\ sharers' \subseteq Clients \cup Stoppers
  BY DEF InstanceStep, Acquire, WriteState, Listen, Proceed, Stop, FinalState,
    CloseServer, Release, LoseBridge, Kill, OthersInv
<1>7. socket' \in Pids
  BY DEF InstanceStep, Acquire, WriteState, Listen, Proceed, Stop, FinalState,
    CloseServer, Release, LoseBridge, Kill, OthersInv, files, Pids
<1>8. faults' \in 0..MaxFaults
  <2>1. \/ faults' = faults
        \/ faults' = faults + 1 /\ faults < MaxFaults
    BY DEF InstanceStep, Acquire, WriteState, Listen, Proceed, Stop, FinalState,
      CloseServer, Release, LoseBridge, Kill, bounds, OthersInv, FilesInv
  <2> QED
    BY <2>1, EnsureBounds DEF OthersInv
<1> QED
  BY <1>2, <1>3, <1>4, <1>5, <1>6, <1>7, <1>8 DEF OthersInv

\* What a client does with what it asked the socket for.
LEMMA TypesClient ==
  ASSUME FilesInv, ClientsInv, OthersInv, NEW c \in Clients,
         ClientStep(c) \/ TimeOut(c), Spawn(c) => started' \in Pids
  PROVE  ClientsInv' /\ OthersInv'
<1>1. /\ 0 \in 0..MaxAttempts /\ 0 \in 0..MaxSpawns /\ 0 \in Pids
      /\ <<>> \in Seq(Answering)
  BY EnsureBounds DEF Pids
<1>2. OthersInv'
  BY DEF ClientStep, Query, Probe, Spawn, AwaitSocket, AttachFails,
    SpawnFails, Subscribe,
    NextEvent, StreamEnds, Requery, Retry, AwaitUnlock, Run, NotReady, TimeOut,
    ProbeHeld, ProbeTakes, ProbeReleases, OthersInv, instanceVars, files, bounds
<1> SUFFICES ClientsInv'
  BY <1>2
<1> USE DEF ClientsInv, Goes, Returns, Positions, Ended
<1>3. CASE \E p \in Ended : Returns(c, p)
  <2>1. PICK p \in Ended : Returns(c, p)
    BY <1>3
  <2>2. /\ client' \in [Clients -> Positions]
        /\ attempt' \in [Clients -> 0..MaxAttempts]
        /\ spawns' \in [Clients -> 0..MaxSpawns]
        /\ child' \in [Clients -> Pids] /\ followed' \in [Clients -> Pids]
        /\ pending' \in [Clients -> Seq(Answering)]
    BY <1>1, <2>1
  <2>3. ASSUME NEW d \in Clients, client'[d] \in {"unlock", "unlocking"}
        PROVE  attempt'[d] < MaxAttempts
    BY <2>1, <2>3
  <2> QED
    BY <2>2, <2>3
<1>13. CASE Query(c) /\ ~\E p \in Ended : Returns(c, p)
  <2>1. /\ client' \in [Clients -> Positions]
        /\ client'[c] \notin {"unlock", "unlocking"}
        /\ \A d \in Clients : d # c => client'[d] = client[d]
        /\ UNCHANGED <<attempt, spawns, child, followed, pending>>
    BY <1>13 DEF Query
  <2> QED
    BY <2>1
<1>4. CASE Probe(c) \/ AwaitSocket(c) \/ StreamEnds(c)
  BY <1>4 DEF Probe, AwaitSocket, StreamEnds
<1>5. CASE Spawn(c)
  <2>1. spawns[c] + 1 \in 0..MaxSpawns
    BY <1>5, EnsureBounds DEF Spawn
  <2> QED
    BY <1>5, <2>1 DEF Spawn, Moves
<1>6. CASE AttachFails(c) \/ SpawnFails(c) \/ Run(c) \/ TimeOut(c)
  <2>1. \E p \in Ended : Returns(c, p)
    BY <1>6 DEF AttachFails, SpawnFails, Run, TimeOut
  <2> QED
    BY <1>3, <2>1
<1>7. CASE Subscribe(c)
  <2>1. Answers => <<phase[socket]>> \in Seq(Answering)
    BY DEF Answers
  <2> QED
    BY <1>7, <2>1, ZenonT(30) DEF Subscribe, OthersInv
<1>8. CASE NextEvent(c) /\ ~\E p \in Ended : Returns(c, p)
  <2>1. pending[c] # <<>> => Tail(pending[c]) \in Seq(Answering)
    OBVIOUS
  <2>2. /\ client' \in [Clients -> Positions]
        /\ client'[c] \notin {"unlock", "unlocking"}
        /\ \A d \in Clients : d # c => client'[d] = client[d]
        /\ pending' \in [Clients -> Seq(Answering)]
        /\ UNCHANGED <<attempt, spawns, child, followed>>
    BY <1>8, <2>1, ZenonT(30) DEF NextEvent
  <2> QED
    BY <2>2
<1>9. CASE Requery(c) /\ ~\E p \in Ended : Returns(c, p)
  BY <1>9 DEF Requery
<1>10. CASE Retry(c)
  <2>1. CASE attempt[c] < MaxAttempts /\ Goes(c, "unlock") /\ Unfollow(c)
    BY <1>1, <1>10, <2>1 DEF Retry, Unfollow
  <2>2. CASE Returns(c, "error")
    BY <1>3, <2>2
  <2> QED
    BY <1>10, <2>1, <2>2 DEF Retry
<1>11. CASE AwaitUnlock(c)
  <2>1. client[c] = "unlocking" => attempt[c] + 1 \in 0..MaxAttempts
    BY EnsureBounds
  <2> QED
    BY <1>1, <1>11, <2>1, ZenonT(30) DEF AwaitUnlock
<1>12. CASE NotReady(c)
  BY <1>1, <1>12 DEF NotReady, Unfollow
<1> QED
  BY <1>3, <1>4, <1>5, <1>6, <1>7, <1>8, <1>9, <1>10, <1>11, <1>12, <1>13
    DEF ClientStep

\* Ended clients take no step, and only a new child takes a place.
LEMMA ClientPlaces ==
  ASSUME ClientsInv, NEW c \in Clients, ClientStep(c) \/ TimeOut(c), ~Spawn(c)
  PROVE  /\ UNCHANGED <<started, ups>>
         /\ \A d \in Clients :
              \/ client'[d] \in Ended
              \/ client[d] \notin Ended /\ spawns'[d] = spawns[d]
<1> USE DEF ClientsInv, Goes, Returns, Ended, bounds
<1> QED
  BY DEF ClientStep, Query, Probe, AwaitSocket, AttachFails,
    SpawnFails, Subscribe,
    NextEvent, StreamEnds, Requery, Retry, AwaitUnlock, Run, NotReady, TimeOut

LEMMA TypesStopper ==
  ASSUME StopInv, ClientsInv, OthersInv, NEW s \in Stoppers, StopperStep(s)
  PROVE  ClientsInv' /\ OthersInv' /\ UNCHANGED <<clientVars, bounds>>
<1>1. UNCHANGED <<clientVars, bounds, tries, exit, pending, files>>
  BY DEF StopperStep, StopProbes, StopReads, StopRequests, StopWaits,
    StopRereads, instanceVars
<1>2. sharers' \subseteq Clients \cup Stoppers
  BY DEF StopperStep, StopProbes, StopReads, StopRequests, StopWaits,
    StopRereads, ProbeHeld, ProbeTakes, ProbeReleases, OthersInv
<1>3. asked' \subseteq Instances
  BY DEF StopperStep, StopProbes, StopReads, StopRequests, StopWaits,
    StopRereads, Asks, Answers, OthersInv, StopInv, Pids, instanceVars
<1> QED
  BY <1>1, <1>2, <1>3 DEF ClientsInv, OthersInv, clientVars, bounds, files

TypesInv == ClientsInv /\ OthersInv /\ BirthsInv

LEMMA TypesInit == Init => TypesInv
<1> SUFFICES ASSUME Init PROVE TypesInv
  OBVIOUS
<1> USE DEF Init
<1>1. /\ 0 \in 0..MaxAttempts /\ 0 \in 0..MaxSpawns /\ 0 \in Pids
      /\ 0 \in 0..MaxTries /\ 0 \in 0..MaxUps /\ 0 \in 0..MaxFaults
      /\ <<>> \in Seq(Answering)
  BY EnsureBounds DEF Pids
<1>2. ClientsInv
  BY <1>1 DEF ClientsInv, Positions
<1>3. OthersInv
  BY <1>1 DEF OthersInv
<1>4. BirthsInv
  <2>1. started - ups = 0 /\ 1..0 = {}
    OBVIOUS
  <2>2. [n \in {} |-> 0] \in Injection({}, Places)
    BY DEF Injection, IsInjective
  <2> QED
    BY <1>1, <2>1, <2>2 DEF BirthsInv
<1> QED
  BY <1>2, <1>3, <1>4 DEF TypesInv

LEMMA TypesStep ==
  ASSUME FilesInv, StopInv, TypesInv, [Next]_vars
  PROVE  TypesInv'
<1> USE DEF TypesInv
<1>0. started \in Nat
  BY DEF FilesInv
<1>1. ASSUME UNCHANGED <<client, spawns, started, ups>>
      PROVE  BirthsInv'
  BY <1>1 DEF BirthsInv, Used
<1>2. ASSUME NEW i \in Instances, InstanceStep(i) \/ LoseBridge(i) \/ Kill(i)
      PROVE  TypesInv'
  <2>1. ClientsInv' /\ OthersInv' /\ UNCHANGED clientVars
    BY <1>2, TypesInstance
  <2>2. UNCHANGED <<started, ups>>
    BY <1>2 DEF InstanceStep, Acquire, WriteState, Listen, Proceed, Stop,
      FinalState, CloseServer, Release, LoseBridge, Kill, bounds
  <2> QED
    BY <1>1, <2>1, <2>2 DEF clientVars
<1>3. CASE Up
  <2>1. ClientsInv' /\ OthersInv'
    BY <1>3 DEF Up, Moves, ClientsInv, OthersInv, clientVars, files
  <2> QED
    BY <1>0, <1>3, <2>1, BirthsUp
<1>4. ASSUME NEW c \in Clients, ClientStep(c) \/ TimeOut(c)
      PROVE  TypesInv'
  <2>1. CASE Spawn(c)
    <3>1. BirthsInv' /\ started' \in Pids
      BY <1>0, <2>1, BirthsSpawn
    <3> QED
      BY <1>4, <3>1, TypesClient
  <2>2. CASE ~Spawn(c)
    <3>1. BirthsInv'
      BY <1>4, <2>2, ClientPlaces, BirthsKept
    <3> QED
      BY <1>4, <2>2, <3>1, TypesClient
  <2> QED
    BY <2>1, <2>2
<1>5. ASSUME NEW s \in Stoppers, StopperStep(s)
      PROVE  TypesInv'
  <2>1. ClientsInv' /\ OthersInv' /\ UNCHANGED <<clientVars, bounds>>
    BY <1>5, TypesStopper
  <2> QED
    BY <1>1, <2>1 DEF clientVars, bounds
<1>6. CASE UNCHANGED vars
  <2>1. ClientsInv' /\ OthersInv'
    BY <1>6 DEF ClientsInv, OthersInv, vars, clientVars, instanceVars, files,
      bounds
  <2> QED
    BY <1>1, <1>6, <2>1 DEF vars, clientVars, bounds
<1> QED
  BY <1>2, <1>3, <1>4, <1>5, <1>6 DEF Next

LEMMA TypesInvariant == Spec => []TypesInv
<1>1. TypesInv /\ FilesInv /\ StopInv /\ [Next]_vars => TypesInv'
  BY TypesStep
<1> QED
  BY TypesInit, FilesInvariant, StopInvariant, <1>1, PTL DEF Spec

\* The variables of all the processes of a workspace keep their types: a client
\* starts no more instances and makes no more attempts than it may, and there
\* are no more instances than its and the others' starts allow.
THEOREM TypeCorrect == Spec => []TypeOK
<1>1. TypesInv /\ FilesInv /\ StopInv => TypeOK
  <2> SUFFICES ASSUME TypesInv, FilesInv, StopInv PROVE TypeOK
    OBVIOUS
  <2>1. started \in Pids
    <3>1. PICK f \in Injection(1..(started - ups), Places) : TRUE
      BY DEF TypesInv, BirthsInv
    <3> QED
      BY <3>1, BirthsBound DEF TypesInv, BirthsInv, FilesInv
  <2>2. ups \in 0..MaxUps /\ faults \in 0..MaxFaults
    BY DEF TypesInv, BirthsInv, OthersInv
  <2>3. stopper \in [Stoppers -> {"probe", "probing", "read", "request", "wait",
          "check", "checking", "reread", "stopped", "none", "error"}]
    BY DEF StopInv, After
  <2>4. client \in [Clients -> {"query", "probe", "probing", "free", "held",
          "subscribe", "next", "requery", "gone", "unlock", "unlocking", "run",
          "done", "lost", "nospawn", "error", "timeout"}]
    BY DEF TypesInv, ClientsInv, Positions, Ended
  <2> QED
    BY <2>1, <2>2, <2>3, <2>4 DEF TypeOK, TypesInv, ClientsInv, OthersInv,
      FilesInv, StopInv
<1> QED
  BY TypesInvariant, FilesInvariant, StopInvariant, <1>1, PTL
-----------------------------------------------------------------------------
(* Why a client fails.  As long as nothing went wrong and no more faults    *)
(* happened than one instance tries again for the lock, an instance only    *)
(* gives up because another one has the lock, and that one keeps it: the    *)
(* client needs at most a second child, and what it asks the socket for     *)
(* comes from an instance that is there to stay.                            *)

Serving == {"starting", "ready", "reconnecting"}
Harm == {"ok", "error", "killed"}
Quiet == ~Trouble /\ faults <= MaxTries

QuietInstance(i) ==
  /\ phase[i] \in Unseen \cup Serving \cup {"exited", "locked", "written"}
  /\ (phase[i] = "exited") <=> (exit[i] = "running")
  /\ holder = 0 => phase[i] \in Unseen /\ tries[i] <= faults

QuietClient(c) ==
  /\ client[c] \notin {"gone", "unlock", "unlocking", "error"}
  /\ client[c] \in {"subscribe", "next", "requery", "run"} => Answers
  /\ client[c] \in {"next", "requery"} => followed[c] = socket
  /\ pending[c] \in Seq(Serving)
  /\ spawns[c] >= 2 \/ (spawns[c] = 1 /\ child[c] = 0) =>
       holder # 0 /\ client[c] \notin {"probing", "free"}

QuietInv ==
  /\ \A i \in Instances : QuietInstance(i)
  /\ \A c \in Clients : QuietClient(c)

CauseInv ==
  /\ \A i \in Instances : phase[i] \in Unseen => exit[i] = "none"
  /\ Quiet => QuietInv

\* What is there stays there.
Stays ==
  /\ holder # 0 => holder' # 0
  /\ Answers => Answers' /\ socket' = socket

\* The instance that answers has the lock and is serving.
LEMMA QuietServer ==
  ASSUME FilesInv, OthersInv, QuietInv, Answers
  PROVE  /\ socket \in Instances /\ holder = socket /\ holder # 0
         /\ phase[socket] \in Serving
<1>1. socket \in Instances /\ phase[socket] \in Answering
  BY InstanceNumbers DEF Answers, OthersInv
<1>2. holder = socket
  BY <1>1 DEF FilesInv, Locked
<1>3. QuietInstance(socket)
  BY <1>1 DEF QuietInv
<1> QED
  BY <1>1, <1>2, <1>3, InstanceNumbers
  DEF QuietInstance, Answering, Serving, Unseen

\* A client that a step of another process leaves alone.
LEMMA QuietClientKept ==
  ASSUME NEW c \in Clients, QuietClient(c), Stays,
         client'[c] = client[c], spawns'[c] = spawns[c], child'[c] = child[c],
         followed'[c] = followed[c], pending'[c] \in Seq(Serving)
  PROVE  QuietClient(c)'
  BY DEF QuietClient, Stays

\* Nothing that went wrong is forgotten.
LEMMA QuietBefore ==
  ASSUME CauseInv, FilesInv, OthersInv, OthersInv', Next, Quiet'
  PROVE  Quiet
<1>1. ASSUME NEW j \in Instances, exit[j] \in Harm
      PROVE  exit'[j] \in Harm
  <2>1. /\ phase[j] # "locking"
        /\ exit \in [Instances -> Harm \cup {"none", "running"}]
    BY <1>1 DEF CauseInv, OthersInv, Unseen, Harm
  <2>2. ASSUME NEW i \in Instances, InstanceStep(i) \/ LoseBridge(i) \/ Kill(i)
        PROVE  exit'[j] \in Harm
    BY <1>1, <2>1, <2>2 DEF InstanceStep, Acquire, WriteState, Listen, Proceed,
      Stop, FinalState, CloseServer, Release, LoseBridge, Kill, Harm
  <2>3. ASSUME NEW c \in Clients, ClientStep(c) \/ TimeOut(c)
        PROVE  exit' = exit
    BY <2>3 DEF ClientStep, Query, Probe, Spawn, AwaitSocket, AttachFails,
      SpawnFails,
      Subscribe, NextEvent, StreamEnds, Requery, Retry, AwaitUnlock, Run,
      NotReady, TimeOut, instanceVars
  <2>4. ASSUME NEW s \in Stoppers, StopperStep(s)
        PROVE  exit' = exit
    BY <2>4 DEF StopperStep, StopProbes, StopReads, StopRequests, StopWaits,
      StopRereads, instanceVars
  <2>5. Up => exit' = exit
    BY DEF Up
  <2> QED
    BY <1>1, <2>2, <2>3, <2>4, <2>5 DEF Next
<1>2. ~Trouble
  BY <1>1 DEF Quiet, Trouble, Harm
<1>3. faults' = faults \/ faults' = faults + 1
  <2>2. ASSUME NEW i \in Instances, InstanceStep(i) \/ LoseBridge(i) \/ Kill(i)
        PROVE  faults' = faults \/ faults' = faults + 1
    BY <2>2 DEF InstanceStep, Acquire, WriteState, Listen, Proceed,
      Stop, FinalState, CloseServer, Release, LoseBridge, Kill, bounds
  <2>3. ASSUME NEW c \in Clients, ClientStep(c) \/ TimeOut(c)
        PROVE  faults' = faults
    BY <2>3 DEF ClientStep, Query, Probe, Spawn, AwaitSocket, AttachFails,
      SpawnFails,
      Subscribe, NextEvent, StreamEnds, Requery, Retry, AwaitUnlock, Run,
      NotReady, TimeOut, bounds
  <2>4. ASSUME NEW s \in Stoppers, StopperStep(s)
        PROVE  faults' = faults
    BY <2>4 DEF StopperStep, StopProbes, StopReads, StopRequests, StopWaits,
      StopRereads, bounds
  <2>5. Up => faults' = faults
    BY DEF Up
  <2> QED
    BY <2>2, <2>3, <2>4, <2>5 DEF Next
<1> QED
  <2>1. faults \in Nat /\ MaxTries \in Nat /\ faults' <= MaxTries
    BY EnsureBounds DEF Quiet, OthersInv
  <2>2. faults <= MaxTries
    BY <1>3, <2>1
  <2> QED
    BY <1>2, <2>2 DEF Quiet

\* An event for those who follow the instance.
LEMMA QuietEvents ==
  ASSUME ClientsInv, QuietInv, NEW i \in Instances, NEW s \in Serving,
         Publish(i, s) \/ UNCHANGED pending
  PROVE  \A c \in Clients : pending'[c] \in Seq(Serving)
<1>1. \A c \in Clients : pending[c] \in Seq(Serving)
  BY DEF QuietInv, QuietClient
<1>2. \A c \in Clients : Append(pending[c], s) \in Seq(Serving)
  BY <1>1
<1> QED
  BY <1>1, <1>2 DEF Publish

\* An instance that has the lock goes on.
LEMMA QuietGoesOn ==
  ASSUME FilesInv, QuietInv, NEW i \in Instances,
         phase[i] \in Locked, NEW p \in Serving \cup {"written"},
         phase' = [phase EXCEPT ![i] = p], UNCHANGED <<exit, holder>>
  PROVE  /\ holder # 0 /\ holder' = holder
         /\ \A j \in Instances : QuietInstance(j)'
<1>1. holder # 0
  BY InstanceNumbers DEF FilesInv
<1>2. phase[i] # "exited"
  BY DEF Locked, Stopping, Answering
<1>3. \A j \in Instances : phase'[j] = IF j = i THEN p ELSE phase[j]
  BY DEF FilesInv
<1> QED
  BY <1>1, <1>2, <1>3 DEF QuietInv, QuietInstance, Serving, Unseen

\* The steps of an instance.
LEMMA QuietByInstance ==
  ASSUME FilesInv, ClientsInv, OthersInv, OthersInv', QuietInv,
         NEW i \in Instances, InstanceStep(i) \/ LoseBridge(i) \/ Kill(i),
         Quiet, Quiet'
  PROVE  /\ Stays
         /\ \A j \in Instances : QuietInstance(j)'
         /\ \A c \in Clients : pending'[c] \in Seq(Serving)
<1>1. exit'[i] \notin Harm /\ faults' <= MaxTries
  BY DEF Quiet, Trouble, Harm
<1>2. QuietInstance(i) /\ i # 0
  BY InstanceNumbers DEF QuietInv
<1>3. exit \in [Instances -> Harm \cup {"none", "running"}]
  BY DEF OthersInv, Harm
<1>4. UNCHANGED pending => \A c \in Clients : pending'[c] \in Seq(Serving)
  BY DEF QuietInv, QuietClient
<1>5. Answers => holder # 0 /\ phase[socket] \in Serving /\ socket \in Instances
  BY QuietServer
<1>6. ASSUME holder # 0 => holder' # 0, UNCHANGED socket,
             \A j \in Instances :
               phase[j] \in Serving => phase'[j] \in Serving
      PROVE  Stays
  BY <1>5, <1>6 DEF Stays, Answers, Serving, Answering
<1>7. CASE Acquire(i) /\ holder = 0 /\ holder' = i
  <2>1. /\ phase[i] = "locking" /\ phase' = [phase EXCEPT ![i] = "locked"]
        /\ UNCHANGED <<exit, pending>>
    BY <1>2, <1>7 DEF Acquire, Moves
  <2>2. Stays
    BY <1>2, <1>5, <1>7 DEF Stays
  <2>3. ASSUME NEW j \in Instances
        PROVE  QuietInstance(j)'
    <3>1. /\ phase'[j] = IF j = i THEN "locked" ELSE phase[j]
          /\ exit'[j] = exit[j] /\ holder' # 0
      BY <1>2, <1>7, <2>1 DEF FilesInv
    <3>2. QuietInstance(j)
      BY DEF QuietInv
    <3> QED
      BY <2>1, <3>1, <3>2 DEF QuietInstance
  <2> QED
    BY <1>4, <2>1, <2>2, <2>3
<1>8. CASE Acquire(i) /\ holder' = holder
  <2>0. exit' # [exit EXCEPT ![i] = "error"]
    BY <1>1, <1>3 DEF Harm
  <2>1. /\ phase[i] = "locking" /\ UNCHANGED <<pending, socket>>
        /\ \A j \in Instances : j # i =>
             phase'[j] = phase[j] /\ exit'[j] = exit[j] /\ tries'[j] = tries[j]
        /\ IF tries[i] < MaxTries
           THEN phase'[i] = "locking" /\ exit'[i] = exit[i]
                /\ tries'[i] = tries[i] + 1
           ELSE phase'[i] = "exited" /\ exit'[i] = "running"
        /\ faults' = IF holder # 0 THEN faults ELSE faults + 1
    BY <1>2, <1>8, <2>0 DEF Acquire, Moves, FilesInv, OthersInv
  <2>2. Stays
    BY <1>6, <1>8, <2>1 DEF Serving
  <2>3. faults \in Nat /\ MaxTries \in Nat
    BY EnsureBounds DEF OthersInv
  <2>4. \A j \in Instances : tries[j] \in Nat
    BY EnsureBounds DEF OthersInv
  <2>5. ASSUME NEW j \in Instances, j # i
        PROVE  QuietInstance(j)'
    <3>1. QuietInstance(j) /\ tries[j] \in Nat
      BY <2>4 DEF QuietInv
    <3>2. holder = 0 => tries[j] <= faults'
      BY <2>1, <2>3, <3>1 DEF QuietInstance
    <3> QED
      BY <1>8, <2>1, <2>5, <3>1, <3>2 DEF QuietInstance
  <2>6. holder = 0 => tries[i] <= faults /\ tries[i] < MaxTries
    BY <1>1, <1>2, <2>1, <2>3, <2>4 DEF QuietInstance
  <2>7. holder = 0 => tries'[i] <= faults' /\ phase'[i] = "locking"
    BY <2>1, <2>3, <2>4, <2>6
  <2>8. (phase'[i] = "exited") <=> (exit'[i] = "running")
    BY <1>2, <2>1 DEF QuietInstance
  <2>9. QuietInstance(i)'
    BY <1>8, <2>1, <2>7, <2>8 DEF QuietInstance, Unseen
  <2> QED
    BY <1>4, <2>1, <2>2, <2>5, <2>9
<1>9. CASE WriteState(i)
  <2>1. phase[i] \in Locked /\ phase' = [phase EXCEPT ![i] = "written"]
        /\ UNCHANGED <<exit, holder, socket, pending>>
    BY <1>1, <1>3, <1>9 DEF WriteState, Moves, Locked, Harm
  <2>2. holder' # 0 /\ \A j \in Instances : QuietInstance(j)'
    BY <2>1, QuietGoesOn
  <2>3. phase[i] \notin Serving
    BY <1>9 DEF WriteState, Serving
  <2> QED
    BY <1>4, <1>6, <2>1, <2>2, <2>3 DEF FilesInv
<1>10. CASE Listen(i)
  <2>1. phase[i] = "written" /\ phase' = [phase EXCEPT ![i] = "starting"]
        /\ UNCHANGED <<exit, holder, pending>> /\ socket' = i
    BY <1>1, <1>3, <1>10 DEF Listen, Moves, Harm
  <2>2. phase[i] \in Locked /\ "starting" \in Serving
    BY <2>1 DEF Locked, Serving
  <2>3. holder # 0 /\ holder' = holder /\ \A j \in Instances : QuietInstance(j)'
    BY <2>1, <2>2, QuietGoesOn
  <2>4. ~Answers
    <3>1. holder = i
      BY <2>2 DEF FilesInv
    <3> QED
      BY <2>1, <3>1, QuietServer DEF Serving
  <2> QED
    BY <1>4, <2>1, <2>3, <2>4 DEF Stays
<1>11. CASE Proceed(i) \/ LoseBridge(i)
  <2>1. PICK s \in {"ready", "reconnecting"} :
          /\ Publish(i, s)
          /\ phase[i] \in Serving
          /\ UNCHANGED <<exit, holder, socket>>
    BY <1>1, <1>3, <1>11 DEF Proceed, LoseBridge, Harm, Serving, files
  <2>2. /\ phase[i] \in Locked /\ s \in Serving
        /\ phase' = [phase EXCEPT ![i] = s]
    BY <2>1 DEF Locked, Answering, Serving, Publish
  <2>3. holder' # 0 /\ \A j \in Instances : QuietInstance(j)'
    BY <2>1, <2>2, QuietGoesOn
  <2>4. \A c \in Clients : pending'[c] \in Seq(Serving)
    BY <2>1, <2>2, QuietEvents
  <2> QED
    BY <1>6, <2>1, <2>2, <2>3, <2>4 DEF FilesInv
<1>12. /\ ~Stop(i) /\ ~FinalState(i) /\ ~CloseServer(i) /\ ~Release(i)
       /\ ~Kill(i)
  <2>1. ~Stop(i) /\ ~Kill(i)
    BY <1>1, <1>3 DEF Stop, Kill, Harm
  <2>2. ~FinalState(i) /\ ~CloseServer(i) /\ ~Release(i)
    BY <1>2 DEF FinalState, CloseServer, Release, QuietInstance, Unseen, Serving
  <2> QED
    BY <2>1, <2>2
<1>13. Acquire(i) => holder' = holder \/ (holder = 0 /\ holder' = i)
  BY DEF Acquire
<1> QED
  BY <1>7, <1>8, <1>9, <1>10, <1>11, <1>12, <1>13 DEF InstanceStep

\* A new instance, of a client or of another process.
LEMMA QuietBirth ==
  ASSUME FilesInv, OthersInv, QuietInv, started' = started + 1,
         Moves(started', "locking"), UNCHANGED <<files, tries, exit, faults>>
  PROVE  Stays /\ \A j \in Instances : QuietInstance(j)'
<1> DEFINE n == started + 1
<1>1. n \in Nat /\ n > started
  BY DEF FilesInv
<1>2. \A j \in Instances :
        /\ j = n => phase[j] = "unborn"
        /\ phase'[j] = IF j = n THEN "locking" ELSE phase[j]
  BY <1>1 DEF FilesInv, Moves
<1>3. UNCHANGED <<holder, socket, exit, tries, faults>>
  BY DEF files
<1> HIDE DEF n
<1>4. ASSUME NEW j \in Instances
      PROVE  QuietInstance(j)'
  <2>1. QuietInstance(j)
    BY DEF QuietInv
  <2> QED
    BY <1>2, <1>3, <2>1 DEF QuietInstance, Unseen
<1>5. Answers => Answers'
  <2>1. Answers => socket \in Instances /\ phase[socket] \in Serving
    BY QuietServer
  <2> QED
    BY <1>2, <1>3, <2>1 DEF Answers, Serving
<1> QED
  BY <1>3, <1>4, <1>5 DEF Stays

\* EnsureAndRun returns, but not with an error.
LEMMA QuietReturns ==
  ASSUME ClientsInv, NEW c \in Clients,
         NEW p \in {"done", "lost", "nospawn", "timeout"}, Returns(c, p)
  PROVE  QuietClient(c)'
<1>1. /\ client'[c] = p /\ spawns'[c] = 0 /\ pending'[c] = <<>>
  BY DEF Returns, Goes, ClientsInv
<1>2. <<>> \in Seq(Serving)
  OBVIOUS
<1> QED
  BY <1>1, <1>2 DEF QuietClient

\* The client's own step.
LEMMA QuietOwn ==
  ASSUME MaxSpawns >= 2, FilesInv, ClientsInv, OthersInv, QuietInv, Stays,
         NEW c \in Clients, ClientStep(c) \/ TimeOut(c)
  PROVE  QuietClient(c)'
<1>1. QuietClient(c)
  BY DEF QuietInv
<1>2. Answers => /\ socket \in Instances /\ phase[socket] \in Serving
                 /\ holder # 0
  BY QuietServer
<1>3. /\ client \in [Clients -> Positions]
      /\ spawns[c] \in Nat /\ MaxSpawns \in Nat /\ spawns[c] <= MaxSpawns
      /\ child \in [Clients -> Pids] /\ followed \in [Clients -> Pids]
      /\ pending \in [Clients -> Seq(Answering)]
  BY EnsureBounds DEF ClientsInv
<1>4. CASE Query(c)
  <2>1. /\ client' = [client EXCEPT ![c] = client'[c]]
        /\ client'[c] \in {"probe", "run", "subscribe"}
        /\ client'[c] \in {"run", "subscribe"} => Answers
        /\ UNCHANGED <<spawns, child, followed, pending>>
    BY <1>2, <1>3, <1>4 DEF Query, Goes, Serving
  <2> QED
    BY <1>1, <2>1 DEF QuietClient, Stays
<1>5. CASE Probe(c)
  <2>1. /\ client'[c] = "held" \/ (client'[c] = "probing" /\ holder = 0)
           \/ (client'[c] = "free" /\ client[c] = "probing")
        /\ UNCHANGED <<spawns, child, followed, pending>>
    BY <1>3, <1>5 DEF Probe, ProbeTakes, Goes
  <2> QED
    BY <1>1, <2>1 DEF QuietClient, Stays
<1>6. CASE Spawn(c)
  <2>1. /\ client[c] = "free" /\ client'[c] = "query" /\ UNCHANGED pending
        /\ spawns'[c] = spawns[c] + 1 /\ child'[c] = started + 1
        /\ child[c] # 0 => exit[child[c]] = "running"
    BY <1>3, <1>6 DEF Spawn, NeedsChild, Goes, Moves, ClientsInv
  <2>2. child'[c] # 0
    BY <2>1 DEF FilesInv
  <2>3. spawns[c] < 2 /\ (spawns[c] = 1 => child[c] # 0)
    BY <1>1, <1>3, <2>1 DEF QuietClient
  <2>4. child[c] # 0 => holder # 0
    <3>1. child[c] # 0 => child[c] \in Instances
      BY <1>3, InstanceNumbers
    <3> QED
      BY <2>1, <3>1 DEF QuietInv, QuietInstance, Unseen
  <2>5. spawns'[c] >= 2 => holder' # 0
    BY <1>3, <2>1, <2>3, <2>4 DEF Stays
  <2> QED
    BY <1>1, <2>1, <2>2, <2>5 DEF QuietClient
<1>7. CASE AwaitSocket(c)
  <2>1. client'[c] = "query" /\ UNCHANGED <<spawns, child, followed, pending>>
    BY <1>3, <1>7 DEF AwaitSocket, Goes
  <2> QED
    BY <1>1, <2>1 DEF QuietClient, Stays
<1>8. ~AttachFails(c)
  <2>1. ~ChildFailed(c)
    BY <1>3, InstanceNumbers DEF ChildFailed, QuietInv, QuietInstance
  <2>2. ~(NeedsChild(c) /\ spawns[c] = MaxSpawns)
    BY <1>1, <1>3 DEF NeedsChild, QuietClient
  <2> QED
    BY <2>1, <2>2 DEF AttachFails
<1>9. CASE Subscribe(c)
  <2>1. Answers /\ client[c] = "subscribe"
    BY <1>1, <1>9 DEF Subscribe, QuietClient
  <2>2. /\ client'[c] = "next" /\ followed'[c] = socket
        /\ pending'[c] = <<phase[socket]>> /\ UNCHANGED <<spawns, child>>
    BY <1>3, <1>9, <2>1 DEF Subscribe, Goes
  <2>3. <<phase[socket]>> \in Seq(Serving)
    BY <1>2, <2>1
  <2> QED
    BY <1>1, <2>1, <2>2, <2>3 DEF QuietClient, Stays
<1>10. CASE NextEvent(c)
  <2>1. /\ client[c] = "next" /\ pending[c] # <<>>
        /\ pending[c] \in Seq(Serving)
    BY <1>1, <1>10 DEF NextEvent, QuietClient
  <2>2. Head(pending[c]) \in Serving /\ Tail(pending[c]) \in Seq(Serving)
    BY <2>1
  <2>3. /\ client'[c] \in {"next", "requery"}
        /\ pending'[c] = Tail(pending[c])
        /\ UNCHANGED <<spawns, child, followed>>
    BY <1>3, <1>10, <2>2 DEF NextEvent, Goes, Serving
  <2> QED
    BY <1>1, <2>1, <2>2, <2>3 DEF QuietClient, Stays
<1>11. ~StreamEnds(c)
  BY <1>1 DEF StreamEnds, QuietClient, Answers
<1>12. CASE Requery(c)
  <2>1. Answers /\ client[c] = "requery"
    BY <1>1, <1>12 DEF Requery, QuietClient
  <2>2. /\ client'[c] \in {"run", "next"}
        /\ UNCHANGED <<spawns, child, followed, pending>>
    BY <1>3, <1>12, <2>1 DEF Requery, Goes
  <2> QED
    BY <1>1, <2>1, <2>2 DEF QuietClient, Stays
<1>13. ~Retry(c) /\ ~AwaitUnlock(c)
  BY <1>1 DEF Retry, AwaitUnlock, QuietClient
<1>14. CASE Run(c)
  <2>1. Answers
    BY <1>1, <1>14 DEF Run, QuietClient
  <2> QED
    BY <1>14, <2>1, QuietReturns DEF Run
<1>15. CASE NotReady(c)
  <2>1. /\ client'[c] = "query" /\ pending'[c] = <<>> /\ Answers
        /\ UNCHANGED spawns
    BY <1>3, <1>15 DEF NotReady, Goes, Unfollow
  <2>2. <<>> \in Seq(Serving)
    OBVIOUS
  <2> QED
    BY <1>2, <2>1, <2>2 DEF QuietClient, Stays
<1>16. CASE TimeOut(c)
  BY <1>16, QuietReturns DEF TimeOut
<1>17. CASE SpawnFails(c)
  BY <1>17, QuietReturns DEF SpawnFails
<1> QED
  BY <1>4, <1>5, <1>6, <1>7, <1>8, <1>9, <1>10, <1>11, <1>12, <1>13, <1>14,
    <1>15, <1>16, <1>17 DEF ClientStep

\* What a client's step leaves alone.
LEMMA QuietFrame ==
  ASSUME FilesInv, ClientsInv, OthersInv, QuietInv,
         NEW c \in Clients, ClientStep(c) \/ TimeOut(c)
  PROVE  /\ Stays /\ UNCHANGED <<exit, faults>>
         /\ \A j \in Instances : QuietInstance(j)'
         /\ \A d \in Clients : d # c =>
              /\ client'[d] = client[d] /\ spawns'[d] = spawns[d]
              /\ child'[d] = child[d] /\ followed'[d] = followed[d]
              /\ pending'[d] = pending[d]
<1>1. \A d \in Clients : d # c =>
        /\ client'[d] = client[d] /\ spawns'[d] = spawns[d]
        /\ child'[d] = child[d] /\ followed'[d] = followed[d]
        /\ pending'[d] = pending[d]
  BY DEF ClientStep, Query, Probe, Spawn, AwaitSocket, AttachFails,
    SpawnFails, Subscribe,
    NextEvent, StreamEnds, Requery, Retry, AwaitUnlock, Run, NotReady, TimeOut,
    Goes, Returns, Moves, Unfollow, ClientsInv
<1>2. CASE Spawn(c)
  BY <1>1, <1>2, QuietBirth DEF Spawn
<1>3. CASE ~Spawn(c)
  <2>1. UNCHANGED <<phase, tries, exit, holder, socket, faults>>
    BY <1>3 DEF ClientStep, Query, Probe, AwaitSocket, AttachFails,
      SpawnFails, Subscribe,
      NextEvent, StreamEnds, Requery, Retry, AwaitUnlock, Run, NotReady,
      TimeOut, instanceVars, files, bounds
  <2> QED
    BY <1>1, <2>1 DEF Stays, Answers, QuietInv, QuietInstance
<1> QED
  BY <1>2, <1>3

LEMMA CauseInit == Init => CauseInv
<1> SUFFICES ASSUME Init PROVE CauseInv
  OBVIOUS
<1>1. ASSUME NEW i \in Instances
      PROVE  QuietInstance(i) /\ exit[i] = "none"
  BY DEF Init, QuietInstance, Unseen
<1>2. ASSUME NEW c \in Clients
      PROVE  QuietClient(c)
  <2>1. <<>> \in Seq(Serving)
    OBVIOUS
  <2>2. /\ client[c] = "query" /\ pending[c] = <<>> /\ spawns[c] = 0
    BY DEF Init
  <2> QED
    BY <2>1, <2>2 DEF QuietClient
<1> QED
  BY <1>1, <1>2 DEF CauseInv, QuietInv

\* Whoever takes the step.
LEMMA CauseStep ==
  ASSUME MaxSpawns >= 2, FilesInv, ClientsInv, OthersInv, OthersInv', CauseInv,
         [Next]_vars
  PROVE  CauseInv'
<1>1. CASE UNCHANGED vars
  <2>1. UNCHANGED <<phase, tries, exit, holder, socket, faults, client, spawns,
                    child, followed, pending>>
    BY <1>1 DEF vars, instanceVars, files, bounds, clientVars
  <2>2. Answers' <=> Answers
    BY <2>1 DEF Answers
  <2>3. Quiet' <=> Quiet
    BY <2>1 DEF Quiet, Trouble
  <2>4. \A i \in Instances : QuietInstance(i)' <=> QuietInstance(i)
    BY <2>1 DEF QuietInstance
  <2>5. \A c \in Clients : QuietClient(c)' <=> QuietClient(c)
    BY <2>1, <2>2 DEF QuietClient
  <2> QED
    BY <2>1, <2>3, <2>4, <2>5 DEF CauseInv, QuietInv
<1>2. ASSUME Next, NEW i \in Instances, phase'[i] \in Unseen
      PROVE  exit'[i] = "none"
  <2>1. phase[i] \in Unseen /\ exit[i] = "none"
    BY <1>2, FilesStep DEF Onward, CauseInv
  <2>2. ASSUME NEW j \in Instances, InstanceStep(j) \/ LoseBridge(j) \/ Kill(j)
        PROVE  exit'[i] = exit[i]
    <3>1. CASE j = i
      BY <1>2, <2>1, <2>2, <3>1 DEF InstanceStep, Acquire, WriteState, Listen,
        Proceed, Stop, FinalState, CloseServer, Release, LoseBridge, Kill,
        Moves, FilesInv, Unseen
    <3>2. CASE j # i
      BY <2>2, <3>2 DEF InstanceStep, Acquire, WriteState, Listen, Proceed,
        Stop, FinalState, CloseServer, Release, LoseBridge, Kill, OthersInv
    <3> QED
      BY <3>1, <3>2
  <2>3. ASSUME NEW c \in Clients, ClientStep(c) \/ TimeOut(c)
        PROVE  exit' = exit
    BY <2>3 DEF ClientStep, Query, Probe, Spawn, AwaitSocket, AttachFails,
      SpawnFails,
      Subscribe, NextEvent, StreamEnds, Requery, Retry, AwaitUnlock, Run,
      NotReady, TimeOut, instanceVars
  <2>4. ASSUME NEW s \in Stoppers, StopperStep(s)
        PROVE  exit' = exit
    BY <2>4 DEF StopperStep, StopProbes, StopReads, StopRequests, StopWaits,
      StopRereads, instanceVars
  <2>5. Up => exit' = exit
    BY DEF Up
  <2> QED
    BY <1>2, <2>1, <2>2, <2>3, <2>4, <2>5 DEF Next
<1>3. ASSUME Next, Quiet'
      PROVE  QuietInv'
  <2>1. Quiet /\ QuietInv
    BY <1>3, QuietBefore DEF CauseInv
  <2>2. ASSUME Stays, \A j \in Instances : QuietInstance(j)',
               UNCHANGED <<client, spawns, child, followed>>,
               \A c \in Clients : pending'[c] \in Seq(Serving)
        PROVE  QuietInv'
    BY <2>1, <2>2, QuietClientKept DEF QuietInv
  <2>3. UNCHANGED pending => \A c \in Clients : pending'[c] \in Seq(Serving)
    BY <2>1 DEF QuietInv, QuietClient
  <2>4. ASSUME NEW i \in Instances, InstanceStep(i) \/ LoseBridge(i) \/ Kill(i)
        PROVE  QuietInv'
    <3>1. UNCHANGED clientVars
      BY <2>4, TypesInstance
    <3> QED
      BY <1>3, <2>1, <2>2, <2>4, <3>1, QuietByInstance DEF clientVars
  <2>5. CASE Up
    BY <2>1, <2>2, <2>3, <2>5, QuietBirth DEF Up, Moves, clientVars
  <2>6. ASSUME NEW c \in Clients, ClientStep(c) \/ TimeOut(c)
        PROVE  QuietInv'
    <3>1. Stays /\ \A j \in Instances : QuietInstance(j)'
      BY <2>1, <2>6, QuietFrame
    <3>2. QuietClient(c)'
      BY <2>1, <2>6, <3>1, QuietOwn
    <3>3. ASSUME NEW d \in Clients, d # c
          PROVE  QuietClient(d)'
      <4>1. QuietClient(d)
        BY <2>1 DEF QuietInv
      <4>2. pending[d] \in Seq(Serving)
        BY <4>1 DEF QuietClient
      <4> QED
        BY <2>1, <2>6, <3>1, <3>3, <4>1, <4>2, QuietFrame, QuietClientKept
    <3> QED
      BY <3>1, <3>2, <3>3 DEF QuietInv
  <2>7. ASSUME NEW s \in Stoppers, StopperStep(s)
        PROVE  QuietInv'
    <3>1. UNCHANGED <<phase, tries, exit, files, faults, clientVars, pending>>
      BY <2>7 DEF StopperStep, StopProbes, StopReads, StopRequests, StopWaits,
        StopRereads, instanceVars, bounds
    <3>2. Stays /\ \A j \in Instances : QuietInstance(j)'
      BY <2>1, <3>1 DEF Stays, Answers, files, QuietInv, QuietInstance
    <3> QED
      BY <2>2, <2>3, <3>1, <3>2 DEF clientVars
  <2> QED
    BY <1>3, <2>4, <2>5, <2>6, <2>7 DEF Next
<1> QED
  BY <1>1, <1>2, <1>3 DEF CauseInv

\* Clients, other starters and probes alone never make a client fail: with two
\* children to start, a client whose first one lost the race for the lock ends
\* up at the winner.  Until an instance fails, is killed or is asked to stop,
\* and as long as what else went wrong was not enough to use up the tries of an
\* instance for the lock, no client returns an error.
THEOREM ErrorsCaused ==
  ASSUME MaxSpawns >= 2
  PROVE  Spec => [](faults <= MaxTries => ErrorsHaveCause)
<1>1. CauseInv /\ FilesInv /\ TypesInv /\ TypesInv' /\ [Next]_vars => CauseInv'
  BY CauseStep DEF TypesInv
<1>2. CauseInv => (faults <= MaxTries => ErrorsHaveCause)
  BY DEF CauseInv, Quiet, QuietInv, QuietClient, ErrorsHaveCause
<1> QED
  BY CauseInit, FilesInvariant, TypesInvariant, <1>1, <1>2, PTL DEF Spec

\* The same when the faults there may be cannot use up the tries.
THEOREM ErrorsCausedWithFewFaults ==
  ASSUME MaxSpawns >= 2, MaxFaults <= MaxTries
  PROVE  Spec => []ErrorsHaveCause
<1>1. TypesInv /\ (faults <= MaxTries => ErrorsHaveCause) => ErrorsHaveCause
  <2>1. TypesInv => faults \in Nat /\ faults <= MaxFaults
    BY EnsureBounds DEF TypesInv, OthersInv
  <2> QED
    BY <2>1, EnsureBounds
<1> QED
  BY TypesInvariant, ErrorsCaused, <1>1, PTL
=============================================================================
