------------------------------ MODULE Endpoint ------------------------------
(***************************************************************************)
(* The endpoint server inside the container (internal/endpoint/server.go)  *)
(* and what its generations share: the published environment file and the  *)
(* socket paths of the forwarders.  After a lost bridge the host starts a   *)
(* new endpoint at once; the old one may still have control messages to     *)
(* read, processes to end and sockets to remove.                           *)
(*                                                                         *)
(* Also the environment of what an endpoint starts (environment.go): the    *)
(* layers of an exec, the launcher that turns an exec into a shell, and     *)
(* the reload at the shell's prompts.                                      *)
(*                                                                         *)
(* Generations are numbered in the order they start.  The host is what the  *)
(* endpoint sees of it: connect, environment updates, a bridge that fails.  *)
(***************************************************************************)
EXTENDS Naturals, FiniteSets, Sequences

CONSTANTS
  Keys, Values,    \* environment variables and their values
  None,            \* a variable that is not set
  Forwarded,       \* which of "ssh", "gpg", "git" the host forwards
  MaxGenerations,  \* bound: endpoints started
  MaxUpdates,      \* bound: environment messages after an init
  MaxKills         \* bound: endpoints that are killed

ASSUME EndpointAssumption ==
  /\ Forwarded \subseteq {"ssh", "gpg", "git"} /\ None \notin Values
  /\ MaxGenerations \in Nat \ {0} /\ MaxUpdates \in Nat /\ MaxKills \in Nat

Generations == 1..MaxGenerations
Envs  == [Keys -> Values \cup {None}]
Empty == [k \in Keys |-> None]

\* config.Merge: later layers win.
Merge(lower, upper) ==
  [k \in Keys |-> IF upper[k] # None THEN upper[k] ELSE lower[k]]

VARIABLES
  base,      \* the container's own environment
  link,      \* the endpoint the host's bridge leads to, 0 for none
  ready,     \* that endpoint has acknowledged its init
  sent,      \* the environment the host sent last to each endpoint
  inbox,     \* control messages each endpoint has not read
  pc,        \* the goroutine that runs Server.Run
  envVars, procEnv, \* Server.envVars; the environment of the process
  file, writer,     \* environment.json and the endpoint that wrote it last
  bound,     \* the endpoint whose listener each socket path leads to
  alone,     \* the endpoint started after all earlier ones had gone
  shell,     \* one interactive shell
  updates, kills

hostVars  == <<link, ready, sent, updates>>
envState  == <<envVars, procEnv>>
fileVars  == <<file, writer>>
socketVars == <<bound, alone>>
vars == <<base, hostVars, inbox, pc, envState, fileVars, socketVars, shell,
          kills>>

Names == {"ssh", "gpg", "git"}

NoShell ==
  [at |-> "none", gen |-> 0, base |-> Empty, keys |-> Empty, vars |-> Empty]

Closing == {"execs", "close ssh", "close gpg", "close git", "close mux"}
Ended   == {"gone", "killed"}
Positions == {"none", "init", "publish", "acknowledge", "setenv", "serve",
              "update"} \cup Names \cup Closing \cup Ended

TypeOK ==
  /\ base \in Envs /\ link \in 0..MaxGenerations /\ ready \in BOOLEAN
  /\ sent \in [Generations -> Envs] /\ inbox \in [Generations -> Seq(Envs)]
  /\ pc \in [Generations -> Positions]
  /\ envVars \in [Generations -> Envs] /\ procEnv \in [Generations -> Envs]
  /\ file \in Envs /\ writer \in 0..MaxGenerations
  /\ bound \in [Names -> 0..MaxGenerations]
  /\ alone \in [Generations -> BOOLEAN]
  /\ shell \in [at : {"none", "layers", "launcher", "prompt"},
                gen : 0..MaxGenerations, base : Envs, keys : Envs, vars : Envs]
  /\ updates \in 0..MaxUpdates /\ kills \in 0..MaxKills

Init ==
  /\ base \in Envs
  /\ link = 0 /\ ready = FALSE /\ updates = 0 /\ kills = 0
  /\ sent = [g \in Generations |-> Empty]
  /\ inbox = [g \in Generations |-> <<>>]
  /\ pc = [g \in Generations |-> "none"]
  /\ envVars = [g \in Generations |-> Empty]
  /\ procEnv = [g \in Generations |-> Empty]
  /\ file = Empty /\ writer = 0
  /\ bound = [s \in Names |-> 0]
  /\ alone = [g \in Generations |-> FALSE]
  /\ shell = NoShell

Goto(g, position) == pc' = [pc EXCEPT ![g] = position]

-----------------------------------------------------------------------------
(* The host and the container *)

\* connect: a new endpoint process, which inherits the container's environment,
\* and its init with the current environment.
Connect(env) ==
  LET g == Cardinality({h \in Generations : pc[h] # "none"}) + 1
  IN  /\ link = 0 /\ g \in Generations
      /\ link' = g /\ ready' = FALSE
      /\ sent' = [sent EXCEPT ![g] = env]
      /\ inbox' = [inbox EXCEPT ![g] = <<env>>]
      /\ procEnv' = [procEnv EXCEPT ![g] = base]
      /\ alone' = [alone EXCEPT ![g] = \A h \in 1..g-1 : pc[h] \in Ended]
      /\ Goto(g, "init")
      /\ UNCHANGED <<base, updates, envVars, fileVars, bound, shell, kills>>

\* sendEnvironment on the current bridge.
SendEnvironment(env) ==
  /\ link # 0 /\ ready /\ updates < MaxUpdates
  /\ updates' = updates + 1
  /\ sent' = [sent EXCEPT ![link] = env]
  /\ inbox' = [inbox EXCEPT ![link] = Append(@, env)]
  /\ UNCHANGED <<base, link, ready, pc, envState, fileVars, socketVars, shell,
                 kills>>

\* The bridge fails, or the host gives up waiting for the acknowledgement.
\* Some of what the endpoint's session holds already is still read; the message
\* that is being handled is the first of it.
LoseBridge ==
  /\ link # 0
  /\ link' = 0 /\ ready' = FALSE
  /\ \E n \in (IF pc[link] = "update" THEN 1 ELSE 0)..Len(inbox[link]) :
       inbox' = [inbox EXCEPT ![link] = SubSeq(@, 1, n)]
  /\ UNCHANGED <<base, sent, updates, pc, envState, fileVars, socketVars,
                 shell, kills>>

\* The endpoint is killed: nothing is cleaned up, a socket file stays.
Kill(g) ==
  /\ pc[g] \notin Ended \cup {"none"} /\ kills < MaxKills
  /\ kills' = kills + 1
  /\ Goto(g, "killed")
  /\ shell' = IF shell.gen = g THEN NoShell ELSE shell
  /\ link' = (IF link = g THEN 0 ELSE link) /\ ready' = (ready /\ link # g)
  /\ inbox' = [inbox EXCEPT ![g] = <<>>]
  /\ UNCHANGED <<base, sent, updates, envState, fileVars, socketVars>>

-----------------------------------------------------------------------------
(* Server.Run: waitForInit *)

\* RecvControl returns the init, or the bridge was lost before it arrived.
ReceiveInit(g) ==
  /\ pc[g] = "init"
  /\ \/ /\ inbox[g] # <<>>
        /\ envVars' = [envVars EXCEPT ![g] = Head(inbox[g])]
        /\ inbox' = [inbox EXCEPT ![g] = Tail(@)]
        /\ Goto(g, "publish")
     \/ /\ inbox[g] = <<>> /\ link # g
        /\ Goto(g, "close mux") /\ UNCHANGED <<envVars, inbox>>
  /\ UNCHANGED <<base, hostVars, procEnv, fileVars, socketVars, shell, kills>>

\* Fault: an update publishes what the endpoint has, not what it got.
Publish_Stale(g, env) == file' = envVars[g] /\ writer' = g

\* PublishEnvironment: the rename makes the new file visible at once.
Publish(g, env) == file' = env /\ writer' = g

PublishInit(g) ==
  /\ pc[g] = "publish"
  /\ Publish(g, envVars[g])
  /\ Goto(g, "acknowledge")
  /\ UNCHANGED <<base, hostVars, inbox, envState, socketVars, shell, kills>>

\* PublishEnvironment fails: the directory is not private, or the file cannot be
\* written or renamed.  The old file stays, and Run ends with the error: what
\* it has started is closed, under a bridge that may still be there.  (Host and
\* Validate see to it that an environment can be decoded and set.)
PublishFails(g) ==
  /\ \/ pc[g] = "publish" /\ Goto(g, "close mux")
     \/ pc[g] = "serve" /\ inbox[g] # <<>> /\ Goto(g, "execs")
  /\ UNCHANGED <<base, hostVars, inbox, envState, fileVars, socketVars, shell,
                 kills>>

\* EnvironmentReady.  On a lost bridge the send fails, or is buffered still.
Acknowledge(g) ==
  /\ pc[g] = "acknowledge"
  /\ \/ link = g /\ ready' = TRUE /\ Goto(g, "setenv")
     \/ link # g /\ Goto(g, "setenv") /\ UNCHANGED ready
     \/ link # g /\ Goto(g, "close mux") /\ UNCHANGED ready
  /\ UNCHANGED <<base, link, sent, updates, inbox, envState, fileVars,
                 socketVars, shell, kills>>

SetEnvironment(g) ==
  /\ pc[g] = "setenv"
  /\ procEnv' = [procEnv EXCEPT ![g] = Merge(@, envVars[g])]
  /\ Goto(g, "ssh")
  /\ UNCHANGED <<base, hostVars, inbox, envVars, fileVars, socketVars, shell,
                 kills>>

\* Fault: a path that exists already is not removed first, so Listen fails.
Bind_KeepStale(g, name) ==
  bound' = IF name \in Forwarded /\ bound[name] = 0
           THEN [bound EXCEPT ![name] = g] ELSE bound

\* Start of a forwarder: remove what is at the path and listen there.
Bind(g, name) ==
  bound' = IF name \in Forwarded THEN [bound EXCEPT ![name] = g] ELSE bound

StartForwarder(g, name, next) ==
  /\ pc[g] = name
  /\ Bind(g, name)
  /\ Goto(g, next)
  /\ UNCHANGED <<base, hostVars, inbox, envState, fileVars, alone, shell,
                 kills>>

StartAgentForwarder(g)   == StartForwarder(g, "ssh", "gpg")
StartGPGForwarder(g)     == StartForwarder(g, "gpg", "git")
StartGitCredForwarder(g) == StartForwarder(g, "git", "serve")

-----------------------------------------------------------------------------
(* Server.Run: handleControlMessages and cleanup *)

ReceiveEnvironment(g) ==
  /\ pc[g] = "serve" /\ inbox[g] # <<>>
  /\ Publish(g, Head(inbox[g]))
  /\ Goto(g, "update")
  /\ UNCHANGED <<base, hostVars, inbox, envState, socketVars, shell, kills>>

\* Fault: variables that the new environment does not have stay set.
Adjusted_KeepsRemoved(g, env) == Merge(procEnv[g], env)

\* Fault: nothing but the new variables is left.
Adjusted_OnlyNew(g, env) == [k \in {k \in Keys : env[k] # None} |-> env[k]]

\* Variables the new environment no longer has get their inherited value back
\* or are unset; then the new ones are set.
Adjusted(g, env) ==
  [k \in Keys |-> IF env[k] # None THEN env[k]
                  ELSE IF envVars[g][k] # None THEN base[k]
                  ELSE procEnv[g][k]]

AdjustEnvironment(g) ==
  LET env == Head(inbox[g])
  IN  /\ pc[g] = "update"
      /\ procEnv' = [procEnv EXCEPT ![g] = Adjusted(g, env)]
      /\ envVars' = [envVars EXCEPT ![g] = env]
      /\ inbox' = [inbox EXCEPT ![g] = Tail(@)]
      /\ Goto(g, "serve")
      /\ UNCHANGED <<base, hostVars, fileVars, socketVars, shell, kills>>

NoticeLoss(g) ==
  /\ pc[g] = "serve" /\ inbox[g] = <<>> /\ link # g
  /\ Goto(g, "execs")
  /\ UNCHANGED <<base, hostVars, inbox, envState, fileVars, socketVars, shell,
                 kills>>

\* execManager.closeAll: takes as long as the processes need to end.
CloseExecs(g) ==
  /\ pc[g] = "execs"
  /\ shell' = IF shell.gen = g THEN NoShell ELSE shell
  /\ Goto(g, "close ssh")
  /\ UNCHANGED <<base, hostVars, inbox, envState, fileVars, socketVars, kills>>

\* Close of a forwarder removes whatever is at the path by now.
Unbind(name) ==
  bound' = IF name \in Forwarded THEN [bound EXCEPT ![name] = 0] ELSE bound

CloseForwarder(g, position, name, next) ==
  /\ pc[g] = position
  /\ Unbind(name)
  /\ Goto(g, next)
  /\ UNCHANGED <<base, hostVars, inbox, envState, fileVars, alone, shell,
                 kills>>

CloseAgentForwarder(g)   == CloseForwarder(g, "close ssh", "ssh", "close gpg")
CloseGPGForwarder(g)     == CloseForwarder(g, "close gpg", "gpg", "close git")
CloseGitCredForwarder(g) == CloseForwarder(g, "close git", "git", "close mux")

\* mux.Close: the endpoint ends, and the host learns of it if it has not.
CloseMux(g) ==
  /\ pc[g] = "close mux"
  /\ link' = (IF link = g THEN 0 ELSE link) /\ ready' = (ready /\ link # g)
  /\ Goto(g, "gone")
  /\ UNCHANGED <<base, sent, updates, inbox, envState, fileVars, socketVars,
                 shell, kills>>

-----------------------------------------------------------------------------
(* dworm shell: the exec of a launcher that becomes a shell *)

\* launchLayers reads the published file first ...
StartExec(g) ==
  /\ shell.at = "none" /\ link = g /\ ready
  /\ pc[g] \in {"serve", "update", "execs"}
  /\ shell' = [NoShell EXCEPT !.at = "layers", !.gen = g, !.keys = file]
  /\ UNCHANGED <<base, hostVars, inbox, pc, envState, fileVars, socketVars,
                 kills>>

\* ... and then the endpoint's own environment; register refuses after closeAll.
StartLauncher ==
  /\ shell.at = "layers"
  /\ shell' = [shell EXCEPT !.at = "launcher", !.keys = Empty,
                            !.vars = Merge(procEnv[shell.gen], shell.keys)]
  /\ UNCHANGED <<base, hostVars, inbox, pc, envState, fileVars, socketVars,
                 kills>>

\* RunWithEnvironment: remembers what it inherited as the shell's base.
Launch ==
  /\ shell.at = "launcher"
  /\ shell' = [shell EXCEPT !.at = "prompt", !.base = shell.vars, !.keys = file,
                            !.vars = Merge(shell.vars, file)]
  /\ UNCHANGED <<base, hostVars, inbox, pc, envState, fileVars, socketVars,
                 kills>>

\* Fault: only the variables that are published now are looked at.
Reloaded_ForgetsPrevious ==
  Merge(shell.vars, file)

\* What the output of ShellEnvironment makes of the shell's variables.
Reloaded ==
  [k \in Keys |-> IF file[k] # None THEN file[k]
                  ELSE IF shell.keys[k] # None THEN shell.base[k]
                  ELSE shell.vars[k]]

\* PROMPT_COMMAND of the shell's bashrc.
Prompt ==
  /\ shell.at = "prompt"
  /\ shell' = [shell EXCEPT !.keys = file, !.vars = Reloaded]
  /\ UNCHANGED <<base, hostVars, inbox, pc, envState, fileVars, socketVars,
                 kills>>

-----------------------------------------------------------------------------
Initialize(g) ==
  \/ ReceiveInit(g) \/ PublishInit(g) \/ Acknowledge(g) \/ SetEnvironment(g)
  \/ StartAgentForwarder(g) \/ StartGPGForwarder(g) \/ StartGitCredForwarder(g)

Serve(g) ==
  \/ ReceiveEnvironment(g) \/ AdjustEnvironment(g) \/ NoticeLoss(g)
  \/ PublishFails(g)

Cleanup(g) ==
  \/ CloseExecs(g)
  \/ CloseAgentForwarder(g) \/ CloseGPGForwarder(g) \/ CloseGitCredForwarder(g)
  \/ CloseMux(g)

Next ==
  \/ \E env \in Envs : Connect(env) \/ SendEnvironment(env)
  \/ LoseBridge
  \/ \E g \in Generations :
       Initialize(g) \/ Serve(g) \/ Cleanup(g) \/ StartExec(g) \/ Kill(g)
  \/ StartLauncher \/ Launch \/ Prompt

Spec == Init /\ [][Next]_vars

-----------------------------------------------------------------------------
(* Properties *)

\* What an endpoint gives its processes is the container's environment under
\* the newest environment it has handled, whatever was set and removed before:
\* nothing of an older one is left and nothing of the container's is lost.
LayersAreExact ==
  \A g \in Generations :
    pc[g] \in Names \cup {"serve"} => procEnv[g] = Merge(base, envVars[g])

\* An endpoint that has handled its messages has the environment the host sent
\* last, in its own process and in the file; the file may hold another one only
\* because an endpoint whose bridge was lost before wrote it late.
PublishedIsLastSent ==
  (link # 0 /\ pc[link] = "serve" /\ inbox[link] = <<>>)
    => envVars[link] = sent[link] /\ (file = sent[link] \/ writer < link)

\* A socket leads to the endpoint that serves the bridge if no older one was
\* left when it started, also when that one was killed and its file stayed; and
\* an endpoint that ends by itself leaves no socket that nobody answers.
SocketsAreServed ==
  \A name \in Forwarded :
    /\ link # 0 /\ alone[link] /\ pc[link] = "serve" => bound[name] = link
    /\ bound[name] # 0 => pc[bound[name]] # "gone"

\* At a prompt a variable that is no longer published has the value the shell
\* had inherited from the container, if its launcher had inherited that.
ShellRestores ==
  (shell.at = "prompt" /\ shell.keys = file) =>
    \A k \in Keys :
      shell.base[k] = base[k] => shell.vars[k] = Merge(base, file)[k]

\* At a prompt the shell has the published environment over the container's:
\* "Interactive Bash shells reload managed variables at each prompt"
\* (README.md:315), with each run of the host command "removing omitted
\* variables and falling back to lower-priority values" (README.md:322).
ShellFollowsPublished ==
  (shell.at = "prompt" /\ shell.keys = file) => shell.vars = Merge(base, file)

=============================================================================
