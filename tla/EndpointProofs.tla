--------------------------- MODULE EndpointProofs ---------------------------
(***************************************************************************)
(* What overlapping generations of the endpoint keep true, for every        *)
(* number of generations, updates and kills and all environments.           *)
(*                                                                         *)
(* Each part of the invariant says what holds at each position of           *)
(* Server.Run: LayersInv of the environment of the process, SentInv and     *)
(* FileInv of the environments on their way from the host, BoundInv of the  *)
(* sockets, ShellInv of a shell.  StartedInv makes the generation of the    *)
(* bridge the newest of those that have started.                            *)
(***************************************************************************)
EXTENDS Endpoint, FiniteSetTheorems, SequenceTheorems, TLAPS

\* Generations start in order, and that of the bridge is the newest and runs.
StartedInv ==
  /\ \E n \in 0..MaxGenerations :
       /\ \A h \in Generations : pc[h] # "none" <=> h <= n
       /\ link # 0 => link = n
  /\ link # 0 => pc[link] \notin Ended

Inherited == {"init", "publish", "acknowledge", "setenv"}
Layered   == Names \cup {"serve", "update"}

LayersInv ==
  \A g \in Generations :
    /\ pc[g] \in Inherited => procEnv[g] = base
    /\ pc[g] \in Layered => procEnv[g] = Merge(base, envVars[g])

\* The newest environment that an endpoint has or will receive.
Latest(g) ==
  IF inbox[g] = <<>> THEN envVars[g] ELSE inbox[g][Len(inbox[g])]

SentInv ==
  /\ \A g \in Generations : pc[g] = "update" => inbox[g] # <<>>
  /\ link # 0 => Latest(link) = sent[link]

FileInv ==
  link # 0 /\ writer >= link =>
    /\ pc[link] \in {"acknowledge", "setenv", "serve"} \cup Names =>
         file = envVars[link]
    /\ pc[link] = "update" => file = Head(inbox[link])

\* Where an endpoint may be while one of its sockets is there, and where it
\* is sure to have made it.
Makes(name) ==
  CASE name = "ssh" -> {"gpg", "git", "serve", "update"}
    [] name = "gpg" -> {"git", "serve", "update"}
    [] name = "git" -> {"serve", "update"}

Removes(name) ==
  CASE name = "ssh" -> {"execs", "close ssh"}
    [] name = "gpg" -> {"execs", "close ssh", "close gpg"}
    [] name = "git" -> {"execs", "close ssh", "close gpg", "close git"}

BoundInv ==
  /\ \A g \in Generations : alone[g] => \A h \in 1..g-1 : pc[h] \in Ended
  /\ \A name \in Forwarded :
       /\ link # 0 /\ alone[link] /\ pc[link] \in Makes(name) =>
            bound[name] = link
       /\ bound[name] # 0 =>
            pc[bound[name]] \in Makes(name) \cup Removes(name) \cup {"killed"}

\* A shell's variables are what its launcher inherited under what it has read.
ShellInv ==
  /\ shell.at # "none" => shell.gen \in Generations
  /\ shell.at = "prompt" => shell.vars = Merge(shell.base, shell.keys)

EndpointInv ==
  /\ TypeOK /\ StartedInv /\ LayersInv /\ SentInv /\ FileInv /\ BoundInv
  /\ ShellInv

-----------------------------------------------------------------------------
(* Environments *)

LEMMA EnvironmentTypes ==
  /\ Empty \in Envs
  /\ \A lower, upper \in Envs : Merge(lower, upper) \in Envs
  BY DEF Empty, Envs, Merge

\* config.Merge of a layer on itself, and what a variable of it comes to.
LEMMA MergeLayers ==
  ASSUME NEW lower \in Envs, NEW upper \in Envs, NEW k \in Keys
  PROVE  Merge(lower, upper)[k] = IF upper[k] # None THEN upper[k]
                                                     ELSE lower[k]
  BY DEF Merge

LEMMA AdjustedType ==
  ASSUME TypeOK, NEW g \in Generations, NEW env \in Envs
  PROVE  Adjusted(g, env) \in Envs
  BY DEF TypeOK, Adjusted, Envs

\* A step from one environment to the next is exact: what the old one set and
\* the new one does not set is the container's again.
LEMMA AdjustedIsExact ==
  ASSUME TypeOK, NEW g \in Generations, NEW env \in Envs,
         procEnv[g] = Merge(base, envVars[g])
  PROVE  Adjusted(g, env) = Merge(base, env)
<1>1. base \in Envs /\ envVars[g] \in Envs
  BY DEF TypeOK
<1>2. ASSUME NEW k \in Keys
      PROVE  Adjusted(g, env)[k] = Merge(base, env)[k]
  BY <1>1, <1>2, MergeLayers DEF Adjusted
<1> QED
  BY <1>2 DEF Adjusted, Merge

\* A reload at the prompt restores what the launcher had inherited.
LEMMA ReloadedIsExact ==
  ASSUME TypeOK, shell.vars = Merge(shell.base, shell.keys)
  PROVE  Reloaded = Merge(shell.base, file)
<1>1. shell.base \in Envs /\ shell.keys \in Envs /\ file \in Envs
  BY DEF TypeOK
<1>2. ASSUME NEW k \in Keys
      PROVE  Reloaded[k] = Merge(shell.base, file)[k]
  BY <1>1, <1>2, MergeLayers DEF Reloaded
<1> QED
  BY <1>2 DEF Reloaded, Merge

-----------------------------------------------------------------------------
(* Types *)

LEMMA TypeInit == Init => TypeOK
<1> SUFFICES ASSUME Init PROVE TypeOK
  OBVIOUS
<1>1. NoShell \in [at : {"none", "layers", "launcher", "prompt"},
                   gen : 0..MaxGenerations, base : Envs, keys : Envs,
                   vars : Envs]
  BY EnvironmentTypes, EndpointAssumption DEF NoShell
<1>2. inbox \in [Generations -> Seq(Envs)]
  BY EmptySeq DEF Init
<1>3. ready \in BOOLEAN /\ alone \in [Generations -> BOOLEAN]
  BY DEF Init
<1> QED
  BY <1>1, <1>2, <1>3, EnvironmentTypes, EndpointAssumption
  DEF Init, TypeOK, Positions, Generations

\* The next generation is one more than those that have started.
LEMMA NextGeneration ==
  ASSUME TypeOK, NEW n \in 0..MaxGenerations,
         \A h \in Generations : pc[h] # "none" <=> h <= n
  PROVE  Cardinality({h \in Generations : pc[h] # "none"}) + 1 = n + 1
<1>1. {h \in Generations : pc[h] # "none"} = 1..n
  BY EndpointAssumption DEF Generations
<1>2. Cardinality(1..n) = n
  BY FS_Interval, EndpointAssumption
<1> QED
  BY <1>1, <1>2

\* What a step of one endpoint's goroutine does to the types: it goes to
\* another position, and what it changes keeps its type.
LEMMA TypeRun ==
  ASSUME TypeOK, NEW g \in Generations, Initialize(g) \/ Serve(g) \/ Cleanup(g),
         pc[g] = "update" => inbox[g] # <<>>
  PROVE  TypeOK'
<1> DEFINE Moved == \E position \in Positions : Goto(g, position)
           Inbox == inbox' \in [Generations -> Seq(Envs)]
<1>1. inbox[g] # <<>> => Head(inbox[g]) \in Envs /\ Tail(inbox[g]) \in Seq(Envs)
  BY HeadTailProperties DEF TypeOK
<1>2. Moved => pc' \in [Generations -> Positions]
  BY DEF Goto, TypeOK
<1>3. ASSUME NEW name \in Names, Bind(g, name) \/ Unbind(name)
      PROVE  bound' \in [Names -> 0..MaxGenerations]
  <2>1. g \in 0..MaxGenerations /\ 0 \in 0..MaxGenerations
    BY EndpointAssumption DEF Generations
  <2>2. bound \in [Names -> 0..MaxGenerations]
    BY DEF TypeOK
  <2>3. \E h \in 0..MaxGenerations :
          bound' = bound \/ bound' = [bound EXCEPT ![name] = h]
    BY <1>3, <2>1 DEF Bind, Unbind
  <2> QED
    BY <2>2, <2>3
<1>4. NoShell \in [at : {"none", "layers", "launcher", "prompt"},
                   gen : 0..MaxGenerations, base : Envs, keys : Envs,
                   vars : Envs]
  BY EnvironmentTypes, EndpointAssumption DEF NoShell
<1>5. CASE ReceiveInit(g)
  <2>1. Moved /\ UNCHANGED <<base, hostVars, procEnv, fileVars, socketVars,
                             shell, kills>>
    BY <1>5 DEF ReceiveInit, Positions, Closing
  <2>2. Inbox /\ envVars' \in [Generations -> Envs]
    BY <1>1, <1>5, ZenonT(30) DEF ReceiveInit, TypeOK
  <2> QED
    BY <1>2, <2>1, <2>2 DEF TypeOK, hostVars, fileVars, socketVars
<1>6. CASE PublishInit(g)
  <2>1. Moved /\ UNCHANGED <<base, hostVars, inbox, envState, socketVars,
                             shell, kills>>
    BY <1>6 DEF PublishInit, Positions
  <2>2. file' \in Envs /\ writer' \in 0..MaxGenerations
    BY <1>6, EndpointAssumption DEF PublishInit, Publish, TypeOK, Generations
  <2> QED
    BY <1>2, <2>1, <2>2 DEF TypeOK, hostVars, envState, socketVars
<1>7. CASE Acknowledge(g)
  <2>1. Moved /\ UNCHANGED <<base, link, sent, updates, inbox, envState,
                             fileVars, socketVars, shell, kills>>
    BY <1>7 DEF Acknowledge, Positions, Closing
  <2>2. ready' \in BOOLEAN
    BY <1>7 DEF Acknowledge, TypeOK
  <2> QED
    BY <1>2, <2>1, <2>2 DEF TypeOK, envState, fileVars, socketVars
<1>8. CASE SetEnvironment(g)
  <2>1. Moved /\ UNCHANGED <<base, hostVars, inbox, envVars, fileVars,
                             socketVars, shell, kills>>
    BY <1>8 DEF SetEnvironment, Positions, Names
  <2>2. procEnv' \in [Generations -> Envs]
    BY <1>8, EnvironmentTypes DEF SetEnvironment, TypeOK
  <2> QED
    BY <1>2, <2>1, <2>2 DEF TypeOK, hostVars, fileVars, socketVars
<1>9. ASSUME NEW name \in Names, NEW next \in Positions,
             \/ StartForwarder(g, name, next)
             \/ \E position : CloseForwarder(g, position, name, next)
      PROVE  TypeOK'
  <2>1. Moved /\ UNCHANGED <<base, hostVars, inbox, envState, fileVars, alone,
                             shell, kills>>
    BY <1>9 DEF StartForwarder, CloseForwarder
  <2>2. bound' \in [Names -> 0..MaxGenerations]
    BY <1>3, <1>9 DEF StartForwarder, CloseForwarder
  <2> QED
    BY <1>2, <2>1, <2>2 DEF TypeOK, hostVars, envState, fileVars
<1>10. CASE StartAgentForwarder(g) \/ StartGPGForwarder(g)
            \/ StartGitCredForwarder(g)
  BY <1>9, <1>10 DEF StartAgentForwarder, StartGPGForwarder,
    StartGitCredForwarder, Positions, Names
<1>11. CASE ReceiveEnvironment(g)
  <2>1. Moved /\ UNCHANGED <<base, hostVars, inbox, envState, socketVars,
                             shell, kills>>
    BY <1>11 DEF ReceiveEnvironment, Positions
  <2>2. file' \in Envs /\ writer' \in 0..MaxGenerations
    BY <1>1, <1>11, EndpointAssumption
    DEF ReceiveEnvironment, Publish, Generations
  <2> QED
    BY <1>2, <2>1, <2>2 DEF TypeOK, hostVars, envState, socketVars
<1>12. CASE AdjustEnvironment(g)
  <2>1. /\ Moved
        /\ UNCHANGED <<base, hostVars, fileVars, socketVars, shell, kills>>
    BY <1>12 DEF AdjustEnvironment, Positions
  <2>2. /\ Inbox /\ procEnv' \in [Generations -> Envs]
        /\ envVars' \in [Generations -> Envs]
    BY <1>1, <1>12, AdjustedType DEF AdjustEnvironment, TypeOK
  <2> QED
    BY <1>2, <2>1, <2>2 DEF TypeOK, hostVars, fileVars, socketVars
<1>13. CASE NoticeLoss(g)
  <2>1. Moved /\ UNCHANGED <<base, hostVars, inbox, envState, fileVars,
                             socketVars, shell, kills>>
    BY <1>13 DEF NoticeLoss, Positions, Closing
  <2> QED
    BY <1>2, <2>1 DEF TypeOK, hostVars, envState, fileVars, socketVars
<1>14. CASE CloseExecs(g)
  <2>1. Moved /\ UNCHANGED <<base, hostVars, inbox, envState, fileVars,
                             socketVars, kills>>
    BY <1>14 DEF CloseExecs, Positions, Closing
  <2>2. shell' = NoShell \/ shell' = shell
    BY <1>14 DEF CloseExecs
  <2> QED
    BY <1>2, <1>4, <2>1, <2>2
    DEF TypeOK, hostVars, envState, fileVars, socketVars
<1>15. CASE CloseAgentForwarder(g) \/ CloseGPGForwarder(g)
            \/ CloseGitCredForwarder(g)
  BY <1>9, <1>15 DEF CloseAgentForwarder, CloseGPGForwarder,
    CloseGitCredForwarder, Positions, Names, Closing, Ended
<1>16. CASE PublishFails(g)
  <2>1. Moved /\ UNCHANGED <<base, hostVars, inbox, envState, fileVars,
                             socketVars, shell, kills>>
    BY <1>16 DEF PublishFails, Positions, Closing
  <2> QED
    BY <1>2, <2>1 DEF TypeOK, hostVars, envState, fileVars, socketVars
<1>17. CASE CloseMux(g)
  <2>1. Moved /\ UNCHANGED <<base, sent, updates, inbox, envState, fileVars,
                             socketVars, shell, kills>>
    BY <1>17 DEF CloseMux, Positions, Ended
  <2>2. link' \in 0..MaxGenerations
    <3>1. link' = 0 \/ link' = link
      BY <1>17 DEF CloseMux
    <3>2. 0 \in 0..MaxGenerations
      BY EndpointAssumption
    <3> QED
      BY <3>1, <3>2 DEF TypeOK
  <2>3. ready' \in BOOLEAN
    BY <1>17 DEF CloseMux
  <2> QED
    BY <1>2, <2>1, <2>2, <2>3 DEF TypeOK, envState, fileVars, socketVars
<1> QED
  BY <1>5, <1>6, <1>7, <1>8, <1>10, <1>11, <1>12, <1>13, <1>14, <1>15, <1>16,
    <1>17 DEF Initialize, Serve, Cleanup

\* The steps of the host, of the container and of a shell.
LEMMA TypeHost ==
  ASSUME TypeOK, NEW env \in Envs, Connect(env) \/ SendEnvironment(env)
  PROVE  TypeOK'
<1>1. CASE Connect(env)
  <2> DEFINE g == Cardinality({h \in Generations : pc[h] # "none"}) + 1
  <2>1. g \in Generations /\ <<env>> \in Seq(Envs)
    BY <1>1 DEF Connect
  <2>2. /\ link' = g /\ ready' = FALSE /\ sent' = [sent EXCEPT ![g] = env]
        /\ inbox' = [inbox EXCEPT ![g] = <<env>>]
        /\ procEnv' = [procEnv EXCEPT ![g] = base]
        /\ alone' = [alone EXCEPT ![g] = \A h \in 1..g-1 : pc[h] \in Ended]
        /\ pc' = [pc EXCEPT ![g] = "init"]
        /\ UNCHANGED <<base, updates, envVars, fileVars, bound, shell, kills>>
    BY <1>1 DEF Connect, Goto
  <2> HIDE DEF g
  <2>3. /\ link' \in 0..MaxGenerations /\ sent' \in [Generations -> Envs]
        /\ inbox' \in [Generations -> Seq(Envs)]
        /\ procEnv' \in [Generations -> Envs]
        /\ pc' \in [Generations -> Positions]
    BY <2>1, <2>2, EndpointAssumption DEF TypeOK, Generations, Positions
  <2>4. alone' \in [Generations -> BOOLEAN]
    BY <2>1, <2>2 DEF TypeOK
  <2>5. ready' \in BOOLEAN
    BY <2>2
  <2> QED
    BY <2>2, <2>3, <2>4, <2>5 DEF TypeOK, fileVars
<1>2. CASE SendEnvironment(env)
  <2>1. link \in Generations
    BY <1>2, EndpointAssumption DEF SendEnvironment, TypeOK, Generations
  <2>2. Append(inbox[link], env) \in Seq(Envs)
    BY <2>1, AppendProperties DEF TypeOK
  <2>3. /\ sent' \in [Generations -> Envs]
        /\ inbox' \in [Generations -> Seq(Envs)]
        /\ updates' \in 0..MaxUpdates
    BY <1>2, <2>1, <2>2, EndpointAssumption DEF SendEnvironment, TypeOK
  <2>4. UNCHANGED <<base, link, ready, pc, envState, fileVars, socketVars,
                    shell, kills>>
    BY <1>2 DEF SendEnvironment
  <2> QED
    BY <2>3, <2>4 DEF TypeOK, envState, fileVars, socketVars
<1> QED
  BY <1>1, <1>2

LEMMA TypeFault ==
  ASSUME TypeOK, LoseBridge \/ \E g \in Generations : Kill(g)
  PROVE  TypeOK'
<1>1. CASE LoseBridge
  <2>1. PICK n \in (IF pc[link] = "update" THEN 1 ELSE 0)..Len(inbox[link]) :
          inbox' = [inbox EXCEPT ![link] = SubSeq(@, 1, n)]
    BY <1>1 DEF LoseBridge
  <2>2. link \in Generations
    BY <1>1, EndpointAssumption DEF LoseBridge, TypeOK, Generations
  <2>3. inbox[link] \in Seq(Envs) /\ Len(inbox[link]) \in Nat
    BY <2>2, LenProperties DEF TypeOK
  <2>4. SubSeq(inbox[link], 1, n) \in Seq(Envs)
    <3>1. CASE n = 0
      BY <2>3, <3>1, SubSeqProperties
    <3>2. CASE n # 0
      BY <2>3, <3>2, SubSeqProperties
    <3> QED
      BY <3>1, <3>2
  <2>5. inbox' \in [Generations -> Seq(Envs)]
    BY <2>1, <2>2, <2>4 DEF TypeOK
  <2>6. /\ link' = 0 /\ ready' = FALSE
        /\ UNCHANGED <<base, sent, updates, pc, envState, fileVars, socketVars,
                       shell, kills>>
    BY <1>1 DEF LoseBridge
  <2>7. link' \in 0..MaxGenerations
    BY <2>6, EndpointAssumption
  <2>8. ready' \in BOOLEAN
    BY <2>6
  <2> QED
    BY <2>5, <2>6, <2>7, <2>8 DEF TypeOK, envState, fileVars, socketVars
<1>2. ASSUME NEW g \in Generations, Kill(g)
      PROVE  TypeOK'
  <2>1. /\ pc' \in [Generations -> Positions]
        /\ kills' \in 0..MaxKills
        /\ link' \in 0..MaxGenerations
        /\ inbox' \in [Generations -> Seq(Envs)]
    BY <1>2, EmptySeq, EndpointAssumption
    DEF Kill, Goto, TypeOK, Positions, Ended
  <2>2. ready' \in BOOLEAN
    BY <1>2 DEF Kill
  <2>3. shell' = NoShell \/ shell' = shell
    BY <1>2 DEF Kill
  <2>4. shell' \in [at : {"none", "layers", "launcher", "prompt"},
                    gen : 0..MaxGenerations, base : Envs, keys : Envs,
                    vars : Envs]
    BY <2>3, EnvironmentTypes, EndpointAssumption DEF NoShell, TypeOK
  <2>5. UNCHANGED <<base, sent, updates, envState, fileVars, socketVars>>
    BY <1>2 DEF Kill
  <2> QED
    BY <2>1, <2>2, <2>4, <2>5 DEF TypeOK, envState, fileVars, socketVars
<1> QED
  BY <1>1, <1>2

LEMMA TypeShell ==
  ASSUME TypeOK, ShellInv, NEW g \in Generations,
         StartExec(g) \/ StartLauncher \/ Launch \/ Prompt
  PROVE  TypeOK'
<1> DEFINE Shells == [at : {"none", "layers", "launcher", "prompt"},
                      gen : 0..MaxGenerations, base : Envs, keys : Envs,
                      vars : Envs]
<1>1. UNCHANGED <<base, hostVars, inbox, pc, envState, fileVars, socketVars,
                  kills>>
  BY DEF StartExec, StartLauncher, Launch, Prompt
<1>2. /\ shell \in Shells /\ file \in Envs /\ g \in 0..MaxGenerations
      /\ procEnv \in [Generations -> Envs]
  BY EndpointAssumption DEF TypeOK, Generations
<1>3. shell.base \in Envs /\ shell.keys \in Envs /\ shell.vars \in Envs
  BY <1>2
<1>4. NoShell \in Shells
  BY EnvironmentTypes, EndpointAssumption DEF NoShell
<1>5. CASE StartExec(g)
  BY <1>1, <1>2, <1>4, <1>5
  DEF StartExec, TypeOK, hostVars, envState, fileVars, socketVars
<1>6. CASE StartLauncher
  <2>1. shell.gen \in Generations
    BY <1>6 DEF StartLauncher, ShellInv
  <2>2. Merge(procEnv[shell.gen], shell.keys) \in Envs
    BY <1>2, <1>3, <2>1, EnvironmentTypes
  <2> QED
    BY <1>1, <1>2, <1>6, <2>2, EnvironmentTypes
    DEF StartLauncher, TypeOK, hostVars, envState, fileVars, socketVars
<1>7. CASE Launch
  <2>1. Merge(shell.vars, file) \in Envs
    BY <1>2, <1>3, EnvironmentTypes
  <2> QED
    BY <1>1, <1>2, <1>3, <1>7, <2>1
    DEF Launch, TypeOK, hostVars, envState, fileVars, socketVars
<1>8. CASE Prompt
  <2>1. Reloaded \in Envs
    BY <1>2, <1>3 DEF Reloaded, Envs
  <2> QED
    BY <1>1, <1>2, <1>8, <2>1
    DEF Prompt, TypeOK, hostVars, envState, fileVars, socketVars
<1> QED
  BY <1>5, <1>6, <1>7, <1>8

-----------------------------------------------------------------------------
(* The order of the generations *)

\* The endpoint of the bridge has started, and no later one has.
LEMMA BridgeIsNewest ==
  ASSUME TypeOK, StartedInv, link # 0
  PROVE  /\ link \in Generations /\ pc[link] # "none"
         /\ \A h \in Generations : pc[h] # "none" => h <= link
<1>1. link \in Generations
  BY EndpointAssumption DEF TypeOK, Generations
<1> QED
  BY <1>1, EndpointAssumption DEF StartedInv, Generations

\* The next endpoint is the first of those that have not started.
LEMMA NextIsNew ==
  ASSUME TypeOK, StartedInv, NEW env \in Envs, Connect(env)
  PROVE  \E g \in Generations :
           /\ \A h \in Generations : pc[h] # "none" <=> h < g
           /\ link' = g /\ ready' = FALSE
           /\ sent' = [sent EXCEPT ![g] = env]
           /\ inbox' = [inbox EXCEPT ![g] = <<env>>]
           /\ procEnv' = [procEnv EXCEPT ![g] = base]
           /\ alone' = [alone EXCEPT ![g] = \A h \in 1..g-1 : pc[h] \in Ended]
           /\ pc' = [pc EXCEPT ![g] = "init"]
           /\ UNCHANGED <<base, updates, envVars, fileVars, bound, shell,
                          kills>>
<1>1. PICK n \in 0..MaxGenerations :
        \A h \in Generations : pc[h] # "none" <=> h <= n
  BY DEF StartedInv
<1> DEFINE g == Cardinality({h \in Generations : pc[h] # "none"}) + 1
<1>2. g = n + 1
  BY <1>1, NextGeneration
<1>3. /\ g \in Generations /\ link' = g /\ ready' = FALSE
      /\ sent' = [sent EXCEPT ![g] = env]
      /\ inbox' = [inbox EXCEPT ![g] = <<env>>]
      /\ procEnv' = [procEnv EXCEPT ![g] = base]
      /\ alone' = [alone EXCEPT ![g] = \A h \in 1..g-1 : pc[h] \in Ended]
      /\ pc' = [pc EXCEPT ![g] = "init"]
      /\ UNCHANGED <<base, updates, envVars, fileVars, bound, shell, kills>>
  BY DEF Connect, Goto
<1> HIDE DEF g
<1>4. \A h \in Generations : pc[h] # "none" <=> h < g
  BY <1>1, <1>2, EndpointAssumption DEF Generations
<1> QED
  BY <1>3, <1>4

\* What the goroutine of an endpoint leaves alone, and that the bridge goes
\* with it when it ends.
LEMMA RunFrame ==
  ASSUME TypeOK, NEW g \in Generations, Initialize(g) \/ Serve(g) \/ Cleanup(g)
  PROVE  /\ UNCHANGED <<base, sent, alone>>
         /\ link' = IF link = g /\ pc'[g] \in Ended THEN 0 ELSE link
         /\ pc[g] \notin Ended \cup {"none"}
         /\ pc' = [pc EXCEPT ![g] = pc'[g]] /\ pc'[g] # "none"
         /\ \A h \in Generations \ {g} :
              /\ procEnv'[h] = procEnv[h] /\ envVars'[h] = envVars[h]
              /\ inbox'[h] = inbox[h]
<1> USE DEF Goto, Positions, Closing, Ended, Names, TypeOK
<1>1. CASE ReceiveInit(g)
  BY <1>1 DEF ReceiveInit, hostVars, socketVars
<1>2. CASE PublishInit(g)
  BY <1>2 DEF PublishInit, hostVars, socketVars, envState
<1>3. CASE Acknowledge(g)
  BY <1>3 DEF Acknowledge, socketVars, envState
<1>4. CASE SetEnvironment(g)
  BY <1>4 DEF SetEnvironment, hostVars, socketVars
<1>5. CASE StartAgentForwarder(g) \/ StartGPGForwarder(g)
           \/ StartGitCredForwarder(g)
  BY <1>5 DEF StartAgentForwarder, StartGPGForwarder, StartGitCredForwarder,
    StartForwarder, hostVars, envState
<1>6. CASE ReceiveEnvironment(g)
  BY <1>6 DEF ReceiveEnvironment, hostVars, socketVars, envState
<1>7. CASE AdjustEnvironment(g)
  BY <1>7 DEF AdjustEnvironment, hostVars, socketVars
<1>8. CASE NoticeLoss(g)
  BY <1>8 DEF NoticeLoss, hostVars, socketVars, envState
<1>9. CASE CloseExecs(g)
  BY <1>9 DEF CloseExecs, hostVars, socketVars, envState
<1>10. CASE CloseAgentForwarder(g) \/ CloseGPGForwarder(g)
            \/ CloseGitCredForwarder(g)
  BY <1>10 DEF CloseAgentForwarder, CloseGPGForwarder, CloseGitCredForwarder,
    CloseForwarder, hostVars, envState
<1>11. CASE PublishFails(g)
  BY <1>11 DEF PublishFails, hostVars, socketVars, envState
<1>12. CASE CloseMux(g)
  BY <1>12 DEF CloseMux, socketVars, envState
<1> QED
  BY <1>1, <1>2, <1>3, <1>4, <1>5, <1>6, <1>7, <1>8, <1>9, <1>10, <1>11, <1>12
  DEF Initialize, Serve, Cleanup

LEMMA StartedConnect ==
  ASSUME TypeOK, StartedInv, NEW env \in Envs, Connect(env)
  PROVE  StartedInv'
<1>1. PICK g \in Generations :
        /\ \A h \in Generations : pc[h] # "none" <=> h < g
        /\ link' = g /\ pc' = [pc EXCEPT ![g] = "init"]
  BY NextIsNew
<1>2. \A h \in Generations : pc'[h] # "none" <=> h <= g
  BY <1>1, EndpointAssumption DEF TypeOK, Generations
<1>3. pc'[link'] = "init" /\ g \in 0..MaxGenerations
  BY <1>1, EndpointAssumption DEF TypeOK, Generations
<1> QED
  BY <1>1, <1>2, <1>3 DEF StartedInv, Closing, Ended

LEMMA StartedRun ==
  ASSUME TypeOK, StartedInv, NEW g \in Generations,
         Initialize(g) \/ Serve(g) \/ Cleanup(g)
  PROVE  StartedInv'
<1>1. pc' = [pc EXCEPT ![g] = pc'[g]] /\ pc'[g] # "none"
  BY RunFrame
<1>2. /\ pc[g] # "none"
      /\ link' = IF link = g /\ pc'[g] \in Ended THEN 0 ELSE link
  BY RunFrame
<1>3. \A h \in Generations : pc'[h] # "none" <=> pc[h] # "none"
  BY <1>1, <1>2 DEF TypeOK
<1>4. link' # 0 => pc'[link'] \notin Ended
  <2>1. link # 0 => link \in Generations
    BY BridgeIsNewest
  <2> QED
    BY <1>1, <1>2, <2>1 DEF StartedInv, TypeOK
<1> QED
  BY <1>2, <1>3, <1>4 DEF StartedInv

LEMMA StartedKill ==
  ASSUME TypeOK, StartedInv, NEW g \in Generations, Kill(g)
  PROVE  StartedInv'
<1>1. /\ pc' = [pc EXCEPT ![g] = "killed"] /\ pc[g] # "none"
      /\ link' = IF link = g THEN 0 ELSE link
  BY DEF Kill, Goto
<1>2. \A h \in Generations : pc'[h] # "none" <=> pc[h] # "none"
  BY <1>1 DEF TypeOK
<1>3. link' # 0 => pc'[link'] \notin Ended
  <2>1. link # 0 => link \in Generations
    BY BridgeIsNewest
  <2> QED
    BY <1>1, <2>1 DEF StartedInv, TypeOK
<1> QED
  BY <1>1, <1>2, <1>3 DEF StartedInv

-----------------------------------------------------------------------------
(* The layers of a process *)

LEMMA LayersRun ==
  ASSUME TypeOK, LayersInv, SentInv, NEW g \in Generations,
         Initialize(g) \/ Serve(g) \/ Cleanup(g)
  PROVE  LayersInv'
<1> DEFINE Exact(h) ==
      /\ pc[h] \in Inherited => procEnv[h] = base
      /\ pc[h] \in Layered => procEnv[h] = Merge(base, envVars[h])
<1>1. /\ base' = base /\ pc' = [pc EXCEPT ![g] = pc'[g]]
      /\ \A h \in Generations \ {g} :
           procEnv'[h] = procEnv[h] /\ envVars'[h] = envVars[h]
  BY RunFrame
<1>2. \A h \in Generations \ {g} : Exact(h)'
  BY <1>1 DEF LayersInv, TypeOK
<1>3. Exact(g)
  BY DEF LayersInv
<1>4. ASSUME UNCHANGED envState, pc[g] \in Layered \/ pc'[g] \notin Layered,
             pc[g] \in Inherited \/ pc'[g] \notin Inherited
      PROVE  Exact(g)'
  BY <1>1, <1>3, <1>4 DEF envState
<1> USE DEF Inherited, Layered, Names
<1>5. ASSUME ReceiveInit(g)
      PROVE  Exact(g)'
  <2>1. pc[g] = "init" /\ pc'[g] \in {"publish", "close mux"}
        /\ procEnv' = procEnv
    BY <1>5 DEF ReceiveInit, Goto, TypeOK
  <2> QED
    BY <1>1, <1>3, <2>1
<1>6. ASSUME PublishInit(g)
      PROVE  Exact(g)'
  BY <1>4, <1>6 DEF PublishInit, Goto, TypeOK
<1>7. ASSUME Acknowledge(g)
      PROVE  Exact(g)'
  BY <1>4, <1>7 DEF Acknowledge, Goto, TypeOK
<1>8. ASSUME SetEnvironment(g)
      PROVE  Exact(g)'
  BY <1>1, <1>3, <1>8 DEF SetEnvironment, Goto, TypeOK
<1>9. ASSUME StartAgentForwarder(g) \/ StartGPGForwarder(g)
             \/ StartGitCredForwarder(g)
      PROVE  Exact(g)'
  BY <1>4, <1>9 DEF StartAgentForwarder, StartGPGForwarder,
    StartGitCredForwarder, StartForwarder, Goto, TypeOK
<1>10. ASSUME ReceiveEnvironment(g)
      PROVE  Exact(g)'
  BY <1>4, <1>10 DEF ReceiveEnvironment, Goto, TypeOK
<1>11. ASSUME AdjustEnvironment(g)
      PROVE  Exact(g)'
  <2>1. pc[g] = "update" /\ inbox[g] # <<>>
    BY <1>11 DEF AdjustEnvironment, SentInv
  <2>2. Head(inbox[g]) \in Envs
    BY <2>1, HeadTailProperties DEF TypeOK
  <2>3. Adjusted(g, Head(inbox[g])) = Merge(base, Head(inbox[g]))
    BY <1>3, <2>1, <2>2, AdjustedIsExact
  <2>4. /\ pc'[g] = "serve" /\ envVars'[g] = Head(inbox[g])
        /\ procEnv'[g] = Adjusted(g, Head(inbox[g]))
    BY <1>11 DEF AdjustEnvironment, Goto, TypeOK
  <2> QED
    BY <1>1, <2>3, <2>4
<1>12. ASSUME NoticeLoss(g)
      PROVE  Exact(g)'
  BY <1>4, <1>12 DEF NoticeLoss, Goto, TypeOK
<1>13. ASSUME CloseExecs(g)
      PROVE  Exact(g)'
  BY <1>4, <1>13 DEF CloseExecs, Goto, TypeOK
<1>14. ASSUME CloseAgentForwarder(g) \/ CloseGPGForwarder(g)
             \/ CloseGitCredForwarder(g)
      PROVE  Exact(g)'
  BY <1>4, <1>14 DEF CloseAgentForwarder, CloseGPGForwarder,
    CloseGitCredForwarder, CloseForwarder, Goto, TypeOK
<1>15. ASSUME PublishFails(g)
      PROVE  Exact(g)'
  BY <1>4, <1>15 DEF PublishFails, Goto, TypeOK
<1>16. ASSUME CloseMux(g)
      PROVE  Exact(g)'
  BY <1>4, <1>16 DEF CloseMux, Goto, TypeOK, Ended
<1>17. Exact(g)'
  BY <1>5, <1>6, <1>7, <1>8, <1>9, <1>10, <1>11, <1>12, <1>13, <1>14, <1>15,
    <1>16 DEF Initialize, Serve, Cleanup
<1> QED
  BY <1>2, <1>17 DEF LayersInv

LEMMA LayersConnect ==
  ASSUME TypeOK, StartedInv, LayersInv, NEW env \in Envs, Connect(env)
  PROVE  LayersInv'
<1>1. PICK g \in Generations :
        /\ procEnv' = [procEnv EXCEPT ![g] = base]
        /\ pc' = [pc EXCEPT ![g] = "init"] /\ UNCHANGED <<base, envVars>>
  BY NextIsNew
<1> QED
  BY <1>1 DEF LayersInv, TypeOK, Inherited, Layered, Names

LEMMA LayersKill ==
  ASSUME TypeOK, LayersInv, NEW g \in Generations, Kill(g)
  PROVE  LayersInv'
<1>1. pc' = [pc EXCEPT ![g] = "killed"] /\ UNCHANGED <<base, envState>>
  BY DEF Kill, Goto
<1> QED
  BY <1>1 DEF LayersInv, TypeOK, Inherited, Layered, Names, envState

-----------------------------------------------------------------------------
(* Environments on their way from the host *)

\* The endpoint takes the oldest message: the newest stays the newest.
LEMMA LatestReceived ==
  ASSUME TypeOK, NEW g \in Generations, inbox[g] # <<>>,
         envVars' = [envVars EXCEPT ![g] = Head(inbox[g])],
         inbox' = [inbox EXCEPT ![g] = Tail(@)]
  PROVE  Latest(g)' = Latest(g)
<1>1. PICK queue \in Seq(Envs) :
        /\ queue = inbox[g] /\ queue # <<>> /\ inbox'[g] = Tail(queue)
        /\ envVars'[g] = Head(queue)
  BY DEF TypeOK
<1>2. /\ Len(queue) \in Nat \ {0} /\ Len(Tail(queue)) = Len(queue) - 1
      /\ Tail(queue) \in Seq(Envs) /\ Head(queue) = queue[1]
      /\ \A i \in 1..Len(Tail(queue)) : Tail(queue)[i] = queue[i + 1]
  <2>1. Len(queue) \in Nat \ {0}
    BY <1>1, LenProperties, EmptySeq
  <2> QED
    BY <1>1, <2>1, HeadTailProperties
<1>3. Latest(g) = queue[Len(queue)]
  BY <1>1 DEF Latest
<1>4. CASE Tail(queue) = <<>>
  <2>1. Len(Tail(queue)) = 0
    BY <1>4, EmptySeq
  <2>2. Latest(g)' = Head(queue)
    BY <1>1, <1>4 DEF Latest
  <2>3. Len(queue) = 1
    <3>1. Len(queue) \in Nat /\ Len(Tail(queue)) = Len(queue) - 1
      BY <1>2
    <3> QED
      BY <2>1, <3>1
  <2> QED
    BY <1>2, <1>3, <2>2, <2>3
<1>5. CASE Tail(queue) # <<>>
  <2>1. Len(Tail(queue)) # 0
    BY <1>2, <1>5, EmptySeq
  <2>2. Tail(queue)[Len(Tail(queue))] = queue[Len(queue)]
    BY <1>2, <2>1
  <2> QED
    BY <1>1, <1>3, <1>5, <2>2 DEF Latest
<1> QED
  BY <1>4, <1>5

\* A message is behind those that are under way, if there are any.
LEMMA LatestSent ==
  ASSUME TypeOK, NEW g \in Generations, NEW env \in Envs,
         inbox' = [inbox EXCEPT ![g] = Append(@, env)]
  PROVE  /\ Latest(g)' = env
         /\ inbox'[g] # <<>>
         /\ inbox[g] # <<>> => Head(inbox'[g]) = Head(inbox[g])
<1>1. inbox[g] \in Seq(Envs) /\ inbox'[g] = Append(inbox[g], env)
  BY DEF TypeOK
<1>2. /\ Append(inbox[g], env) # <<>>
      /\ Len(Append(inbox[g], env)) = Len(inbox[g]) + 1
      /\ Append(inbox[g], env)[Len(inbox[g]) + 1] = env
      /\ \A i \in 1..Len(inbox[g]) : Append(inbox[g], env)[i] = inbox[g][i]
      /\ Append(inbox[g], env) \in Seq(Envs)
  BY <1>1, AppendProperties
<1>3. ASSUME inbox[g] # <<>>
      PROVE  Head(inbox'[g]) = Head(inbox[g])
  <2>1. 1 \in 1..Len(inbox[g])
    BY <1>1, <1>3, LenProperties, EmptySeq
  <2> QED
    BY <1>1, <1>2, <1>3, <2>1, HeadTailProperties
<1> QED
  BY <1>1, <1>2, <1>3 DEF Latest

LEMMA SentRun ==
  ASSUME TypeOK, StartedInv, SentInv, NEW g \in Generations,
         Initialize(g) \/ Serve(g) \/ Cleanup(g)
  PROVE  SentInv' /\ Latest(g)' = Latest(g)
<1> DEFINE Busy(h) == pc[h] = "update" => inbox[h] # <<>>
<1>1. /\ sent' = sent /\ pc' = [pc EXCEPT ![g] = pc'[g]]
      /\ link' = link \/ link' = 0
      /\ \A h \in Generations \ {g} :
           inbox'[h] = inbox[h] /\ envVars'[h] = envVars[h]
  BY RunFrame
<1>2. ASSUME ReceiveInit(g)
      PROVE  Latest(g)' = Latest(g) /\ pc'[g] # "update"
  <2>1. pc'[g] # "update"
    BY <1>2 DEF ReceiveInit, Goto, TypeOK
  <2>2. CASE inbox[g] = <<>>
    BY <1>2, <2>1, <2>2 DEF ReceiveInit, Latest
  <2>3. CASE inbox[g] # <<>>
    BY <1>2, <2>1, <2>3, LatestReceived DEF ReceiveInit
  <2> QED
    BY <2>1, <2>2, <2>3
<1>3. ASSUME AdjustEnvironment(g)
      PROVE  Latest(g)' = Latest(g) /\ pc'[g] # "update"
  <2>1. inbox[g] # <<>> /\ pc'[g] # "update"
    BY <1>3 DEF AdjustEnvironment, SentInv, Goto, TypeOK
  <2> QED
    BY <1>3, <2>1, LatestReceived DEF AdjustEnvironment
<1>4. ASSUME ReceiveEnvironment(g)
      PROVE  UNCHANGED <<inbox, envVars>> /\ inbox[g] # <<>>
  BY <1>4 DEF ReceiveEnvironment, envState
<1>5. ASSUME \/ PublishInit(g) \/ Acknowledge(g) \/ SetEnvironment(g)
             \/ StartAgentForwarder(g) \/ StartGPGForwarder(g)
             \/ StartGitCredForwarder(g) \/ NoticeLoss(g)
             \/ PublishFails(g) \/ Cleanup(g)
      PROVE  UNCHANGED <<inbox, envVars>> /\ pc'[g] # "update"
  <2>1. UNCHANGED <<inbox, envVars>>
    BY <1>5 DEF PublishInit, Acknowledge, SetEnvironment, StartAgentForwarder,
      StartGPGForwarder, StartGitCredForwarder, StartForwarder, NoticeLoss,
      PublishFails, Cleanup, CloseExecs, CloseAgentForwarder, CloseGPGForwarder,
      CloseGitCredForwarder, CloseForwarder, CloseMux, envState
  <2>2. pc'[g] # "update"
    BY <1>5 DEF PublishInit, Acknowledge, SetEnvironment, StartAgentForwarder,
      StartGPGForwarder, StartGitCredForwarder, StartForwarder, NoticeLoss,
      PublishFails, Cleanup, CloseExecs, CloseAgentForwarder, CloseGPGForwarder,
      CloseGitCredForwarder, CloseForwarder, CloseMux, Goto, TypeOK
  <2> QED
    BY <2>1, <2>2
<1>6. Latest(g)' = Latest(g) /\ Busy(g)'
  BY <1>2, <1>3, <1>4, <1>5 DEF Initialize, Serve, Latest
<1>7. \A h \in Generations \ {g} :
        Latest(h)' = Latest(h) /\ (Busy(h) => Busy(h)')
  BY <1>1 DEF Latest, TypeOK
<1>8. link # 0 => link \in Generations
  BY BridgeIsNewest
<1> QED
  BY <1>1, <1>6, <1>7, <1>8 DEF SentInv

LEMMA SentHost ==
  ASSUME TypeOK, StartedInv, SentInv, NEW env \in Envs,
         Connect(env) \/ SendEnvironment(env)
  PROVE  SentInv'
<1>1. CASE Connect(env)
  <2>1. PICK g \in Generations :
          /\ link' = g /\ pc' = [pc EXCEPT ![g] = "init"]
          /\ sent' = [sent EXCEPT ![g] = env]
          /\ inbox' = [inbox EXCEPT ![g] = <<env>>]
    BY <1>1, NextIsNew
  <2>2. \A h \in Generations : pc'[h] = "update" => inbox'[h] # <<>>
    BY <2>1 DEF TypeOK, SentInv
  <2>3. inbox'[g] = <<env>> /\ sent'[g] = env
    BY <2>1 DEF TypeOK
  <2>4. Latest(g)' = env
    BY <2>3 DEF Latest
  <2> QED
    BY <2>1, <2>2, <2>3, <2>4 DEF SentInv
<1>2. CASE SendEnvironment(env)
  <2>1. /\ link # 0 /\ inbox' = [inbox EXCEPT ![link] = Append(@, env)]
        /\ sent' = [sent EXCEPT ![link] = env] /\ UNCHANGED <<link, pc>>
    BY <1>2 DEF SendEnvironment
  <2>2. link \in Generations
    BY <2>1, BridgeIsNewest
  <2>3. Latest(link)' = env /\ inbox'[link] # <<>>
    BY <2>1, <2>2, LatestSent
  <2>4. sent'[link] = env
    BY <2>1, <2>2 DEF TypeOK
  <2>5. \A h \in Generations : pc'[h] = "update" => inbox'[h] # <<>>
    BY <2>1, <2>3 DEF TypeOK, SentInv
  <2> QED
    BY <2>1, <2>3, <2>4, <2>5 DEF SentInv, Latest
<1> QED
  BY <1>1, <1>2

LEMMA SentFault ==
  ASSUME TypeOK, StartedInv, SentInv,
         LoseBridge \/ \E g \in Generations : Kill(g)
  PROVE  SentInv'
<1>1. CASE LoseBridge
  <2>1. PICK n \in (IF pc[link] = "update" THEN 1 ELSE 0)..Len(inbox[link]) :
          inbox' = [inbox EXCEPT ![link] = SubSeq(@, 1, n)]
    BY <1>1 DEF LoseBridge
  <2>2. link' = 0 /\ pc' = pc /\ link \in Generations
    BY <1>1, BridgeIsNewest DEF LoseBridge
  <2>3. ASSUME pc[link] = "update"
        PROVE  inbox'[link] # <<>>
    <3>1. /\ inbox[link] \in Seq(Envs) /\ Len(inbox[link]) \in Nat
          /\ n \in 1..Len(inbox[link])
      BY <2>1, <2>2, <2>3, LenProperties DEF TypeOK
    <3>2. Len(SubSeq(inbox[link], 1, n)) = n
      BY <3>1, SubSeqProperties
    <3>3. inbox'[link] = SubSeq(inbox[link], 1, n)
      BY <2>1, <2>2 DEF TypeOK
    <3>4. Len(inbox'[link]) # 0
      BY <3>1, <3>2, <3>3
    <3> QED
      BY <3>4, EmptySeq
  <2> QED
    BY <2>1, <2>2, <2>3 DEF SentInv, TypeOK
<1>2. ASSUME NEW g \in Generations, Kill(g)
      PROVE  SentInv'
  <2>1. /\ pc' = [pc EXCEPT ![g] = "killed"]
        /\ inbox' = [inbox EXCEPT ![g] = <<>>]
        /\ link' = IF link = g THEN 0 ELSE link
        /\ UNCHANGED <<sent, envVars>>
    BY <1>2 DEF Kill, Goto, envState
  <2>2. \A h \in Generations : pc'[h] = "update" => inbox'[h] # <<>>
    BY <2>1 DEF TypeOK, SentInv
  <2>3. link' # 0 => link' \in Generations \ {g} /\ link' = link
    BY <2>1, BridgeIsNewest
  <2>4. \A h \in Generations \ {g} : Latest(h)' = Latest(h)
    BY <2>1 DEF Latest, TypeOK
  <2> QED
    BY <2>1, <2>2, <2>3, <2>4 DEF SentInv
<1> QED
  BY <1>1, <1>2

-----------------------------------------------------------------------------
(* The published file *)

\* An older endpoint that writes the file late says so.
LEMMA FileRun ==
  ASSUME TypeOK, StartedInv, SentInv, FileInv, NEW g \in Generations,
         Initialize(g) \/ Serve(g) \/ Cleanup(g)
  PROVE  FileInv'
<1>0. link' = link \/ link' = 0
  BY RunFrame
<1>1. /\ pc' = [pc EXCEPT ![g] = pc'[g]] /\ pc[g] # "none"
      /\ \A h \in Generations \ {g} :
           inbox'[h] = inbox[h] /\ envVars'[h] = envVars[h]
  BY RunFrame
<1>2. link # 0 => link \in Generations /\ (g # link => g < link)
  BY <1>1, BridgeIsNewest, EndpointAssumption DEF Generations
<1>3. \/ UNCHANGED fileVars
      \/ writer' = g
  BY DEF Initialize, ReceiveInit, PublishInit, Publish, Acknowledge,
    SetEnvironment, StartAgentForwarder, StartGPGForwarder,
    StartGitCredForwarder, StartForwarder, Serve, ReceiveEnvironment,
    AdjustEnvironment, NoticeLoss, PublishFails, Cleanup, CloseExecs,
    CloseAgentForwarder, CloseGPGForwarder, CloseGitCredForwarder,
    CloseForwarder, CloseMux
<1>4. CASE link' = 0
  BY <1>4 DEF FileInv
<1>5. CASE link' = link /\ link # 0 /\ g # link
  <2>1. writer' = g => ~(writer' >= link)
    BY <1>2, <1>5, EndpointAssumption DEF Generations
  <2> QED
    BY <1>1, <1>2, <1>3, <1>5, <2>1 DEF FileInv, fileVars, TypeOK
<1>6. CASE link' = link /\ link # 0 /\ g = link
  <2> USE DEF FileInv, Goto, TypeOK
  <2>1. CASE ReceiveInit(g)
    BY <1>1, <1>6, <2>1 DEF ReceiveInit, fileVars, Names
  <2>2. CASE PublishInit(g)
    BY <1>1, <1>6, <2>2 DEF PublishInit, Publish, envState, Names
  <2>3. CASE Acknowledge(g)
    BY <1>1, <1>6, <2>3 DEF Acknowledge, envState, fileVars, Names
  <2>4. CASE SetEnvironment(g)
    BY <1>1, <1>6, <2>4 DEF SetEnvironment, fileVars, Names
  <2>5. CASE StartAgentForwarder(g) \/ StartGPGForwarder(g)
             \/ StartGitCredForwarder(g)
    BY <1>1, <1>6, <2>5 DEF StartAgentForwarder, StartGPGForwarder,
      StartGitCredForwarder, StartForwarder, envState, fileVars, Names
  <2>6. CASE ReceiveEnvironment(g)
    BY <1>1, <1>6, <2>6 DEF ReceiveEnvironment, Publish, envState, Names
  <2>7. CASE AdjustEnvironment(g)
    BY <1>1, <1>6, <2>7 DEF AdjustEnvironment, fileVars, Names
  <2>8. CASE NoticeLoss(g)
    BY <1>6, <2>8 DEF NoticeLoss
  <2>9. CASE PublishFails(g) \/ Cleanup(g)
    <3>1. pc'[g] \in Closing \cup {"gone"}
      BY <2>9 DEF PublishFails, Cleanup, CloseExecs, CloseAgentForwarder,
        CloseGPGForwarder, CloseGitCredForwarder, CloseForwarder, CloseMux,
        Closing
    <3> QED
      BY <1>6, <3>1 DEF Closing, Names
  <2> QED
    BY <2>1, <2>2, <2>3, <2>4, <2>5, <2>6, <2>7, <2>8, <2>9
    DEF Initialize, Serve
<1> QED
  BY <1>0, <1>4, <1>5, <1>6

LEMMA FileHost ==
  ASSUME TypeOK, StartedInv, SentInv, FileInv, NEW env \in Envs,
         Connect(env) \/ SendEnvironment(env)
  PROVE  FileInv'
<1>1. CASE Connect(env)
  <2>1. PICK g \in Generations : link' = g /\ pc' = [pc EXCEPT ![g] = "init"]
    BY <1>1, NextIsNew
  <2>2. pc'[link'] = "init"
    BY <2>1 DEF TypeOK
  <2> QED
    BY <2>2 DEF FileInv, Names
<1>2. CASE SendEnvironment(env)
  <2>1. /\ link # 0 /\ inbox' = [inbox EXCEPT ![link] = Append(@, env)]
        /\ UNCHANGED <<link, pc, envVars, fileVars>>
    BY <1>2 DEF SendEnvironment, envState
  <2>2. link \in Generations
    BY <2>1, BridgeIsNewest
  <2>3. pc[link] = "update" => Head(inbox'[link]) = Head(inbox[link])
    BY <2>1, <2>2, LatestSent DEF SentInv
  <2> QED
    BY <2>1, <2>3 DEF FileInv, fileVars
<1> QED
  BY <1>1, <1>2

LEMMA FileFault ==
  ASSUME TypeOK, StartedInv, FileInv,
         LoseBridge \/ \E g \in Generations : Kill(g)
  PROVE  FileInv'
<1>1. CASE LoseBridge
  BY <1>1 DEF LoseBridge, FileInv
<1>2. ASSUME NEW g \in Generations, Kill(g)
      PROVE  FileInv'
  <2>1. /\ pc' = [pc EXCEPT ![g] = "killed"]
        /\ inbox' = [inbox EXCEPT ![g] = <<>>]
        /\ link' = IF link = g THEN 0 ELSE link
        /\ UNCHANGED <<fileVars, envVars>>
    BY <1>2 DEF Kill, Goto, envState
  <2>2. link' # 0 => link' \in Generations \ {g} /\ link' = link
    BY <2>1, BridgeIsNewest
  <2> QED
    BY <2>1, <2>2 DEF FileInv, TypeOK, fileVars
<1> QED
  BY <1>1, <1>2

-----------------------------------------------------------------------------
(* The sockets *)

\* Only the step that starts or closes a forwarder touches its socket, and it
\* takes the goroutine into or out of the positions where the socket is there.
LEMMA SocketRun ==
  ASSUME TypeOK, NEW g \in Generations, NEW name \in Forwarded,
         Initialize(g) \/ Serve(g) \/ Cleanup(g)
  PROVE  \/ /\ bound'[name] = bound[name]
            /\ pc'[g] \in Makes(name)
                 <=> pc[g] \in Makes(name) /\ pc'[g] # "execs"
            /\ pc[g] \in Makes(name) \cup Removes(name) =>
                 pc'[g] \in Makes(name) \cup Removes(name)
         \/ bound'[name] = g /\ pc'[g] \in Makes(name)
         \/ bound'[name] = 0 /\ pc[g] \in Closing /\ pc'[g] \notin Makes(name)
<1> DEFINE Keeps ==
      /\ bound'[name] = bound[name]
      /\ pc'[g] \in Makes(name) <=> pc[g] \in Makes(name) /\ pc'[g] # "execs"
      /\ pc[g] \in Makes(name) \cup Removes(name) =>
           pc'[g] \in Makes(name) \cup Removes(name)
<1>1. name \in Names /\ (name = "ssh" \/ name = "gpg" \/ name = "git")
  BY EndpointAssumption DEF Names
<1>2. /\ Makes("ssh") = {"gpg", "git", "serve", "update"}
      /\ Makes("gpg") = {"git", "serve", "update"}
      /\ Makes("git") = {"serve", "update"}
      /\ Removes("ssh") = {"execs", "close ssh"}
      /\ Removes("gpg") = {"execs", "close ssh", "close gpg"}
      /\ Removes("git") = {"execs", "close ssh", "close gpg", "close git"}
  BY DEF Makes, Removes
<1>3. ASSUME ReceiveInit(g) \/ PublishInit(g) \/ Acknowledge(g)
             \/ SetEnvironment(g)
      PROVE  Keeps
  BY <1>1, <1>2, <1>3, ZenonT(30) DEF ReceiveInit, PublishInit, Acknowledge,
    SetEnvironment, Goto, TypeOK, socketVars
<1>4. ASSUME Serve(g) \/ CloseExecs(g)
      PROVE  Keeps
  BY <1>1, <1>2, <1>4, ZenonT(30) DEF Serve, ReceiveEnvironment,
    AdjustEnvironment, NoticeLoss, PublishFails, CloseExecs, Goto, TypeOK,
    socketVars
<1>5. ASSUME StartAgentForwarder(g) \/ StartGPGForwarder(g)
             \/ StartGitCredForwarder(g)
      PROVE  \/ Keeps
             \/ bound'[name] = g /\ pc'[g] \in Makes(name)
  <2>1. ASSUME NEW other \in Names, Bind(g, other)
        PROVE  bound'[name] = IF name = other THEN g ELSE bound[name]
    BY <1>1, <2>1 DEF Bind, TypeOK
  <2>2. CASE StartAgentForwarder(g)
    <3>1. /\ pc[g] = "ssh" /\ pc'[g] = "gpg"
          /\ bound'[name] = IF name = "ssh" THEN g ELSE bound[name]
      BY <2>1, <2>2 DEF StartAgentForwarder, StartForwarder, Goto, TypeOK,
        Names
    <3> QED
      BY <1>1, <1>2, <3>1
  <2>3. CASE StartGPGForwarder(g)
    <3>1. /\ pc[g] = "gpg" /\ pc'[g] = "git"
          /\ bound'[name] = IF name = "gpg" THEN g ELSE bound[name]
      BY <2>1, <2>3 DEF StartGPGForwarder, StartForwarder, Goto, TypeOK,
        Names
    <3> QED
      BY <1>1, <1>2, <3>1
  <2>4. CASE StartGitCredForwarder(g)
    <3>1. /\ pc[g] = "git" /\ pc'[g] = "serve"
          /\ bound'[name] = IF name = "git" THEN g ELSE bound[name]
      BY <2>1, <2>4 DEF StartGitCredForwarder, StartForwarder, Goto, TypeOK,
        Names
    <3> QED
      BY <1>1, <1>2, <3>1
  <2> QED
    BY <1>5, <2>2, <2>3, <2>4
<1>6. ASSUME CloseAgentForwarder(g) \/ CloseGPGForwarder(g)
             \/ CloseGitCredForwarder(g)
      PROVE  \/ Keeps
             \/ /\ bound'[name] = 0 /\ pc[g] \in Closing
                /\ pc'[g] \notin Makes(name)
  <2>1. ASSUME NEW other \in Names, Unbind(other)
        PROVE  bound'[name] = IF name = other THEN 0 ELSE bound[name]
    BY <1>1, <2>1 DEF Unbind, TypeOK
  <2>2. CASE CloseAgentForwarder(g)
    <3>1. /\ pc[g] = "close ssh" /\ pc'[g] = "close gpg"
          /\ bound'[name] = IF name = "ssh" THEN 0 ELSE bound[name]
      BY <2>1, <2>2 DEF CloseAgentForwarder, CloseForwarder, Goto, TypeOK,
        Names
    <3> QED
      BY <1>1, <1>2, <3>1 DEF Closing
  <2>3. CASE CloseGPGForwarder(g)
    <3>1. /\ pc[g] = "close gpg" /\ pc'[g] = "close git"
          /\ bound'[name] = IF name = "gpg" THEN 0 ELSE bound[name]
      BY <2>1, <2>3 DEF CloseGPGForwarder, CloseForwarder, Goto, TypeOK,
        Names
    <3> QED
      BY <1>1, <1>2, <3>1 DEF Closing
  <2>4. CASE CloseGitCredForwarder(g)
    <3>1. /\ pc[g] = "close git" /\ pc'[g] = "close mux"
          /\ bound'[name] = IF name = "git" THEN 0 ELSE bound[name]
      BY <2>1, <2>4 DEF CloseGitCredForwarder, CloseForwarder, Goto, TypeOK,
        Names
    <3> QED
      BY <1>1, <1>2, <3>1 DEF Closing
  <2> QED
    BY <1>6, <2>2, <2>3, <2>4
<1>7. ASSUME CloseMux(g)
      PROVE  Keeps
  <2>1. /\ pc[g] = "close mux" /\ pc'[g] = "gone"
        /\ bound' = bound
    BY <1>7 DEF CloseMux, Goto, TypeOK, socketVars
  <2> QED
    BY <1>1, <1>2, <2>1
<1> QED
  BY <1>3, <1>4, <1>5, <1>6, <1>7 DEF Initialize, Cleanup

\* An endpoint that has ended takes no step.
LEMMA AloneStays ==
  ASSUME TypeOK, BoundInv, NEW g \in Generations, pc[g] \notin Ended,
         alone' = alone, NEW position, pc' = [pc EXCEPT ![g] = position]
  PROVE  \A h \in Generations : alone'[h] => \A k \in 1..h-1 : pc'[k] \in Ended
<1> SUFFICES ASSUME NEW h \in Generations, alone[h], NEW k \in 1..h-1
             PROVE  pc'[k] \in Ended
  OBVIOUS
<1>1. pc[k] \in Ended /\ k \in Generations
  BY EndpointAssumption DEF BoundInv, Generations
<1> QED
  BY <1>1 DEF TypeOK

LEMMA BoundRun ==
  ASSUME TypeOK, StartedInv, BoundInv, NEW g \in Generations,
         Initialize(g) \/ Serve(g) \/ Cleanup(g)
  PROVE  BoundInv'
<1>0. link' = link \/ link' = 0
  BY RunFrame
<1>1. /\ alone' = alone /\ pc' = [pc EXCEPT ![g] = pc'[g]]
      /\ pc[g] \notin Ended \cup {"none"}
  BY RunFrame
<1>2. \A h \in Generations : alone'[h] => \A k \in 1..h-1 : pc'[k] \in Ended
  BY <1>1, AloneStays
<1>3. ASSUME NEW name \in Forwarded, bound'[name] # 0
      PROVE  pc'[bound'[name]]
               \in Makes(name) \cup Removes(name) \cup {"killed"}
  <2>1. bound[name] \in 0..MaxGenerations
    BY EndpointAssumption DEF TypeOK, Names
  <2>2. CASE bound'[name] = bound[name]
    <3>1. bound[name] \in Generations
      BY <1>3, <2>1, <2>2, EndpointAssumption DEF Generations
    <3>2. pc[bound[name]] \in Makes(name) \cup Removes(name) \cup {"killed"}
      BY <1>3, <2>2 DEF BoundInv
    <3>3. CASE bound[name] # g
      BY <1>1, <2>2, <3>1, <3>2, <3>3 DEF TypeOK
    <3>4. CASE bound[name] = g
      <4>1. pc[g] \in Makes(name) \cup Removes(name)
        BY <1>1, <3>2, <3>4 DEF Ended
      <4>2. pc'[g] \in Makes(name) \cup Removes(name)
        BY <1>3, <2>2, <3>4, <4>1, SocketRun
      <4> QED
        BY <2>2, <3>4, <4>2
    <3> QED
      BY <3>3, <3>4
  <2>3. CASE bound'[name] = g /\ pc'[g] \in Makes(name)
    BY <2>3
  <2> QED
    BY <1>3, <2>2, <2>3, SocketRun
<1>4. ASSUME NEW name \in Forwarded, link # 0, alone[link],
             pc'[link] \in Makes(name)
      PROVE  bound'[name] = link
  <2>1. link \in Generations
    BY <1>4, BridgeIsNewest
  <2>2. g <= link /\ (g < link => pc[g] \in Ended)
    <3>1. g <= link
      BY <1>1, <1>4, BridgeIsNewest
    <3>2. g < link => g \in 1..link-1
      BY <2>1, EndpointAssumption DEF Generations
    <3> QED
      BY <1>4, <2>1, <3>1, <3>2 DEF BoundInv
  <2>3. g = link
    BY <1>1, <2>1, <2>2, EndpointAssumption DEF Generations
  <2>4. CASE /\ bound'[name] = bound[name]
             /\ pc'[g] \in Makes(name) <=>
                  pc[g] \in Makes(name) /\ pc'[g] # "execs"
    BY <1>4, <2>3, <2>4 DEF BoundInv
  <2> QED
    BY <1>4, <2>1, <2>3, <2>4, SocketRun
<1> QED
  BY <1>0, <1>1, <1>2, <1>3, <1>4 DEF BoundInv

LEMMA BoundConnect ==
  ASSUME TypeOK, StartedInv, BoundInv, NEW env \in Envs, Connect(env)
  PROVE  BoundInv'
<1>1. PICK g \in Generations :
        /\ \A h \in Generations : pc[h] # "none" <=> h < g
        /\ link' = g /\ pc' = [pc EXCEPT ![g] = "init"] /\ bound' = bound
        /\ alone' = [alone EXCEPT ![g] = \A h \in 1..g-1 : pc[h] \in Ended]
  BY NextIsNew
<1>2. pc'[g] = "init" /\ pc[g] = "none"
  BY <1>1, EndpointAssumption DEF TypeOK, Generations
<1>3. ASSUME NEW h \in Generations, alone'[h], NEW k \in 1..h-1
      PROVE  pc'[k] \in Ended
  <2>1. k \in Generations
    BY EndpointAssumption DEF Generations
  <2>2. pc[k] \in Ended
    BY <1>1, <1>3 DEF BoundInv, TypeOK
  <2> QED
    BY <1>1, <1>2, <2>1, <2>2 DEF Ended, TypeOK
<1>4. ASSUME NEW name \in Forwarded
      PROVE  /\ "init" \notin Makes(name)
             /\ "none" \notin Makes(name) \cup Removes(name)
  BY EndpointAssumption DEF Makes, Removes
<1>5. ASSUME NEW name \in Forwarded, bound'[name] # 0
      PROVE  pc'[bound'[name]]
               \in Makes(name) \cup Removes(name) \cup {"killed"}
  <2>1. bound[name] \in Generations
    BY <1>1, <1>5, EndpointAssumption DEF TypeOK, Names, Generations
  <2>2. pc[bound[name]] \in Makes(name) \cup Removes(name) \cup {"killed"}
    BY <1>1, <1>5 DEF BoundInv
  <2>3. bound[name] # g
    BY <1>2, <1>4, <2>2
  <2> QED
    BY <1>1, <2>1, <2>2, <2>3 DEF TypeOK
<1> QED
  BY <1>1, <1>2, <1>3, <1>4, <1>5 DEF BoundInv

LEMMA BoundKill ==
  ASSUME TypeOK, StartedInv, BoundInv, NEW g \in Generations, Kill(g)
  PROVE  BoundInv'
<1>1. /\ pc' = [pc EXCEPT ![g] = "killed"] /\ pc[g] \notin Ended
      /\ link' = IF link = g THEN 0 ELSE link
      /\ bound' = bound /\ alone' = alone
  BY DEF Kill, Goto, socketVars
<1>2. \A h \in Generations : alone'[h] => \A k \in 1..h-1 : pc'[k] \in Ended
  BY <1>1, AloneStays
<1>3. ASSUME NEW name \in Forwarded, bound'[name] # 0
      PROVE  pc'[bound'[name]]
               \in Makes(name) \cup Removes(name) \cup {"killed"}
  <2>1. bound[name] \in Generations
    BY <1>1, <1>3, EndpointAssumption DEF TypeOK, Names, Generations
  <2> QED
    BY <1>1, <1>3, <2>1 DEF BoundInv, TypeOK
<1>4. link' # 0 => link' \in Generations \ {g} /\ link' = link
  BY <1>1, BridgeIsNewest
<1> QED
  BY <1>1, <1>2, <1>3, <1>4 DEF BoundInv, TypeOK

-----------------------------------------------------------------------------
(* The shell *)

LEMMA ShellStep ==
  ASSUME TypeOK, ShellInv, NEW g \in Generations,
         StartExec(g) \/ StartLauncher \/ Launch \/ Prompt
  PROVE  ShellInv'
<1>1. CASE StartExec(g)
  BY <1>1 DEF StartExec, ShellInv, NoShell
<1>2. CASE StartLauncher
  <2>1. shell'.at = "launcher" /\ shell'.gen = shell.gen /\ shell.at = "layers"
    BY <1>2 DEF StartLauncher, TypeOK
  <2> QED
    BY <2>1 DEF ShellInv
<1>3. CASE Launch
  <2>1. /\ shell.at = "launcher" /\ shell'.gen = shell.gen
        /\ shell'.base = shell.vars /\ shell'.keys = file
        /\ shell'.vars = Merge(shell.vars, file)
    BY <1>3 DEF Launch, TypeOK
  <2> QED
    BY <2>1 DEF ShellInv
<1>4. CASE Prompt
  <2>1. /\ shell.at = "prompt" /\ shell'.gen = shell.gen
        /\ shell'.base = shell.base /\ shell'.keys = file
        /\ shell'.vars = Reloaded
    BY <1>4 DEF Prompt, TypeOK
  <2> QED
    BY <2>1, ReloadedIsExact DEF ShellInv
<1> QED
  BY <1>1, <1>2, <1>3, <1>4

LEMMA ShellEnds ==
  ASSUME ShellInv, shell' = NoShell \/ shell' = shell
  PROVE  ShellInv'
  BY DEF ShellInv, NoShell

-----------------------------------------------------------------------------
(* The invariant *)

LEMMA EndpointInit == Init => EndpointInv
<1> SUFFICES ASSUME Init PROVE EndpointInv
  OBVIOUS
<1>1. TypeOK /\ link = 0
  BY TypeInit DEF Init
<1>2. StartedInv
  <2>1. \A h \in Generations : pc[h] # "none" <=> h <= 0
    BY EndpointAssumption DEF Init, Generations
  <2> QED
    BY <1>1, <2>1, EndpointAssumption DEF StartedInv
<1>3. LayersInv /\ SentInv /\ FileInv
  BY <1>1 DEF Init, LayersInv, SentInv, FileInv, Inherited, Layered, Names
<1>4. BoundInv
  BY <1>1, EndpointAssumption DEF Init, BoundInv, Names
<1>5. ShellInv
  BY DEF Init, ShellInv, NoShell
<1> QED
  BY <1>1, <1>2, <1>3, <1>4, <1>5 DEF EndpointInv

LEMMA EndpointStutter ==
  ASSUME EndpointInv, UNCHANGED <<base, hostVars, inbox, pc, envState, fileVars,
                                  socketVars, kills>>
  PROVE  /\ StartedInv' /\ LayersInv' /\ SentInv' /\ FileInv' /\ BoundInv'
         /\ shell' = shell => TypeOK'
<1> USE DEF EndpointInv, hostVars, envState, fileVars, socketVars
<1>1. StartedInv' /\ LayersInv' /\ FileInv'
  BY DEF StartedInv, LayersInv, FileInv
<1>2. SentInv' /\ BoundInv'
  BY DEF SentInv, Latest, BoundInv
<1>3. shell' = shell => TypeOK'
  BY DEF TypeOK
<1> QED
  BY <1>1, <1>2, <1>3

LEMMA EndpointStep ==
  ASSUME EndpointInv, [Next]_vars
  PROVE  EndpointInv'
<1>1. ASSUME NEW g \in Generations, Initialize(g) \/ Serve(g) \/ Cleanup(g)
      PROVE  EndpointInv'
  <2>1. TypeOK'
    BY <1>1, TypeRun DEF EndpointInv, SentInv
  <2>2. StartedInv' /\ LayersInv' /\ SentInv' /\ FileInv' /\ BoundInv'
    BY <1>1, StartedRun, LayersRun, SentRun, FileRun, BoundRun DEF EndpointInv
  <2>3. shell' = NoShell \/ shell' = shell
    BY <1>1 DEF Initialize, ReceiveInit, PublishInit, Acknowledge,
      SetEnvironment, StartAgentForwarder, StartGPGForwarder,
      StartGitCredForwarder, StartForwarder, Serve, ReceiveEnvironment,
      AdjustEnvironment, NoticeLoss, PublishFails, Cleanup, CloseExecs,
      CloseAgentForwarder, CloseGPGForwarder, CloseGitCredForwarder,
      CloseForwarder, CloseMux
  <2> QED
    BY <2>1, <2>2, <2>3, ShellEnds DEF EndpointInv
<1>2. ASSUME NEW env \in Envs, Connect(env) \/ SendEnvironment(env)
      PROVE  EndpointInv'
  <2>1. TypeOK' /\ SentInv' /\ FileInv'
    BY <1>2, TypeHost, SentHost, FileHost DEF EndpointInv
  <2>2. shell' = shell
    BY <1>2 DEF Connect, SendEnvironment
  <2>3. CASE Connect(env)
    BY <2>1, <2>2, <2>3, StartedConnect, LayersConnect, BoundConnect, ShellEnds
    DEF EndpointInv
  <2>4. CASE SendEnvironment(env)
    <3>1. UNCHANGED <<base, link, pc, envState, socketVars>>
      BY <2>4 DEF SendEnvironment
    <3>2. StartedInv' /\ LayersInv' /\ BoundInv'
      BY <3>1 DEF EndpointInv, StartedInv, LayersInv, BoundInv, envState,
        socketVars
    <3> QED
      BY <2>1, <2>2, <3>2, ShellEnds DEF EndpointInv
  <2> QED
    BY <1>2, <2>3, <2>4
<1>3. CASE LoseBridge
  <2>1. TypeOK' /\ SentInv' /\ FileInv'
    BY <1>3, TypeFault, SentFault, FileFault DEF EndpointInv
  <2>2. link' = 0 /\ UNCHANGED <<base, pc, envState, socketVars, shell>>
    BY <1>3 DEF LoseBridge
  <2>3. StartedInv' /\ LayersInv' /\ BoundInv'
    BY <2>2 DEF EndpointInv, StartedInv, LayersInv, BoundInv, envState,
      socketVars
  <2> QED
    BY <2>1, <2>2, <2>3, ShellEnds DEF EndpointInv
<1>4. ASSUME NEW g \in Generations, Kill(g)
      PROVE  EndpointInv'
  <2>1. TypeOK' /\ SentInv' /\ FileInv'
    BY <1>4, TypeFault, SentFault, FileFault DEF EndpointInv
  <2>2. StartedInv' /\ LayersInv' /\ BoundInv'
    BY <1>4, StartedKill, LayersKill, BoundKill DEF EndpointInv
  <2>3. shell' = NoShell \/ shell' = shell
    BY <1>4 DEF Kill
  <2> QED
    BY <2>1, <2>2, <2>3, ShellEnds DEF EndpointInv
<1>5. ASSUME NEW g \in Generations,
             StartExec(g) \/ StartLauncher \/ Launch \/ Prompt
      PROVE  EndpointInv'
  <2>1. UNCHANGED <<base, hostVars, inbox, pc, envState, fileVars, socketVars,
                    kills>>
    BY <1>5 DEF StartExec, StartLauncher, Launch, Prompt
  <2>2. TypeOK' /\ ShellInv'
    BY <1>5, TypeShell, ShellStep DEF EndpointInv
  <2> QED
    BY <2>1, <2>2, EndpointStutter DEF EndpointInv
<1>6. CASE UNCHANGED vars
  <2>1. /\ UNCHANGED <<base, hostVars, inbox, pc, envState, fileVars,
                       socketVars,
                       kills>>
        /\ shell' = shell
    BY <1>6 DEF vars
  <2> QED
    BY <2>1, EndpointStutter, ShellEnds DEF EndpointInv
<1>7. 1 \in Generations
  BY EndpointAssumption DEF Generations
<1> QED
  BY <1>1, <1>2, <1>3, <1>4, <1>5, <1>6, <1>7 DEF Next

LEMMA EndpointInvariant == Spec => []EndpointInv
<1>1. EndpointInv /\ [Next]_vars => EndpointInv'
  BY EndpointStep
<1> QED
  BY EndpointInit, <1>1, PTL DEF Spec

-----------------------------------------------------------------------------
(* The theorems *)

\* Messages, files and shells hold environments, and a path leads to nobody or
\* to an endpoint.
THEOREM TypeCorrect == Spec => []TypeOK
<1>1. EndpointInv => TypeOK
  BY DEF EndpointInv
<1> QED
  BY EndpointInvariant, <1>1, PTL

\* What an endpoint gives its processes is exactly the container's environment
\* under the newest one it has handled, after any number of updates.
THEOREM LayersExact == Spec => []LayersAreExact
<1>1. EndpointInv => LayersAreExact
  BY DEF EndpointInv, LayersInv, LayersAreExact, Layered
<1> QED
  BY EndpointInvariant, <1>1, PTL

\* An endpoint with nothing left to read has what the host sent last, and so
\* has the file, unless an endpoint that should be gone wrote it late.
THEOREM PublishedLastSent == Spec => []PublishedIsLastSent
<1>1. EndpointInv => PublishedIsLastSent
  <2> SUFFICES ASSUME EndpointInv, link # 0, pc[link] = "serve",
                      inbox[link] = <<>>
               PROVE  /\ envVars[link] = sent[link]
                      /\ file = sent[link] \/ writer < link
    BY DEF PublishedIsLastSent
  <2>1. envVars[link] = sent[link]
    BY DEF EndpointInv, SentInv, Latest
  <2>2. writer >= link => file = envVars[link]
    BY DEF EndpointInv, FileInv
  <2>3. writer < link \/ writer >= link
    BY EndpointAssumption DEF EndpointInv, TypeOK
  <2> QED
    BY <2>1, <2>2, <2>3
<1> QED
  BY EndpointInvariant, <1>1, PTL

\* The sockets of an endpoint that started alone are its own while it serves
\* the bridge, whatever file a killed one left, and no endpoint that ended by
\* itself leaves one behind.
THEOREM SocketsServed == Spec => []SocketsAreServed
<1>1. EndpointInv => SocketsAreServed
  <2> SUFFICES ASSUME EndpointInv, NEW name \in Forwarded
               PROVE  /\ link # 0 /\ alone[link] /\ pc[link] = "serve" =>
                           bound[name] = link
                      /\ bound[name] # 0 => pc[bound[name]] # "gone"
    BY DEF SocketsAreServed
  <2>1. /\ "serve" \in Makes(name)
        /\ "gone" \notin Makes(name) \cup Removes(name) \cup {"killed"}
    BY EndpointAssumption DEF Makes, Removes
  <2> QED
    BY <2>1 DEF EndpointInv, BoundInv
<1> QED
  BY EndpointInvariant, <1>1, PTL

\* At a prompt a variable that is no longer published has the value that the
\* shell's launcher had inherited, over any number of reloads.
THEOREM ShellRestored == Spec => []ShellRestores
<1>1. EndpointInv => ShellRestores
  <2> SUFFICES ASSUME EndpointInv, shell.at = "prompt", shell.keys = file,
                      NEW k \in Keys, shell.base[k] = base[k]
               PROVE  shell.vars[k] = Merge(base, file)[k]
    BY DEF ShellRestores
  <2>1. /\ base \in Envs /\ file \in Envs /\ shell.base \in Envs
        /\ shell.vars = Merge(shell.base, file)
    BY DEF EndpointInv, TypeOK, ShellInv
  <2> QED
    BY <2>1, MergeLayers
<1> QED
  BY EndpointInvariant, <1>1, PTL
=============================================================================
