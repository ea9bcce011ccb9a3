--------------------------- MODULE TerminalProofs ---------------------------
(***************************************************************************)
(* That a client has one connection at most, and that what it reports of    *)
(* its process is true, for every number of signals, keys, bridges that     *)
(* fail and instances that end, in all modes.                               *)
(*                                                                         *)
(* RunInv says for each position of the goroutine that runs the command     *)
(* which session it has, whether its connection is open, and what may have  *)
(* become of its process.                                                   *)
(***************************************************************************)
EXTENDS Terminal, FiniteSetTheorems, SequenceTheorems, TLAPS

States == {"ready", "reconnecting", "stopping", "stopped"}

WorldInv ==
  /\ inst \in States /\ changes \in 0..MaxChanges
  /\ events \in Seq(States)
  /\ Len(events) <= MaxEvents + (IF inst = "stopped" THEN 2 ELSE 1)

ConnsInv ==
  /\ exec \in [Sessions -> {"none", "asked", "not_ready", "refused", "running"}
                           \cup Ends]
  /\ fill \in [Sessions -> 0..Room]

\* Who writes to which session, and the signals that are pending.
WritersInv ==
  /\ ev \in Sessions \cup {0} /\ input \in Sessions \cup {0}
  /\ signals \in Seq(Signals) /\ arrived \in 0..MaxSignals
  /\ typed \in 0..MaxInput

FlagsInv == first \in BOOLEAN /\ readyCh \in BOOLEAN /\ timer \in BOOLEAN

Outcomes == {"none", "lost", "HUP", "TERM"}

MainInv ==
  /\ mode \in Modes
  /\ pc \in {"start", "reply", "install", "resize", "read", "close", "wait",
             "select", "left"}
  /\ cur \in Sessions \cup {0} /\ session \in Sessions \cup {0}
  /\ state \in States
  /\ quitCode \in Outcomes /\ result \in Outcomes \cup {"exit", "error"}

Between == {"start", "wait", "select"}     \* has no session

\* The process of the session was lost, or was never started.
Over == cur = 0 \/ exec[cur] \in {"lost", "not_ready"}

\* Closed by a handler of signals or states, for a reason that is kept.
Told == mode # "exec" /\ (mode = "shell" => quitCode # "none")

RunInv ==
  /\ open \subseteq {cur} \ {0}
  /\ pc \in Between \cup {"left"} => open = {}
  /\ pc \in {"reply", "install", "resize", "read"} => cur # 0
  /\ pc \in {"resize", "read"} => session = cur /\ ~first
  /\ pc \notin {"resize", "read"} => session = 0
  /\ pc \in {"reply", "install"} => open = {cur}
  /\ pc \in {"install", "resize", "read"} => exec[cur] \in {"running"} \cup Ends
  /\ pc \in {"resize", "read"} /\ cur \notin open => Told
  /\ pc \in {"wait", "select"} => ~first
  /\ pc \in Between \cup {"reply"} /\ ~first => mode = "shell"
  /\ pc \in Between => Over \/ (pc = "wait" /\ quitCode # "none")
  /\ first /\ pc = "start" => cur = 0

\* Once it has left, a process that runs on is that of a session closed for the
\* reported reason.
LeftInv ==
  pc = "left" =>
    /\ result = "exit" => cur # 0 /\ exec[cur] = "exited"
    /\ cur # 0 /\ exec[cur] \in {"running", "exited"} =>
         /\ result \in {"exit", IF mode = "shell" THEN quitCode ELSE "lost"}
         /\ result = "lost" => mode # "exec"
    /\ cur # 0 => cur \notin open

TerminalInv ==
  WorldInv /\ ConnsInv /\ WritersInv /\ FlagsInv /\ MainInv /\ RunInv /\ LeftInv

-----------------------------------------------------------------------------
(* The instance, its processes and the writers: types *)

LEMMA Bounds ==
  /\ Room \in Nat /\ MaxSignals \in Nat /\ MaxInput \in Nat
  /\ MaxEvents \in Nat /\ MaxChanges \in Nat
  /\ 0 \notin Sessions
  BY TerminalAssumption DEF Sessions

LEMMA TypesInit ==
  ASSUME Init
  PROVE  WorldInv /\ ConnsInv /\ WritersInv /\ FlagsInv /\ MainInv
<1> USE Bounds, EmptySeq DEF Init
<1>1. WorldInv
  <2>1. inst \in States /\ <<inst>> \in Seq(States) /\ Len(<<inst>>) = 1
    BY DEF States
  <2>2. events = <<>> \/ events = <<inst>>
    OBVIOUS
  <2>3. events \in Seq(States) /\ Len(events) \in 0..1
    BY <2>1, <2>2
  <2> QED
    BY <2>1, <2>3 DEF WorldInv
<1>2. ConnsInv
  BY DEF ConnsInv
<1>3. WritersInv
  BY DEF WritersInv
<1>4. first \in BOOLEAN /\ readyCh \in BOOLEAN /\ timer \in BOOLEAN
  OBVIOUS
<1>5. MainInv
  BY DEF MainInv, States, Outcomes
<1> QED
  BY <1>1, <1>2, <1>3, <1>4, <1>5 DEF FlagsInv

\* The stream of the instance takes one state more once it has stopped.
LEMMA WorldAnnounce ==
  ASSUME WorldInv, inst # "stopped", NEW s \in States, Announce(s),
         s = "stopped" \/ Len(events) < MaxEvents, changes' \in 0..MaxChanges
  PROVE  WorldInv'
<1>1. /\ events \in Seq(States) /\ Len(events) \in Nat
      /\ Len(events) <= MaxEvents + 1
  <2>1. events \in Seq(States) /\ Len(events) <= MaxEvents + 1
    BY DEF WorldInv
  <2>2. Len(events) \in Nat
    BY <2>1, LenProperties
  <2> QED
    BY <2>1, <2>2, Bounds
<1>2. /\ Append(events, s) \in Seq(States)
      /\ Len(Append(events, s)) = Len(events) + 1
  BY <1>1, AppendProperties
<1>3. inst' = s /\ (events' = Append(events, s) \/ events' = events)
  BY DEF Announce
<1>4. events' \in Seq(States) /\ inst' \in States
  BY <1>1, <1>2, <1>3
<1>5. Len(events') <= MaxEvents + (IF inst' = "stopped" THEN 2 ELSE 1)
  BY <1>1, <1>2, <1>3, Bounds
<1> QED
  BY <1>4, <1>5 DEF WorldInv

LEMMA WorldStep ==
  ASSUME WorldInv, [Next]_vars
  PROVE  WorldInv'
<1>1. ASSUME UNCHANGED world
      PROVE  WorldInv'
  BY <1>1 DEF world, WorldInv
<1>2. CASE LoseBridge \/ Recover
  BY <1>2, WorldAnnounce, Bounds DEF LoseBridge, Recover, WorldInv, States
<1>3. CASE StopInstance \/ InstanceEnds
  BY <1>3, WorldAnnounce DEF StopInstance, InstanceEnds, WorldInv, States
<1>4. CASE HandleState
  <2>1. /\ events \in Seq(States) /\ Len(events) \in Nat
        /\ Tail(events) \in Seq(States)
        /\ Len(Tail(events)) = Len(events) - 1
    BY <1>4, HeadTailProperties, LenProperties DEF HandleState, WorldInv
  <2>2. events' = Tail(events) /\ UNCHANGED <<inst, changes>>
    BY <1>4 DEF HandleState
  <2> QED
    BY <2>1, <2>2, Bounds DEF WorldInv
<1>5. ASSUME Run
      PROVE  UNCHANGED world
  BY <1>5 DEF Run, Ask, NoSocket, Rejected, Accepted, Install, Resize, ReadExit,
    ReadLost, Wait, Select
<1>6. ASSUME HangUp \/ ForwardSignal \/ SignalWritten \/ ReadInput
             \/ InputWritten \/ TimerFires
      PROVE  UNCHANGED world
  BY <1>6 DEF HangUp, ForwardSignal, SignalWritten, ReadInput, InputWritten,
    TimerFires
<1>7. ASSUME NEW sig \in Signals, SignalArrives(sig)
      PROVE  UNCHANGED world
  BY <1>7 DEF SignalArrives
<1>8. ASSUME NEW s \in Sessions, Answer(s) \/ ProcessReads(s) \/ ProcessExits(s)
      PROVE  UNCHANGED world
  BY <1>8 DEF Answer, ProcessReads, ProcessExits
<1>9. CASE UNCHANGED vars
  BY <1>1, <1>9 DEF vars
<1> QED
  BY <1>1, <1>2, <1>3, <1>4, <1>5, <1>6, <1>7, <1>8, <1>9
  DEF Next, HandleEvents

\* A write that ends left what had room, or failed.
LEMMA Written ==
  ASSUME ConnsInv, NEW s \in Sessions, WriteEnds(s), Write(s)
  PROVE  fill' \in [Sessions -> 0..Room]
<1>1. CASE Fails(s)
  BY <1>1 DEF Write, ConnsInv
<1>2. CASE ~Fails(s)
  <2>1. fill' = [fill EXCEPT ![s] = @ + 1] /\ fill[s] < Room
    BY <1>2 DEF Write, WriteEnds
  <2>2. fill[s] + 1 \in 0..Room
    BY <2>1, Bounds DEF ConnsInv
  <2> QED
    BY <2>1, <2>2 DEF ConnsInv
<1> QED
  BY <1>1, <1>2

\* What a lost bridge and the end of the instance do to an exec.
LEMMA LostExecs ==
  ASSUME ConnsInv, Lost
  PROVE  /\ exec' \in [Sessions -> {"none", "asked", "not_ready", "refused",
                                    "running"} \cup Ends]
         /\ \A s \in Sessions :
              \/ exec'[s] = exec[s] /\ exec[s] \notin {"running", "asked"}
              \/ exec[s] = "running" /\ exec'[s] = "lost"
              \/ exec[s] = "asked" /\ exec'[s] \in {"not_ready", "refused"}
<1>1. PICK reply \in {"not_ready", "refused"} :
        exec' = [s \in Sessions |-> CASE exec[s] = "running" -> "lost"
                                      [] exec[s] = "asked" -> reply
                                      [] OTHER -> exec[s]]
  BY DEF Lost
<1>2. ASSUME NEW s \in Sessions
      PROVE  \/ exec'[s] = exec[s] /\ exec[s] \notin {"running", "asked"}
             \/ exec[s] = "running" /\ exec'[s] = "lost"
             \/ exec[s] = "asked" /\ exec'[s] \in {"not_ready", "refused"}
  BY <1>1
<1>3. ASSUME NEW s \in Sessions
      PROVE  exec'[s] \in {"none", "asked", "not_ready", "refused", "running"}
                          \cup Ends
  BY <1>2 DEF ConnsInv, Ends
<1> QED
  BY <1>1, <1>2, <1>3

LEMMA ConnsStep ==
  ASSUME ConnsInv, WritersInv, MainInv, RunInv, [Next]_vars
  PROVE  ConnsInv'
<1>1. ASSUME UNCHANGED <<exec, fill>>
      PROVE  ConnsInv'
  BY <1>1 DEF ConnsInv
<1>2. CASE LoseBridge \/ InstanceEnds
  BY <1>2, LostExecs DEF LoseBridge, InstanceEnds, ConnsInv
<1>3. CASE Ask
  BY <1>3, Bounds DEF Ask, ConnsInv
<1>4. CASE Resize
  <2>1. cur \in Sessions
    BY <1>4 DEF Resize, RunInv, MainInv
  <2> QED
    BY <1>4, <2>1, Written DEF Resize, ConnsInv
<1>5. CASE SignalWritten
  BY <1>5, Written DEF SignalWritten, ConnsInv, WritersInv
<1>6. CASE InputWritten
  BY <1>6, Written DEF InputWritten, ConnsInv, WritersInv
<1>7. ASSUME NEW s \in Sessions, Answer(s) \/ ProcessReads(s) \/ ProcessExits(s)
      PROVE  ConnsInv'
  <2>1. CASE Answer(s)
    BY <2>1 DEF Answer, ConnsInv
  <2>2. CASE ProcessReads(s)
    <3>1. fill[s] - 1 \in 0..Room
      BY <2>2, Bounds DEF ProcessReads, ConnsInv
    <3> QED
      BY <2>2, <3>1 DEF ProcessReads, ConnsInv
  <2>3. CASE ProcessExits(s)
    BY <2>3 DEF ProcessExits, ConnsInv, Ends
  <2> QED
    BY <1>7, <2>1, <2>2, <2>3
<1>8. ASSUME \/ NoSocket \/ Rejected \/ Accepted \/ Install \/ ReadExit
             \/ ReadLost \/ Wait \/ Select
      PROVE  UNCHANGED <<exec, fill>>
  BY <1>8 DEF NoSocket, Rejected, Accepted, Install, ReadExit, ReadLost, Wait,
    Select, conns
<1>9. ASSUME \/ HangUp \/ ForwardSignal \/ HandleState \/ ReadInput
             \/ TimerFires \/ Recover \/ StopInstance
      PROVE  UNCHANGED <<exec, fill>>
  BY <1>9 DEF HangUp, ForwardSignal, HandleState, ReadInput, TimerFires,
    Recover, StopInstance, conns
<1>10. ASSUME NEW sig \in Signals, SignalArrives(sig)
       PROVE  UNCHANGED <<exec, fill>>
  BY <1>10 DEF SignalArrives, conns
<1>11. CASE UNCHANGED vars
  BY <1>1, <1>11 DEF vars, conns
<1> QED
  BY <1>1, <1>2, <1>3, <1>4, <1>5, <1>6, <1>7, <1>8, <1>9, <1>10, <1>11
  DEF Next, Run, HandleEvents

LEMMA WritersStep ==
  ASSUME WritersInv, MainInv, [Next]_vars
  PROVE  WritersInv'
<1>1. ASSUME UNCHANGED <<sigs, ev, keys>>
      PROVE  WritersInv'
  BY <1>1 DEF sigs, keys, WritersInv
<1>2. signals # <<>> => Tail(signals) \in Seq(Signals)
  BY HeadTailProperties DEF WritersInv
<1>3. CASE HangUp \/ ForwardSignal
  BY <1>2, <1>3 DEF HangUp, ForwardSignal, WritersInv, MainInv, keys, model
<1>4. CASE SignalWritten
  BY <1>4 DEF SignalWritten, WritersInv, sigs, keys
<1>5. CASE ReadInput
  BY <1>5, Bounds DEF ReadInput, WritersInv, MainInv, sigs
<1>6. CASE InputWritten
  BY <1>6 DEF InputWritten, WritersInv, sigs
<1>7. ASSUME NEW sig \in Signals, SignalArrives(sig)
      PROVE  WritersInv'
  <2>1. Append(signals, sig) \in Seq(Signals)
    BY AppendProperties DEF WritersInv
  <2> QED
    BY <1>7, <2>1, Bounds DEF SignalArrives, WritersInv, keys
<1>8. ASSUME Run \/ HandleState \/ TimerFires \/ LoseBridge \/ Recover
             \/ StopInstance \/ InstanceEnds
      PROVE  UNCHANGED <<sigs, ev, keys>>
  BY <1>8 DEF Run, Ask, NoSocket, Rejected, Accepted, Install, Resize, ReadExit,
    ReadLost, Wait, Select, HandleState, TimerFires, LoseBridge, Recover,
    StopInstance, InstanceEnds
<1>9. ASSUME NEW s \in Sessions, Answer(s) \/ ProcessReads(s) \/ ProcessExits(s)
      PROVE  UNCHANGED <<sigs, ev, keys>>
  BY <1>9 DEF Answer, ProcessReads, ProcessExits
<1>10. CASE UNCHANGED vars
  BY <1>1, <1>10 DEF vars
<1> QED
  BY <1>1, <1>3, <1>4, <1>5, <1>6, <1>7, <1>8, <1>9, <1>10
  DEF Next, HandleEvents

LEMMA FlagsStep ==
  ASSUME FlagsInv, [Next]_vars
  PROVE  FlagsInv'
<1>1. first' \in BOOLEAN
  <2>1. first' = FALSE \/ first' = first
    BY DEF Next, Run, Ask, NoSocket, Rejected, Accepted, Install, Resize,
      ReadExit, ReadLost, Wait, Select, HandleEvents, HangUp, ForwardSignal,
      SignalWritten, HandleState, ReadInput, InputWritten, TimerFires,
      LoseBridge, Recover, StopInstance, InstanceEnds, SignalArrives, Answer,
      ProcessReads, ProcessExits, main, vars
  <2> QED
    BY <2>1 DEF FlagsInv
<1>2. readyCh' \in BOOLEAN
  <2>1. \/ readyCh' = FALSE \/ readyCh' = readyCh
        \/ readyCh' = (readyCh \/ Head(events) = "ready")
    BY DEF Next, Run, Ask, NoSocket, Rejected, Accepted, Install, Resize,
      ReadExit, ReadLost, Wait, Select, HandleEvents, HangUp, ForwardSignal,
      SignalWritten, HandleState, ReadInput, InputWritten, TimerFires,
      LoseBridge, Recover, StopInstance, InstanceEnds, SignalArrives, Answer,
      ProcessReads, ProcessExits, model, vars
  <2> QED
    BY <2>1 DEF FlagsInv
<1>3. timer' \in BOOLEAN
  <2>1. timer' = FALSE \/ timer' = TRUE \/ timer' = timer
    BY DEF Next, Run, Ask, NoSocket, Rejected, Accepted, Install, Resize,
      ReadExit, ReadLost, AfterLoss, Wait, Select, HandleEvents, HangUp,
      ForwardSignal, SignalWritten, HandleState, ReadInput, InputWritten,
      TimerFires, LoseBridge, Recover, StopInstance, InstanceEnds,
      SignalArrives, Answer, ProcessReads, ProcessExits, main, vars
  <2> QED
    BY <2>1 DEF FlagsInv
<1> QED
  BY <1>1, <1>2, <1>3 DEF FlagsInv

-----------------------------------------------------------------------------
(* The goroutine that runs the command *)

\* Ask, and the ways in which a start fails.
LEMMA RunStarts ==
  ASSUME MainInv, RunInv, LeftInv, ConnsInv, Ask \/ NoSocket \/ Rejected
  PROVE  MainInv' /\ RunInv' /\ LeftInv'
<1> USE DEF Between, Over, Ends
<1>1. CASE Ask
  <2>1. PICK s \in Sessions :
          /\ cur' = s /\ open' = open \cup {s} /\ exec'[s] = "asked"
    BY <1>1 DEF Ask, ConnsInv
  <2>2. /\ pc = "start" /\ pc' = "reply"
        /\ UNCHANGED <<mode, first, result, session, state, quitCode>>
    BY <1>1 DEF Ask, model
  <2>3. s # 0 /\ open' = {s}
    BY <2>1, <2>2, Bounds DEF RunInv
  <2> QED
    BY <2>1, <2>2, <2>3 DEF MainInv, RunInv, LeftInv
<1>2. ASSUME NEW error, StartFails(error), pc \in {"start", "reply"}
      PROVE  \/ /\ pc' = "left" /\ result' \in {"error", "lost"}
             \/ /\ pc' = "select" /\ result' = result
                /\ ~first /\ error = "not_ready"
  BY <1>2 DEF StartFails, Leave
<1>3. CASE NoSocket
  <2>1. /\ pc = "start" /\ StartFails("unavailable")
        /\ UNCHANGED <<exec, open, mode, cur, first, session, state, quitCode>>
    BY <1>3 DEF NoSocket, conns, model
  <2>2. pc' = "left" /\ result' \in {"error", "lost"}
    BY <1>2, <2>1
  <2> QED
    BY <2>1, <2>2 DEF MainInv, RunInv, LeftInv, Outcomes
<1>4. CASE Rejected
  <2>1. PICK error \in {"not_ready", "refused", "unavailable"} :
          /\ StartFails(error)
          /\ error = "not_ready" => exec[cur] = "not_ready"
          /\ exec[cur] \in {"not_ready", "refused", "asked"}
    BY <1>4 DEF Rejected
  <2>2. /\ pc = "reply" /\ open' = open \ {cur}
        /\ UNCHANGED <<exec, mode, cur, first, session, state, quitCode>>
    BY <1>4 DEF Rejected, model
  <2>3. \/ /\ pc' = "left" /\ result' \in {"error", "lost"}
        \/ /\ pc' = "select" /\ result' = result
           /\ ~first /\ exec[cur] = "not_ready"
    BY <1>2, <2>1, <2>2
  <2>4. open' = {} /\ cur # 0 /\ session = 0
    BY <2>2 DEF RunInv
  <2> QED
    BY <2>1, <2>2, <2>3, <2>4 DEF MainInv, RunInv, LeftInv, Outcomes
<1> QED
  BY <1>1, <1>3, <1>4

LEMMA RunRuns ==
  ASSUME MainInv, RunInv, LeftInv, Accepted \/ Install \/ Resize
  PROVE  MainInv' /\ RunInv' /\ LeftInv'
<1> USE DEF MainInv, RunInv, LeftInv, Between, Over, Told
<1>1. CASE Accepted
  BY <1>1 DEF Accepted, conns, model
<1>2. CASE Install
  BY <1>2 DEF Install, conns
<1>3. CASE Resize
  BY <1>3 DEF Resize, model
<1> QED
  BY <1>1, <1>2, <1>3

\* The session ends with an exit frame, or is lost.
LEMMA RunEnds ==
  ASSUME MainInv, RunInv, LeftInv, ReadExit \/ ReadLost
  PROVE  MainInv' /\ RunInv' /\ LeftInv'
<1>1. /\ pc = "read" /\ open' = {} /\ session' = 0
      /\ UNCHANGED <<exec, mode, cur, first, state, quitCode>>
  <2>1. /\ pc = "read" /\ open' = open \ {cur} /\ session' = 0
        /\ UNCHANGED <<exec, mode, cur, first, state, quitCode>>
    BY DEF ReadExit, ReadLost, CloseConn
  <2> QED
    BY <2>1 DEF RunInv
<1>2. cur # 0 /\ ~first
  BY <1>1 DEF RunInv
<1>3. CASE ReadExit
  <2>1. pc' = "left" /\ result' = "exit" /\ exec[cur] = "exited"
    BY <1>3 DEF ReadExit, Leave
  <2> QED
    BY <1>1, <1>2, <2>1 DEF MainInv, RunInv, LeftInv, Between, Over
<1>4. CASE ReadLost
  <2>1. exec[cur] = "lost" \/ Told
    BY <1>1, <1>4 DEF ReadLost, RunInv
  <2>2. CASE mode = "shell"
    <3>1. pc' = "wait" /\ result' = result
      BY <1>4, <2>2 DEF ReadLost, AfterLoss
    <3> QED
      BY <1>1, <1>2, <2>1, <2>2, <3>1
      DEF MainInv, RunInv, LeftInv, Between, Over, Told
  <2>3. CASE mode # "shell"
    <3>1. pc' = "left" /\ result' = "lost"
      BY <1>4, <2>3 DEF ReadLost, AfterLoss, Leave
    <3> QED
      BY <1>1, <1>2, <2>1, <2>3, <3>1
      DEF MainInv, RunInv, LeftInv, Between, Over, Told, Outcomes
  <2> QED
    BY <2>2, <2>3
<1> QED
  BY <1>3, <1>4

\* The loop that waits for the instance.
LEMMA RunWaits ==
  ASSUME MainInv, RunInv, LeftInv, Wait \/ Select
  PROVE  MainInv' /\ RunInv' /\ LeftInv'
<1>1. /\ open' = open /\ open = {} /\ session' = session /\ session = 0
      /\ ~first /\ mode = "shell"
      /\ UNCHANGED <<exec, mode, cur, first, state, quitCode>>
  BY DEF Wait, Select, conns, model, RunInv, Between
<1>2. CASE pc' = "left"
  <2>1. result' = quitCode \/ (result' = "lost" /\ pc = "select")
    BY <1>2 DEF Wait, Select, Leave
  <2>2. result' = "lost" /\ pc = "select" => Over
    BY DEF RunInv, Between
  <2>3. cur # 0 /\ exec[cur] \in {"running", "exited"} => result' = quitCode
    BY <2>1, <2>2 DEF Over
  <2> QED
    BY <1>1, <1>2, <2>1, <2>3 DEF MainInv, RunInv, LeftInv, Between, Outcomes
<1>3. CASE pc' # "left"
  <2>1. /\ pc' \in Between /\ result' = result
        /\ pc = "wait" => quitCode = "none"
    BY <1>3 DEF Wait, Select, Leave, Between
  <2>2. Over
    BY <2>1 DEF RunInv, Between, Wait, Select
  <2> QED
    BY <1>1, <1>3, <2>1, <2>2 DEF MainInv, RunInv, LeftInv, Between, Over
<1> QED
  BY <1>2, <1>3

-----------------------------------------------------------------------------
(* The other goroutines and the instance *)

\* A session that is closed under the command is closed for a reason.
LEMMA RunClosed ==
  ASSUME MainInv, RunInv, LeftInv, pc # "left",
         open' = open \/ (open' = open \ {session} /\ Told'),
         quitCode = "none" \/ quitCode' # "none",
         quitCode' \in Outcomes, state' \in States,
         UNCHANGED <<exec, main, session>>
  PROVE  MainInv' /\ RunInv' /\ LeftInv'
<1> USE DEF main
<1>1. MainInv'
  BY DEF MainInv
<1>2. open' \subseteq open
  OBVIOUS
<1>3. pc \in {"reply", "install"} => open' = {cur}
  BY Bounds DEF RunInv
<1>4. pc \in {"resize", "read"} /\ cur \notin open' => Told'
  <2>1. Told => Told'
    BY DEF Told
  <2> QED
    BY <2>1 DEF RunInv
<1>5. RunInv'
  BY <1>2, <1>3, <1>4 DEF RunInv, Between, Over
<1> QED
  BY <1>1, <1>5 DEF LeftInv

LEMMA RunHandlers ==
  ASSUME MainInv, RunInv, LeftInv, WritersInv, WorldInv,
         HangUp \/ HandleState
  PROVE  MainInv' /\ RunInv' /\ LeftInv'
<1>1. pc # "left" /\ UNCHANGED <<exec, main, session>>
  BY DEF HangUp, HandleState, Handling
<1>2. CASE HangUp
  <2>1. /\ Head(signals) \in {"HUP", "TERM", "INT"} /\ state' = state
        /\ Closes(Head(signals)) /\ open' = open \ {session}
        /\ IF mode = "shell" THEN Quit(Head(signals)) ELSE UNCHANGED quitCode
    BY <1>2, HeadTailProperties, TerminalAssumption DEF HangUp, WritersInv
  <2>2. mode # "exec" /\ (mode = "shell" => Head(signals) \in {"HUP", "TERM"})
    BY <2>1 DEF Closes
  <2>3. /\ quitCode = "none" \/ quitCode' # "none"
        /\ mode = "shell" => quitCode' # "none"
    BY <2>1, <2>2 DEF Quit, MainInv, Outcomes
  <2>4. quitCode' \in Outcomes
    BY <2>1, <2>2 DEF Quit, MainInv, Outcomes
  <2>5. mode' = mode
    BY <1>1 DEF main
  <2>6. Told'
    BY <2>2, <2>3, <2>5 DEF Told
  <2> QED
    BY <1>1, <2>1, <2>3, <2>4, <2>6, RunClosed DEF MainInv
<1>3. CASE HandleState
  <2>1. mode = "shell" /\ Head(events) \in States /\ state' = Head(events)
    BY <1>3, HeadTailProperties DEF HandleState, WorldInv
  <2>2. \/ Quit("lost") /\ open' = open \ {session}
        \/ quitCode' = quitCode /\ open' = open
    BY <1>3 DEF HandleState
  <2>3. quitCode' \in Outcomes /\ (quitCode = "none" \/ quitCode' # "none")
    BY <2>2 DEF Quit, MainInv, Outcomes
  <2>4. open' = open \/ (open' = open \ {session} /\ Told')
    <3>1. Quit("lost") => quitCode' # "none"
      BY DEF Quit
    <3>2. mode' = mode
      BY <1>1 DEF main
    <3> QED
      BY <2>1, <2>2, <3>1, <3>2 DEF Told
  <2> QED
    BY <1>1, <2>1, <2>3, <2>4, RunClosed
<1> QED
  BY <1>2, <1>3

\* The instance's steps end execs, and answer those that somebody waits for.
LEMMA RunWorld ==
  ASSUME MainInv, RunInv, LeftInv, ConnsInv,
         \/ LoseBridge \/ InstanceEnds
         \/ \E s \in Sessions : Answer(s) \/ ProcessExits(s)
  PROVE  MainInv' /\ RunInv' /\ LeftInv'
<1>1. UNCHANGED <<open, main, model>>
  BY DEF LoseBridge, InstanceEnds, Answer, ProcessExits
<1>2. ASSUME NEW s \in Sessions
      PROVE  \/ exec'[s] = exec[s]
             \/ /\ exec[s] = "asked"
                /\ s \in open \/ exec'[s] \notin {"running"} \cup Ends
             \/ exec[s] = "running" /\ exec'[s] \in Ends
  <2>1. CASE LoseBridge \/ InstanceEnds
    BY <2>1, LostExecs DEF LoseBridge, InstanceEnds, Ends
  <2>2. CASE \E t \in Sessions : Answer(t) \/ ProcessExits(t)
    BY <2>2 DEF Answer, ProcessExits, ConnsInv, Ends
  <2> QED
    BY <2>1, <2>2
<1>3. MainInv'
  BY <1>1 DEF MainInv, main, model
<1>4. cur # 0 => cur \in Sessions
  BY DEF MainInv
<1>5. RunInv'
  <2>1. Over => Over'
    BY <1>1, <1>2, <1>4 DEF Over, main, Ends
  <2>2. exec[cur] \in {"running"} \cup Ends /\ cur # 0 =>
          exec'[cur] \in {"running"} \cup Ends
    BY <1>2, <1>4 DEF Ends
  <2> QED
    BY <1>1, <2>1, <2>2 DEF RunInv, Told, main, model
<1>6. LeftInv'
  BY <1>1, <1>2, <1>4 DEF LeftInv, main, model, Ends
<1> QED
  BY <1>3, <1>5, <1>6

\* The steps that leave the command and its session alone.
LEMMA RunRests ==
  ASSUME MainInv, RunInv, LeftInv,
         UNCHANGED <<exec, open, mode, pc, cur, first, result, model>>
  PROVE  MainInv' /\ RunInv' /\ LeftInv'
<1> USE DEF model
<1>1. MainInv'
  BY DEF MainInv
<1>2. RunInv'
  BY DEF RunInv, Over, Told
<1>3. LeftInv'
  BY DEF LeftInv
<1> QED
  BY <1>1, <1>2, <1>3

LEMMA RunStep ==
  ASSUME TerminalInv, [Next]_vars
  PROVE  MainInv' /\ RunInv' /\ LeftInv'
<1> USE DEF TerminalInv
<1>1. CASE Run
  BY <1>1, RunStarts, RunRuns, RunEnds, RunWaits DEF Run
<1>2. CASE HangUp \/ HandleState
  BY <1>2, RunHandlers
<1>3. CASE \/ LoseBridge \/ InstanceEnds
           \/ \E s \in Sessions : Answer(s) \/ ProcessExits(s)
  BY <1>3, RunWorld
<1>4. ASSUME \/ ForwardSignal \/ SignalWritten \/ ReadInput \/ InputWritten
             \/ TimerFires \/ Recover \/ StopInstance
             \/ \E s \in Sessions : ProcessReads(s)
             \/ \E sig \in Signals : SignalArrives(sig)
             \/ UNCHANGED vars
      PROVE  UNCHANGED <<exec, open, mode, pc, cur, first, result, model>>
  BY <1>4 DEF ForwardSignal, SignalWritten, ReadInput, InputWritten, TimerFires,
    Recover, StopInstance, ProcessReads, SignalArrives, vars, conns, main
<1>5. CASE UNCHANGED <<exec, open, mode, pc, cur, first, result, model>>
  BY <1>5, RunRests
<1> QED
  BY <1>1, <1>2, <1>3, <1>4, <1>5 DEF Next, HandleEvents

LEMMA RunInit ==
  ASSUME Init
  PROVE  RunInv /\ LeftInv
BY DEF Init, RunInv, LeftInv, Between, Over

-----------------------------------------------------------------------------
(* The properties *)

LEMMA TerminalStep ==
  ASSUME TerminalInv, [Next]_vars
  PROVE  TerminalInv'
BY WorldStep, ConnsStep, WritersStep, FlagsStep, RunStep DEF TerminalInv

LEMMA TerminalInvariant == Spec => []TerminalInv
<1>1. Init => TerminalInv
  BY TypesInit, RunInit DEF TerminalInv
<1>2. TerminalInv /\ [Next]_vars => TerminalInv'
  BY TerminalStep
<1> QED
  BY <1>1, <1>2, PTL DEF Spec

\* The variables of the terminal's commands keep their types, and the states
\* that wait to be handled their bound, for every bound.
THEOREM TypeCorrect == Spec => []TypeOK
<1>1. TerminalInv => TypeOK
  <2> SUFFICES ASSUME TerminalInv PROVE TypeOK
    OBVIOUS
  <2>1. events \in Seq(States) /\ Len(events) <= MaxEvents + 2
    <3>1. /\ events \in Seq(States)
          /\ Len(events) <= MaxEvents + (IF inst = "stopped" THEN 2 ELSE 1)
      BY DEF TerminalInv, WorldInv
    <3>2. Len(events) \in Nat
      BY <3>1, LenProperties
    <3> QED
      BY <3>1, <3>2, Bounds
  <2>2. inst \in States /\ changes \in 0..MaxChanges
    BY DEF TerminalInv, WorldInv
  <2>3. /\ exec \in [Sessions -> {"none", "asked", "not_ready", "refused",
                                   "running"} \cup Ends]
        /\ fill \in [Sessions -> 0..Room]
    BY DEF TerminalInv, ConnsInv
  <2>4. open \subseteq Sessions
    BY DEF TerminalInv, RunInv, MainInv
  <2>5. first \in BOOLEAN /\ readyCh \in BOOLEAN /\ timer \in BOOLEAN
    BY DEF TerminalInv, FlagsInv
  <2>6. /\ mode \in Modes
        /\ pc \in {"start", "reply", "install", "resize", "read", "close",
                   "wait", "select", "left"}
        /\ cur \in Sessions \cup {0} /\ session \in Sessions \cup {0}
        /\ state \in States /\ quitCode \in {"none", "lost", "HUP", "TERM"}
        /\ result \in {"none", "exit", "lost", "error", "HUP", "TERM"}
    BY DEF TerminalInv, MainInv, Outcomes
  <2>7. WritersInv
    BY DEF TerminalInv
  <2> QED
    BY <2>1, <2>2, <2>3, <2>4, <2>5, <2>6, <2>7 DEF TypeOK, States, WritersInv
<1> QED
  BY <1>1, TerminalInvariant, PTL

\* A client has one connection at most and leaves none behind, whatever it
\* loses and starts again, in whatever order signals, states and output come.
THEOREM OneConnection == Spec => []OneShell
<1>1. TerminalInv => OneShell
  <2> SUFFICES ASSUME TerminalInv PROVE OneShell
    OBVIOUS
  <2>1. open = {} \/ open = {cur}
    BY DEF TerminalInv, RunInv
  <2>2. Cardinality({}) = 0 /\ Cardinality({cur}) = 1
    BY FS_EmptySet, FS_Singleton
  <2>3. Cardinality(open) <= 1
    BY <2>1, <2>2
  <2>4. pc = "left" => open = {}
    BY DEF TerminalInv, RunInv
  <2> QED
    BY <2>3, <2>4 DEF OneShell
<1> QED
  BY <1>1, TerminalInvariant, PTL

\* A client that reports an exit status reports that of its own process, and one
\* that reports a loss or a signal does not hide an exit it had not been told
\* to give up, whatever the order in which they reach it.
THEOREM TrueExits == Spec => []ExitStatusIsTrue
<1>1. TerminalInv => ExitStatusIsTrue
  BY DEF TerminalInv, LeftInv, ExitStatusIsTrue
<1> QED
  BY <1>1, TerminalInvariant, PTL

=============================================================================
