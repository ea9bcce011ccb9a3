-------------------------- MODULE ExecStreamProofs --------------------------
(***************************************************************************)
(* That one exec carries stdin to the process and output to its caller      *)
(* whole, in order, and with one end, for any number of payloads, buffers   *)
(* of any size, and every way in which its hops fail.                       *)
(*                                                                         *)
(* Each buffer on the way holds the numbers that follow those of the buffer *)
(* in front of it (Run), up to the first hop that drops what it gets.  A     *)
(* hop that drops never passes on anything again, so that what arrives is   *)
(* always a first part of what was sent.                                    *)
(***************************************************************************)
EXTENDS ExecStream, SequenceTheorems, TLAPS

\* q holds the numbers after a, and at its end perhaps the mark 0 (EOF, EXIT).
Run(q, a) ==
  \A i \in 1..Len(q) : q[i] = a + i \/ (q[i] = 0 /\ i = Len(q))

Marked(q) == \E i \in 1..Len(q) : q[i] = 0

-----------------------------------------------------------------------------
(* Types *)

ControlInv ==
  /\ mode \in Modes /\ client \in {"there", "gone", "cut"}
  /\ hpc \in {"request", "await", "proxy", "done", "refused"}
  /\ hin \in {"off", "reading", "hangup", "done"}
  /\ epc \in {"none", "header", "registered", "launched", "select", "drain",
              "pumps", "exit", "done"}
  /\ reply \in {"none", "ok", "rejected"}
  /\ reader \in {"off", "reading", "done"}
  /\ writer \in {"off", "running", "draining", "done"}
  /\ pump \in {"off", "running", "done"}
  /\ proc \in {"none", "running", "exited"}
  /\ child \in {"none", "group", "daemon", "dead"}

FlagsInv ==
  /\ ended \in BOOLEAN /\ clientGone \in BOOLEAN
  /\ downFin \in BOOLEAN /\ upFin \in BOOLEAN
  /\ reset \in BOOLEAN /\ lost \in BOOLEAN
  /\ gone \in BOOLEAN /\ closed \in BOOLEAN /\ chClosed \in BOOLEAN
  /\ pumpFailed \in BOOLEAN /\ ptyClosed \in BOOLEAN /\ pipeClosed \in BOOLEAN

\* A buffer of at most n elements of S.
Buffer(q, S, n) == q \in Seq(S) /\ Len(q) <= n

StdinTypes ==
  /\ sent \in 0..MaxIn
  /\ Buffer(conn, 0..MaxIn, ConnSize + 1) /\ Buffer(hinHeld, 0..MaxIn, 1)
  /\ Buffer(down, 0..MaxIn, Window) /\ Buffer(readerHeld, 1..MaxIn, 1)
  /\ Buffer(stdinCh, 1..MaxIn, QueueSize) /\ Buffer(writerHeld, 1..MaxIn, 1)
  /\ Buffer(pipeIn, 1..MaxIn, PipeSize) /\ readIn \in Seq(1..MaxIn)

OutputTypes ==
  /\ written \in 0..MaxOut
  /\ Buffer(pipeOut, 1..MaxOut, PipeSize) /\ Buffer(pumpHeld, 1..MaxOut, 1)
  /\ Buffer(up, 0..MaxOut, Window) /\ Buffer(houtHeld, 0..MaxOut, 1)
  /\ got \in Seq(0..LOST)

-----------------------------------------------------------------------------
(* The endpoint's handler *)

Early == {"none", "header", "registered", "launched"}

HandleInv ==
  /\ hpc = "request" => epc = "none"
  /\ hpc \in {"request", "await"} => hin = "off"
  /\ epc = "none" => ~closed
  /\ epc \in Early \ {"launched"} => proc = "none"
  /\ proc = "none" =>
       child = "none" /\ epc \in (Early \ {"launched"}) \cup {"done"}
  /\ epc \in Early =>
       /\ reader = "off" /\ writer = "off" /\ pump = "off" /\ ~chClosed
       /\ ~pipeClosed /\ ~ptyClosed /\ ~pumpFailed
  /\ writer = "off" => proc = "none" \/ epc \in Early
  /\ pump = "off" => proc = "none" \/ epc \in Early
  /\ ptyClosed => mode = "tty" \/ (gone /\ epc = "done")

-----------------------------------------------------------------------------
(* Stdin *)

\* How many of the numbers are up to each buffer, from the process backwards.
AtProcess == Len(readIn)
AtPipe    == AtProcess + Len(pipeIn)
AtWriter  == AtPipe + Len(writerHeld)
AtQueue   == AtWriter + Len(stdinCh)
AtReader  == AtQueue + Len(readerHeld)
AtStream  == AtReader + Len(down)
AtHost    == AtStream + Len(hinHeld)
AtConn    == AtHost + Len(conn)

Feeds == writer \in {"off", "running"}   \* the writer passes payloads on
Takes == Feeds /\ ~chClosed              \* and so does the reader
Flows == Takes /\ ~downFin /\ ~lost      \* and so does the host

OrderInv ==
  /\ Run(readIn, 0) /\ Run(pipeIn, AtProcess)
  /\ Feeds => /\ Run(writerHeld, AtPipe) /\ Run(stdinCh, AtWriter)
              /\ Run(readerHeld, AtQueue)
  /\ Takes => Run(down, AtReader)
  /\ Flows => Run(hinHeld, AtStream) /\ Run(conn, AtHost)

\* The end of the input is the caller's, or that of a raw caller that has gone;
\* nothing comes after it.
EofInv ==
  /\ Marked(conn) => ended
  /\ Marked(hinHeld) \/ Marked(down) => ended \/ client = "gone"
  /\ mode = "tty" => ~ended /\ ~Marked(hinHeld) /\ ~Marked(down)
  /\ hin # "reading" => hinHeld = <<>>
  /\ hin = "off" => down = <<>>
  /\ Flows /\ Marked(hinHeld) => conn = <<>>
  /\ Flows /\ Marked(down) =>
       hinHeld = <<>> /\ conn = <<>> /\ (mode = "raw" => hin # "reading")

CountInv ==
  /\ Flows /\ client = "there" =>
       AtConn = sent + (IF ended THEN 1 ELSE 0)
  /\ Takes /\ client = "there" /\ Marked(down) => AtStream = sent + 1
  /\ proc = "running" /\ chClosed /\ ~gone /\ client = "there" =>
       mode # "tty" /\ ended /\ AtReader = sent

WriterInv ==
  /\ writer # "running" => writerHeld = <<>>
  /\ writer = "done" => chClosed
  /\ writer = "draining" /\ proc = "running" => ptyClosed
  /\ pipeClosed /\ ~gone =>
       /\ chClosed /\ writer = "done" /\ writerHeld = <<>>
       /\ stdinCh = <<>> /\ readerHeld = <<>>

StdinInv == OrderInv /\ EofInv /\ CountInv /\ WriterInv

-----------------------------------------------------------------------------
(* Output *)

ToHost   == Len(got) + Len(houtHeld)
ToStream == ToHost + Len(up)
ToPump   == ToStream + Len(pumpHeld)
ToPipe   == ToPump + Len(pipeOut)

\* The caller still gets what is on its way; the stream takes more.
Listens == client = "there" /\ hpc \notin {"done", "refused"}
Streams == Listens /\ ~reset /\ ~lost

GotInv ==
  /\ \A i \in 1..Len(got) :
       \/ got[i] = i /\ i <= MaxOut
       \/ got[i] \in {EXIT, LOST} /\ i = Len(got) /\ hpc = "done"
  /\ houtHeld # <<>> => hpc = "proxy"
  /\ clientGone => client # "there"
  /\ mode # "raw" /\ hpc = "done" /\ client = "there" =>
       got # <<>> /\ got[Len(got)] \in {EXIT, LOST}

FlowInv ==
  /\ Listens => Run(houtHeld, Len(got)) /\ Run(up, ToHost)
  /\ Streams => Run(pumpHeld, ToStream) /\ Run(pipeOut, ToPump)
  /\ Streams /\ ~ptyClosed /\ epc # "done" => ToPipe = written

PumpInv ==
  /\ pump # "running" => pumpHeld = <<>>
  /\ pump = "done" => pipeOut = <<>>
  /\ epc \in {"exit", "done"} => pump # "running"
  /\ proc = "none" => pipeOut = <<>>
  /\ pumpFailed => reset \/ lost

\* The exit frame comes after everything; that of a process without a PTY after
\* all it and its descendants have written.
ExitInv ==
  /\ Marked(houtHeld) \/ Marked(up) => epc = "done" /\ pump = "done"
  /\ mode = "framed" /\ Listens =>
       /\ Marked(houtHeld) => ToHost = written + 1
       /\ Marked(up) => ToStream = written + 1
  /\ mode = "framed" /\ got # <<>> /\ got[Len(got)] = EXIT =>
       Len(got) = written + 1 /\ pump = "done"

OutputInv == GotInv /\ FlowInv /\ PumpInv /\ ExitInv

ExecInv ==
  /\ ControlInv /\ FlagsInv /\ StdinTypes /\ OutputTypes
  /\ HandleInv /\ StdinInv /\ OutputInv
-----------------------------------------------------------------------------
(* Buffers and runs *)

LEMMA Bounds ==
  /\ MaxIn \in Nat /\ MaxOut \in Nat /\ MaxLoad \in Nat
  /\ ConnSize \in Nat /\ Window \in Nat /\ QueueSize \in Nat
  /\ PipeSize \in Nat
  /\ ConnSize > 0 /\ Window > 0 /\ QueueSize > 0 /\ PipeSize > 0
  BY ExecStreamAssumption

LEMMA BufferLen ==
  ASSUME NEW S, NEW n, NEW q, Buffer(q, S, n)
  PROVE  /\ q \in Seq(S) /\ Len(q) \in Nat /\ Len(q) <= n
         /\ q = <<>> <=> Len(q) = 0
  BY EmptySeq, LenProperties DEF Buffer

LEMMA BufferEmpty ==
  ASSUME NEW S, NEW n \in Nat
  PROVE  Buffer(<<>>, S, n)
  BY EmptySeq DEF Buffer

\* A goroutine holds no frame or one.
LEMMA BufferOne ==
  ASSUME NEW S, NEW x \in S
  PROVE  Buffer(<<x>>, S, 1) /\ Len(<<x>>) = 1 /\ <<x>> # <<>>
  BY DEF Buffer

LEMMA BufferHeld ==
  ASSUME NEW S, NEW h, Buffer(h, S, 1), h # <<>>
  PROVE  h = <<h[1]>> /\ h[1] \in S /\ Len(h) = 1
<1>1. h \in Seq(S) /\ Len(h) = 1
  <2>1. h \in Seq(S)
    BY DEF Buffer
  <2>2. Len(h) \in Nat /\ Len(h) <= 1
    BY <2>1, LenProperties DEF Buffer
  <2>3. Len(h) \in Nat \ {0}
    BY <2>1, EmptySeq
  <2>4. \A n \in Nat \ {0} : n <= 1 => n = 1
    OBVIOUS
  <2>5. Len(h) = 1
    BY <2>2, <2>3, <2>4
  <2> QED
    BY <2>1, <2>5
<1>2. h[1] \in S
  BY <1>1, ElementOfSeq
<1>3. <<h[1]>> \in Seq(S) /\ Len(<<h[1]>>) = 1 /\ <<h[1]>>[1] = h[1]
  BY <1>2
<1>4. h = <<h[1]>>
  BY <1>1, <1>3, SeqEqual
<1> QED
  BY <1>1, <1>2, <1>4

LEMMA BufferAppend ==
  ASSUME NEW S, NEW n \in Nat, NEW q, Buffer(q, S, n), Len(q) < n, NEW x \in S
  PROVE  /\ Buffer(Append(q, x), S, n) /\ Len(Append(q, x)) = Len(q) + 1
         /\ q \o <<x>> = Append(q, x)
<1>1. q \in Seq(S) /\ Len(q) \in Nat
  BY BufferLen
<1>2. Append(q, x) \in Seq(S) /\ Len(Append(q, x)) = Len(q) + 1
  BY <1>1, AppendProperties
<1>3. Append(q, x) = q \o <<x>>
  BY <1>1, AppendIsConcat
<1> QED
  BY <1>1, <1>2, <1>3 DEF Buffer

LEMMA BufferTail ==
  ASSUME NEW S, NEW n \in Nat, NEW q, Buffer(q, S, n), q # <<>>
  PROVE  /\ Buffer(Tail(q), S, n) /\ Len(Tail(q)) = Len(q) - 1
         /\ Head(q) \in S
<1>1. q \in Seq(S) /\ Len(q) \in Nat /\ Len(q) <= n
  BY BufferLen
<1>2. /\ Head(q) \in S /\ Tail(q) \in Seq(S)
      /\ Len(Tail(q)) = Len(q) - 1
  BY <1>1, HeadTailProperties
<1> QED
  BY <1>1, <1>2 DEF Buffer

\* A bridge that is lost keeps the first part of what is in transit.
LEMMA BufferPrefix ==
  ASSUME NEW S, NEW n \in Nat, NEW q, Buffer(q, S, n), NEW k \in 0..Len(q)
  PROVE  /\ Buffer(SubSeq(q, 1, k), S, n) /\ Len(SubSeq(q, 1, k)) = k
         /\ \A i \in 1..k : SubSeq(q, 1, k)[i] = q[i]
<1>1. q \in Seq(S) /\ Len(q) \in Nat /\ Len(q) <= n
  BY BufferLen
<1>2. \A i \in 1..k : q[i] \in S
  BY <1>1, ElementOfSeq
<1>3. /\ SubSeq(q, 1, k) \in Seq(S)
      /\ Len(SubSeq(q, 1, k)) = IF 1 <= k THEN k - 1 + 1 ELSE 0
      /\ \A i \in 1 .. k - 1 + 1 : SubSeq(q, 1, k)[i] = q[1 + i - 1]
  BY <1>1, <1>2, SubSeqProperties
<1>4. k \in Nat /\ k <= n
  BY <1>1
<1>5. Len(SubSeq(q, 1, k)) = k
  BY <1>3, <1>4
<1>6. \A i \in 1..k : SubSeq(q, 1, k)[i] = q[i]
  BY <1>3, <1>4
<1> QED
  BY <1>3, <1>4, <1>5, <1>6 DEF Buffer

LEMMA RunEmpty ==
  ASSUME NEW a
  PROVE  Run(<<>>, a) /\ ~Marked(<<>>)
  BY EmptySeq DEF Run, Marked

LEMMA RunOne ==
  ASSUME NEW a \in Nat, NEW x \in Nat
  PROVE  /\ Run(<<x>>, a) <=> x = a + 1 \/ x = 0
         /\ Marked(<<x>>) <=> x = 0
<1>1. Len(<<x>>) = 1 /\ <<x>>[1] = x
  OBVIOUS
<1>2. 1..Len(<<x>>) = {1}
  BY <1>1
<1> QED
  BY <1>1, <1>2 DEF Run, Marked

LEMMA RunAppend ==
  ASSUME NEW S, NEW q \in Seq(S), NEW x \in S, NEW a \in Nat, Run(q, a),
         ~Marked(q), x = 0 \/ x = a + Len(q) + 1
  PROVE  Run(Append(q, x), a)
<1>1. /\ Len(q) \in Nat /\ Len(Append(q, x)) = Len(q) + 1
      /\ \A i \in 1..Len(q) : Append(q, x)[i] = q[i]
      /\ Append(q, x)[Len(q) + 1] = x
  BY LenProperties, AppendProperties
<1> SUFFICES ASSUME NEW i \in 1..Len(q) + 1
             PROVE  \/ Append(q, x)[i] = a + i
                    \/ Append(q, x)[i] = 0 /\ i = Len(q) + 1
  BY <1>1 DEF Run
<1>2. CASE i = Len(q) + 1
  BY <1>1, <1>2
<1>3. CASE i # Len(q) + 1
  <2>1. i \in 1..Len(q)
    BY <1>1, <1>3
  <2>2. q[i] # 0 /\ q[i] = a + i
    BY <2>1 DEF Run, Marked
  <2> QED
    BY <1>1, <2>1, <2>2
<1> QED
  BY <1>2, <1>3

LEMMA MarkedAppend ==
  ASSUME NEW S, NEW q \in Seq(S), NEW x \in S
  PROVE  Marked(Append(q, x)) <=> Marked(q) \/ x = 0
<1>1. /\ Len(q) \in Nat /\ Len(Append(q, x)) = Len(q) + 1
      /\ \A i \in 1..Len(q) : Append(q, x)[i] = q[i]
      /\ Append(q, x)[Len(q) + 1] = x
  BY LenProperties, AppendProperties
<1>2. \A i : i \in 1..Len(q) + 1 <=> i \in 1..Len(q) \/ i = Len(q) + 1
  BY <1>1
<1> QED
  BY <1>1, <1>2 DEF Marked

LEMMA RunShift ==
  ASSUME NEW q, NEW r, NEW a \in Nat, Run(q, a), Len(q) \in Nat,
         Len(r) = Len(q) - 1, \A i \in 1..Len(r) : r[i] = q[i + 1]
  PROVE  Run(r, a + 1)
<1> SUFFICES ASSUME NEW i \in 1..Len(r)
             PROVE  r[i] = a + 1 + i \/ (r[i] = 0 /\ i = Len(r))
  BY DEF Run
<1>1. i + 1 \in 1..Len(q) /\ r[i] = q[i + 1]
  OBVIOUS
<1>2. q[i + 1] = a + (i + 1) \/ (q[i + 1] = 0 /\ i + 1 = Len(q))
  BY <1>1 DEF Run
<1> QED
  BY <1>1, <1>2

LEMMA RunTail ==
  ASSUME NEW S, NEW q \in Seq(S), q # <<>>, NEW a \in Nat, Run(q, a)
  PROVE  /\ Run(Tail(q), a + 1)
         /\ Head(q) = a + 1 \/ (Head(q) = 0 /\ Len(q) = 1)
<1>1. /\ Len(q) \in Nat /\ Len(q) > 0 /\ Len(Tail(q)) = Len(q) - 1
      /\ \A i \in 1..Len(Tail(q)) : Tail(q)[i] = q[i + 1]
  BY LenProperties, HeadTailProperties, EmptySeq
<1>2. Head(q) = q[1]
  OBVIOUS
<1>3. Head(q) = a + 1 \/ (Head(q) = 0 /\ Len(q) = 1)
  <2>1. 1 \in 1..Len(q)
    BY <1>1
  <2> QED
    BY <1>2, <2>1 DEF Run
<1>4. Run(Tail(q), a + 1)
  BY <1>1, RunShift
<1> QED
  BY <1>3, <1>4

LEMMA MarkedTail ==
  ASSUME NEW S, NEW q \in Seq(S), q # <<>>
  PROVE  Marked(q) <=> Head(q) = 0 \/ Marked(Tail(q))
<1>1. /\ Len(q) \in Nat /\ Len(q) > 0 /\ Len(Tail(q)) = Len(q) - 1
      /\ \A i \in 1..Len(Tail(q)) : Tail(q)[i] = q[i + 1]
  BY LenProperties, HeadTailProperties, EmptySeq
<1>2. Head(q) = q[1] /\ 1 \in 1..Len(q)
  BY <1>1
<1>3. ASSUME NEW i \in 1..Len(q), q[i] = 0, i # 1
      PROVE  Marked(Tail(q))
  <2>1. i - 1 \in 1..Len(Tail(q)) /\ i - 1 + 1 = i
    BY <1>1, <1>3
  <2>2. Tail(q)[i - 1] = 0
    BY <1>1, <1>3, <2>1
  <2> QED
    BY <2>1, <2>2 DEF Marked
<1>4. ASSUME NEW i \in 1..Len(Tail(q)), Tail(q)[i] = 0
      PROVE  Marked(q)
  <2>1. i + 1 \in 1..Len(q) /\ q[i + 1] = 0
    BY <1>1, <1>4
  <2> QED
    BY <2>1 DEF Marked
<1> QED
  BY <1>2, <1>3, <1>4 DEF Marked

LEMMA MarkedPrefix ==
  ASSUME NEW S, NEW n \in Nat, NEW q, Buffer(q, S, n), NEW k \in 0..Len(q)
  PROVE  Marked(SubSeq(q, 1, k)) => Marked(q)
<1>1. /\ Len(q) \in Nat /\ Len(SubSeq(q, 1, k)) = k
      /\ \A i \in 1..k : SubSeq(q, 1, k)[i] = q[i]
  BY BufferLen, BufferPrefix
<1>2. \A i \in 1..k : i \in 1..Len(q)
  BY <1>1
<1> QED
  BY <1>1, <1>2 DEF Marked

LEMMA RunPrefix ==
  ASSUME NEW S, NEW n \in Nat, NEW q, Buffer(q, S, n), NEW k \in 0..Len(q),
         NEW a \in Nat, Run(q, a)
  PROVE  /\ Run(SubSeq(q, 1, k), a)
         /\ Marked(SubSeq(q, 1, k)) => Marked(q) /\ k = Len(q)
<1>1. /\ Len(q) \in Nat /\ Len(SubSeq(q, 1, k)) = k
      /\ \A i \in 1..k : SubSeq(q, 1, k)[i] = q[i]
  BY BufferLen, BufferPrefix
<1>2. ASSUME NEW i \in 1..k
      PROVE  /\ i \in 1..Len(q) /\ SubSeq(q, 1, k)[i] = q[i]
             /\ q[i] = a + i \/ (q[i] = 0 /\ i = k)
             /\ q[i] = 0 => k = Len(q)
  <2>1. i \in 1..Len(q) /\ (i = Len(q) => i = k /\ k = Len(q))
    BY <1>1
  <2>2. q[i] = a + i \/ (q[i] = 0 /\ i = Len(q))
    BY <2>1 DEF Run
  <2> QED
    BY <1>1, <2>1, <2>2
<1>3. Run(SubSeq(q, 1, k), a)
  BY <1>1, <1>2 DEF Run
<1>4. Marked(SubSeq(q, 1, k)) => Marked(q) /\ k = Len(q)
  BY <1>1, <1>2 DEF Marked
<1> QED
  BY <1>3, <1>4

-----------------------------------------------------------------------------
(* Every step keeps the types of control and flags *)

LEMMA ControlStep ==
  ASSUME ControlInv, [Next]_vars
  PROVE  ControlInv'
<1> USE DEF ControlInv
<1>1. CASE Caller \/ GiveUp \/ CloseExecs
  BY <1>1 DEF Caller, Send, SendEof, Leave, GiveUp, CloseExecs, HostReturns,
    callerVars, hostVars, streamVars, handleVars, readerVars, writerVars,
    pumpVars, procVars
<1>2. CASE Hin
  BY <1>2 DEF Hin, HinReads, HinWrites, HinEnds, HinHangup, callerVars,
    handleVars, readerVars, writerVars, pumpVars, procVars
<1>3. CASE Hout
  BY <1>3 DEF Hout, SendRequest, ReceiveReply, HoutReads, HoutWrites, HoutEnds,
    HostReturns, callerVars, handleVars, readerVars, writerVars, pumpVars,
    procVars
<1>4. CASE StreamTimeout \/ BridgeLost \/ CloseAll \/ EndpointExits
  BY <1>4 DEF StreamTimeout, BridgeLost, CloseAll, EndpointExits, GroupEnds,
    callerVars, hostVars, handleVars, readerVars, writerVars, pumpVars,
    procVars
<1>5. CASE Handle
  BY <1>5 DEF Handle, Register, Launch, Started, ProcessDone, CallerGone, Drain,
    PumpsDone, SendExit, Rejects, GroupEnds, callerVars, hostVars, handleVars,
    readerVars, writerVars, pumpVars, procVars
<1>6. CASE Reader \/ Writer
  BY <1>6 DEF Reader, ReaderReads, ReaderQueues, ReaderEnds, Writer,
    WriterTakes, WriterWrites, WriterEnds, callerVars, hostVars, handleVars,
    readerVars, writerVars, pumpVars, procVars
<1>7. CASE Pump
  BY <1>7 DEF Pump, PumpReads, PumpWrites, PumpEnds, callerVars, hostVars,
    handleVars, readerVars, writerVars, pumpVars, procVars
<1>8. CASE Process
  <2>1. ProcForks => child' \in {"group", "daemon"}
    BY ExecStreamAssumption DEF ProcForks
  <2> QED
    BY <1>8, <2>1 DEF Process, ProcReads, ProcWrites, ProcForks, ProcExits,
      ChildEnds, callerVars, hostVars, handleVars, readerVars, writerVars,
      pumpVars
<1>9. CASE UNCHANGED vars
  BY <1>9 DEF vars, callerVars, hostVars, handleVars, readerVars, writerVars,
    pumpVars, procVars
<1> QED
  BY <1>1, <1>2, <1>3, <1>4, <1>5, <1>6, <1>7, <1>8, <1>9 DEF Next

\* Flags are set, or become a condition.
LEMMA FlagsStep ==
  ASSUME FlagsInv, [Next]_vars
  PROVE  FlagsInv'
<1> USE DEF Next, Caller, Send, SendEof, Leave, GiveUp, CloseExecs, HostReturns,
    Hin, HinReads, HinWrites, HinEnds, HinHangup, Hout, SendRequest,
    ReceiveReply, HoutReads, HoutWrites, HoutEnds, StreamTimeout, BridgeLost,
    CloseAll, EndpointExits, GroupEnds, Handle, Register, Launch, Started,
    ProcessDone, CallerGone, Drain, PumpsDone, SendExit, Rejects, Reader,
    ReaderReads, ReaderQueues, ReaderEnds, Writer, WriterTakes, WriterWrites,
    WriterEnds, Pump, PumpReads, PumpWrites, PumpEnds, Process, ProcReads,
    ProcWrites, ProcForks, ProcExits, ChildEnds, vars, callerVars, hostVars,
    streamVars, handleVars, readerVars, writerVars, pumpVars, procVars
<1>1. ended' \in BOOLEAN
  <2>1. ended' = TRUE \/ ended' = ended
    OBVIOUS
  <2> QED
    BY <2>1 DEF FlagsInv
<1>2. downFin' \in BOOLEAN
  <2>1. downFin' = TRUE \/ downFin' = downFin
    OBVIOUS
  <2> QED
    BY <2>1 DEF FlagsInv
<1>3. upFin' \in BOOLEAN
  <2>1. upFin' = TRUE \/ upFin' = upFin
    OBVIOUS
  <2> QED
    BY <2>1 DEF FlagsInv
<1>4. reset' \in BOOLEAN
  <2>1. reset' = TRUE \/ reset' = reset
    OBVIOUS
  <2> QED
    BY <2>1 DEF FlagsInv
<1>5. lost' \in BOOLEAN
  <2>1. lost' = TRUE \/ lost' = lost
    OBVIOUS
  <2> QED
    BY <2>1 DEF FlagsInv
<1>6. closed' \in BOOLEAN
  <2>1. closed' = TRUE \/ closed' = closed
    OBVIOUS
  <2> QED
    BY <2>1 DEF FlagsInv
<1>7. pumpFailed' \in BOOLEAN
  <2>1. pumpFailed' = TRUE \/ pumpFailed' = pumpFailed
    OBVIOUS
  <2> QED
    BY <2>1 DEF FlagsInv
<1>8. ptyClosed' \in BOOLEAN
  <2>1. ptyClosed' = TRUE \/ ptyClosed' = ptyClosed
    OBVIOUS
  <2> QED
    BY <2>1 DEF FlagsInv
<1>9. \/ clientGone' = clientGone \/ clientGone' = (mode # "raw")
      \/ clientGone' = (clientGone \/ (mode # "raw" /\ client # "there"
                                       /\ houtHeld # <<EXIT>>))
  OBVIOUS
<1>10. gone' = TRUE \/ gone' = gone \/ gone' = (reset \/ lost)
  OBVIOUS
<1>11. \/ chClosed' = TRUE \/ chClosed' = chClosed
       \/ chClosed' = (chClosed \/ (Head(down) = EOF /\ mode # "tty"))
  OBVIOUS
<1>12. \/ pipeClosed' = TRUE \/ pipeClosed' = pipeClosed
       \/ pipeClosed' = (mode # "tty")
  OBVIOUS
<1>13. /\ clientGone' \in BOOLEAN /\ gone' \in BOOLEAN
       /\ chClosed' \in BOOLEAN /\ pipeClosed' \in BOOLEAN
  BY <1>9, <1>10, <1>11, <1>12, ZenonT(30) DEF FlagsInv
<1> QED
  BY <1>1, <1>2, <1>3, <1>4, <1>5, <1>6, <1>7, <1>8, <1>13 DEF FlagsInv

-----------------------------------------------------------------------------
(* Stdin *)

LEMMA StdinLens ==
  ASSUME StdinTypes
  PROVE  /\ Len(readIn) \in Nat /\ Len(pipeIn) \in Nat
         /\ Len(writerHeld) \in Nat /\ Len(stdinCh) \in Nat
         /\ Len(readerHeld) \in Nat /\ Len(down) \in Nat
         /\ Len(hinHeld) \in Nat /\ Len(conn) \in Nat
  BY BufferLen, LenProperties DEF StdinTypes

LEMMA StdinNats ==
  ASSUME StdinTypes
  PROVE  /\ AtProcess \in Nat /\ AtPipe \in Nat /\ AtWriter \in Nat
         /\ AtQueue \in Nat /\ AtReader \in Nat /\ AtStream \in Nat
         /\ AtHost \in Nat /\ AtConn \in Nat
  BY StdinLens DEF AtProcess, AtPipe, AtWriter, AtQueue, AtReader, AtStream,
    AtHost, AtConn

\* The steps that only end something: who has gone is gone, who has stopped
\* passing on does not start again, and a buffer is kept or dropped by a hop
\* that passes on nothing any more.
Fades ==
  /\ UNCHANGED <<mode, sent, ended, readerHeld, stdinCh, writer, writerHeld,
                 pipeClosed, pipeIn, readIn>>
  /\ client' = client \/ client' # "there"
  /\ client = "gone" => client' = "gone"
  /\ proc' = proc \/ proc' # "running"
  /\ (gone => gone') /\ (ptyClosed => ptyClosed')
  /\ (lost => lost') /\ (downFin => downFin')
  /\ (chClosed => chClosed') /\ (chClosed' => chClosed \/ gone')
  /\ conn' = conn \/ (conn' = <<>> /\ (downFin' \/ client' # "there"))
  /\ hinHeld' = hinHeld \/ (hinHeld' = <<>> /\ (downFin' \/ lost'))
  /\ \/ down' = down
     \/ lost' /\ \E k \in 0..Len(down) : down' = SubSeq(down, 1, k)
  /\ \/ hin' = hin \/ (hin = "off" /\ hin' = "reading")
     \/ hin' = "done" /\ hinHeld' = <<>>

LEMMA StdinFades ==
  ASSUME StdinTypes, StdinInv, Fades
  PROVE  StdinTypes' /\ StdinInv'
<1> USE DEF StdinInv
<1>1. /\ AtProcess' = AtProcess /\ AtPipe' = AtPipe /\ AtWriter' = AtWriter
      /\ AtQueue' = AtQueue /\ AtReader' = AtReader
  BY DEF Fades, AtProcess, AtPipe, AtWriter, AtQueue, AtReader
<1>2. (Feeds' => Feeds) /\ (Takes' => Takes)
  BY DEF Fades, Takes, Feeds
<1>3. Flows' => /\ Flows /\ down' = down /\ hinHeld' = hinHeld
                /\ conn' = conn \/ (conn' = <<>> /\ client' # "there")
                /\ AtStream' = AtStream /\ AtHost' = AtHost
  BY <1>1, <1>2 DEF Fades, Flows, AtStream, AtHost
<1>4. \A a : Run(<<>>, a) /\ ~Marked(<<>>)
  BY RunEmpty
<1>5. /\ Buffer(down', 0..MaxIn, Window)
      /\ Marked(down') => Marked(down)
      /\ (down = <<>> => down' = <<>>)
      /\ Takes => Run(down', AtReader)
      /\ Takes /\ Marked(down') => Len(down') = Len(down)
  <2>1. Buffer(down, 0..MaxIn, Window) /\ Window \in Nat
    BY Bounds DEF StdinTypes
  <2>2. CASE down' = down
    BY <2>1, <2>2 DEF OrderInv
  <2>3. CASE \E k \in 0..Len(down) : down' = SubSeq(down, 1, k)
    <3>1. PICK k \in 0..Len(down) : down' = SubSeq(down, 1, k)
      BY <2>3
    <3>2. /\ Buffer(down', 0..MaxIn, Window) /\ Len(down') = k
          /\ Marked(down') => Marked(down)
      BY <2>1, <3>1, BufferPrefix, MarkedPrefix
    <3>3. down = <<>> => down' = <<>>
      <4>1. down = <<>> => Len(down) = 0
        BY EmptySeq
      <4>2. Len(down') = 0 => down' = <<>>
        BY <3>2, BufferLen
      <4> QED
        BY <3>2, <4>1, <4>2
    <3>4. Takes => /\ Run(down', AtReader)
                   /\ Marked(down') => k = Len(down)
      <4>1. AtReader \in Nat /\ (Takes => Run(down, AtReader))
        BY StdinNats DEF OrderInv
      <4> QED
        BY <2>1, <3>1, <4>1, RunPrefix
    <3> QED
      BY <3>2, <3>3, <3>4
  <2> QED
    BY <2>2, <2>3 DEF Fades
<1>6. StdinTypes'
  <2>1. Buffer(<<>>, 0..MaxIn, ConnSize + 1) /\ Buffer(<<>>, 0..MaxIn, 1)
    BY BufferEmpty, Bounds
  <2> QED
    BY <1>5, <2>1 DEF Fades, StdinTypes
<1>7. OrderInv'
  <2>1. Feeds' => /\ Run(writerHeld, AtPipe)' /\ Run(stdinCh, AtWriter)'
                  /\ Run(readerHeld, AtQueue)'
    BY <1>1, <1>2 DEF OrderInv, Fades
  <2>2. Takes' => Run(down', AtReader')
    BY <1>1, <1>2, <1>5
  <2>3. Flows' => Run(hinHeld', AtStream') /\ Run(conn', AtHost')
    BY <1>3, <1>4 DEF OrderInv
  <2>4. Run(readIn', 0) /\ Run(pipeIn', AtProcess')
    BY <1>1 DEF OrderInv, Fades
  <2> QED
    BY <2>1, <2>2, <2>3, <2>4 DEF OrderInv
<1>8. EofInv'
  <2>1. /\ Marked(conn') => Marked(conn) /\ conn' = conn
        /\ Marked(hinHeld') => Marked(hinHeld) /\ hinHeld' = hinHeld
    BY <1>4 DEF Fades
  <2>2. Flows' /\ Marked(hinHeld') => conn' = <<>>
    BY <1>3, <2>1 DEF EofInv
  <2>3. Flows' /\ Marked(down') =>
          hinHeld' = <<>> /\ conn' = <<>> /\ (mode' = "raw" => hin' # "reading")
    <3>1. Flows' /\ Marked(down) =>
            /\ hinHeld = <<>> /\ conn = <<>>
            /\ (mode = "raw" => hin # "reading")
            /\ down # <<>>
      BY <1>3, <1>4 DEF EofInv
    <3> QED
      BY <1>3, <2>1, <3>1 DEF EofInv, Fades
  <2> QED
    BY <1>5, <2>1, <2>2, <2>3 DEF EofInv, Fades
<1>9. CountInv'
  <2>1. Flows' /\ client' = "there" => AtConn' = AtConn
    BY <1>3 DEF AtConn, Fades
  <2>2. Takes /\ Marked(down') => Marked(down) /\ AtStream' = AtStream
    BY <1>1, <1>5 DEF AtStream
  <2>3. client' = "there" => client = "there"
    BY DEF Fades
  <2>4. Flows' /\ client' = "there" =>
          AtConn' = sent' + (IF ended' THEN 1 ELSE 0)
    BY <1>3, <2>1, <2>3 DEF CountInv, Fades
  <2>5. Takes' /\ client' = "there" /\ Marked(down') => AtStream' = sent' + 1
    BY <1>2, <2>2, <2>3 DEF CountInv, Fades
  <2>6. proc' = "running" /\ chClosed' /\ ~gone' /\ client' = "there" =>
          mode' # "tty" /\ ended' /\ AtReader' = sent'
    BY <1>1, <2>3 DEF CountInv, Fades
  <2> QED
    BY <2>4, <2>5, <2>6 DEF CountInv
<1>10. WriterInv'
  BY DEF WriterInv, Fades
<1> QED
  BY <1>6, <1>7, <1>8, <1>9, <1>10

\* Where the buffers before the stream begin, unchanged with their contents.
LEMMA StdinBehind ==
  ASSUME UNCHANGED <<readIn, pipeIn, writerHeld, stdinCh, readerHeld>>
  PROVE  /\ AtProcess' = AtProcess /\ AtPipe' = AtPipe /\ AtWriter' = AtWriter
         /\ AtQueue' = AtQueue /\ AtReader' = AtReader
  BY DEF AtProcess, AtPipe, AtWriter, AtQueue, AtReader

LEMMA SendStep ==
  ASSUME StdinTypes, StdinInv, Send \/ SendEof
  PROVE  StdinTypes' /\ StdinInv'
<1> USE DEF StdinInv
<1>1. PICK x \in 0..MaxIn :
        /\ conn' = Append(conn, x) /\ Len(conn) < ConnSize + 1
        /\ client = "there" /\ ~ended
        /\ \/ x = sent + 1 /\ sent' = sent + 1 /\ ended' = ended
           \/ x = 0 /\ sent' = sent /\ ended' = TRUE /\ mode # "tty"
        /\ sent' \in 0..MaxIn
        /\ UNCHANGED <<mode, client, hin, hinHeld, streamVars, handleVars,
                       readerVars, writerVars, pumpVars, procVars>>
  <2>1. CASE Send
    <3>1. sent + 1 \in 0..MaxIn /\ Len(conn) < ConnSize + 1
      BY <2>1, Bounds, StdinLens, SMTT(30) DEF Send, StdinTypes
    <3> QED
      BY <2>1, <3>1 DEF Send
  <2>2. CASE SendEof
    <3>1. 0 \in 0..MaxIn /\ Len(conn) < ConnSize + 1
      BY <2>2, Bounds, StdinLens DEF SendEof
    <3> QED
      BY <2>2, <3>1 DEF SendEof, EOF, StdinTypes
  <2> QED
    BY <2>1, <2>2
<1>2. /\ UNCHANGED <<mode, client, hin, hinHeld, down, downFin, lost, gone,
                     chClosed, readerHeld, stdinCh, writer, writerHeld,
                     pipeClosed, ptyClosed, proc, pipeIn, readIn>>
  BY <1>1 DEF streamVars, handleVars, readerVars, writerVars, pumpVars, procVars
<1>3. /\ Buffer(conn', 0..MaxIn, ConnSize + 1) /\ Len(conn') = Len(conn) + 1
      /\ conn \in Seq(0..MaxIn)
  <2>1. Buffer(conn, 0..MaxIn, ConnSize + 1) /\ ConnSize + 1 \in Nat
    BY Bounds DEF StdinTypes
  <2>2. Len(conn) < ConnSize + 1 /\ conn' = Append(conn, x)
    BY <1>1
  <2>3. Buffer(conn', 0..MaxIn, ConnSize + 1) /\ Len(conn') = Len(conn) + 1
    BY <2>1, <2>2, BufferAppend
  <2> QED
    BY <2>1, <2>3 DEF Buffer
<1>4. StdinTypes'
  BY <1>1, <1>2, <1>3 DEF StdinTypes
<1>5. ~Marked(conn) /\ ~Marked(hinHeld) /\ ~Marked(down)
  BY <1>1 DEF EofInv
<1>6. /\ AtProcess' = AtProcess /\ AtPipe' = AtPipe /\ AtWriter' = AtWriter
      /\ AtQueue' = AtQueue /\ AtReader' = AtReader
  BY <1>2, StdinBehind
<1>7. AtStream' = AtStream /\ AtHost' = AtHost /\ AtConn' = AtConn + 1
  <2>1. AtStream' = AtStream /\ AtHost' = AtHost
    BY <1>2, <1>6 DEF AtStream, AtHost
  <2> QED
    BY <1>3, <2>1, StdinNats, StdinLens, SMTT(30) DEF AtConn
<1>8. (Feeds' <=> Feeds) /\ (Takes' <=> Takes) /\ (Flows' <=> Flows)
  BY <1>2 DEF Feeds, Takes, Flows
<1>9. Flows => AtConn = sent
  <2>1. Flows => AtConn = sent + 0
    BY <1>1 DEF CountInv
  <2>2. sent \in Nat
    BY Bounds DEF StdinTypes
  <2> QED
    BY <2>1, <2>2
<1>10. OrderInv'
  <2>1. Flows => Run(conn', AtHost)
    <3>1. Flows => x = 0 \/ x = AtHost + Len(conn) + 1
      BY <1>1, <1>9 DEF AtConn
    <3>2. Flows => Run(conn, AtHost)
      BY DEF OrderInv
    <3>3. AtHost \in Nat
      BY StdinNats
    <3> QED
      BY <1>1, <1>3, <1>5, <3>1, <3>2, <3>3, RunAppend
  <2> QED
    BY <1>2, <1>6, <1>7, <1>8, <2>1 DEF OrderInv
<1>11. EofInv'
  <2>1. Marked(conn') => x = 0
    BY <1>1, <1>3, <1>5, MarkedAppend
  <2>2. 0 # sent + 1
    BY Bounds DEF StdinTypes
  <2>3. Marked(conn') => ended'
    BY <1>1, <2>1, <2>2
  <2>4. ended' => mode # "tty"
    BY <1>1
  <2> QED
    BY <1>2, <1>5, <2>3, <2>4 DEF EofInv
<1>12. CountInv'
  <2>1. Flows' /\ client' = "there" =>
          AtConn' = sent' + (IF ended' THEN 1 ELSE 0)
    <3>1. Flows' => AtConn' = sent + 1
      BY <1>7, <1>8, <1>9
    <3>2. CASE sent' = sent + 1 /\ ended' = ended
      <4>1. sent + 1 \in Nat /\ ~ended' /\ sent' = sent + 1
        BY <1>1, <3>2, Bounds DEF StdinTypes
      <4>2. sent + 1 = sent' + 0
        BY <4>1
      <4> QED
        BY <3>1, <4>1, <4>2
    <3>3. CASE sent' = sent /\ ended' = TRUE
      BY <3>1, <3>3
    <3> QED
      BY <1>1, <3>2, <3>3
  <2>2. ~(proc = "running" /\ chClosed /\ ~gone /\ client = "there")
    BY <1>1 DEF CountInv
  <2> QED
    BY <1>2, <1>5, <2>1, <2>2 DEF CountInv
<1>13. WriterInv'
  BY <1>2 DEF WriterInv
<1> QED
  BY <1>4, <1>10, <1>11, <1>12, <1>13

\* The goroutine that reads the caller's connection.
LEMMA HinReadsStep ==
  ASSUME StdinTypes, StdinInv, HinReads
  PROVE  StdinTypes' /\ StdinInv'
<1> USE DEF StdinInv
<1>1. /\ hin = "reading" /\ hinHeld = <<>> /\ conn # <<>>
      /\ hinHeld' = <<Head(conn)>> /\ conn' = Tail(conn)
      /\ UNCHANGED <<mode, client, sent, ended, hin, down, downFin, lost, gone,
                     chClosed, readerHeld, stdinCh, writer, writerHeld,
                     pipeClosed, ptyClosed, proc, pipeIn, readIn>>
  BY DEF HinReads, callerVars, streamVars, handleVars, readerVars, writerVars,
    pumpVars, procVars
<1>2. /\ Buffer(conn', 0..MaxIn, ConnSize + 1) /\ Len(conn') = Len(conn) - 1
      /\ Head(conn) \in 0..MaxIn /\ conn \in Seq(0..MaxIn)
  <2>1. Buffer(conn, 0..MaxIn, ConnSize + 1) /\ ConnSize + 1 \in Nat
    BY Bounds DEF StdinTypes
  <2>2. conn \in Seq(0..MaxIn)
    BY <2>1 DEF Buffer
  <2> QED
    BY <1>1, <2>1, <2>2, BufferTail
<1>3. Buffer(hinHeld', 0..MaxIn, 1) /\ Len(hinHeld') = 1
  BY <1>1, <1>2, BufferOne
<1>4. StdinTypes'
  BY <1>1, <1>2, <1>3 DEF StdinTypes
<1>5. /\ AtProcess' = AtProcess /\ AtPipe' = AtPipe /\ AtWriter' = AtWriter
      /\ AtQueue' = AtQueue /\ AtReader' = AtReader
  BY <1>1, StdinBehind
<1>6. /\ AtStream' = AtStream /\ AtHost = AtStream /\ AtHost' = AtHost + 1
      /\ AtConn' = AtConn
  <2>1. AtStream' = AtStream
    BY <1>1, <1>5 DEF AtStream
  <2>2. Len(hinHeld) = 0
    BY <1>1, EmptySeq
  <2>3. AtStream \in Nat /\ Len(conn) \in Nat
    BY StdinNats, StdinLens
  <2> QED
    BY <1>2, <1>3, <2>1, <2>2, <2>3 DEF AtHost, AtConn
<1>7. (Feeds' <=> Feeds) /\ (Takes' <=> Takes) /\ (Flows' <=> Flows)
  BY <1>1 DEF Feeds, Takes, Flows
<1>8. /\ Marked(conn) <=> Head(conn) = 0 \/ Marked(conn')
      /\ Marked(hinHeld') <=> Head(conn) = 0
  BY <1>1, <1>2, MarkedTail, RunOne, Bounds
<1>9. Flows => /\ Run(conn', AtHost + 1)
               /\ \/ Head(conn) = AtHost + 1
                  \/ Head(conn) = 0 /\ Len(conn) = 1
  <2>1. AtHost \in Nat /\ (Flows => Run(conn, AtHost))
    BY StdinNats DEF OrderInv
  <2> QED
    BY <1>1, <1>2, <2>1, RunTail
<1>10. Flows => Run(hinHeld', AtStream)
  BY <1>1, <1>2, <1>6, <1>9, StdinNats, RunOne, Bounds
<1>11. OrderInv'
  BY <1>1, <1>5, <1>6, <1>7, <1>9, <1>10 DEF OrderInv
<1>12. EofInv'
  <2>1. Flows /\ Marked(hinHeld') => conn' = <<>>
    <3>1. Flows /\ Head(conn) = 0 => Len(conn') = 0
      <4>1. AtHost + 1 # 0
        BY StdinNats
      <4>2. Flows /\ Head(conn) = 0 => Len(conn) = 1
        BY <1>9, <4>1
      <4> QED
        BY <1>2, <4>2
    <3>2. Len(conn') = 0 => conn' = <<>>
      BY <1>2, BufferLen
    <3> QED
      BY <1>8, <3>1, <3>2
  <2>2. ~(Flows /\ Marked(down))
    BY <1>1 DEF EofInv
  <2>3. (Marked(conn') => ended) /\ (Marked(hinHeld') => ended)
    BY <1>8 DEF EofInv
  <2> QED
    BY <1>1, <1>7, <2>1, <2>2, <2>3 DEF EofInv
<1>13. CountInv'
  BY <1>1, <1>5, <1>6, <1>7 DEF CountInv
<1>14. WriterInv'
  BY <1>1 DEF WriterInv
<1> QED
  BY <1>4, <1>11, <1>12, <1>13, <1>14

LEMMA HinWritesStep ==
  ASSUME StdinTypes, StdinInv, HinWrites
  PROVE  StdinTypes' /\ StdinInv'
<1> USE DEF StdinInv
<1>1. /\ hinHeld # <<>> /\ hinHeld' = <<>> /\ hin = "reading"
      /\ UNCHANGED <<mode, client, sent, ended, conn, downFin, lost, gone,
                     chClosed, readerHeld, stdinCh, writer, writerHeld,
                     pipeClosed, ptyClosed, proc, pipeIn, readIn>>
  BY DEF HinWrites, callerVars, handleVars, readerVars, writerVars,
    pumpVars, procVars, EofInv
<1>2. CASE downFin \/ lost
  <2>1. down' = down /\ hin' = "done"
    BY <1>2 DEF HinWrites
  <2>2. Fades
    BY <1>1, <1>2, <2>1 DEF Fades
  <2> QED
    BY <2>2, StdinFades
<1>3. CASE ~downFin /\ ~lost
  <2>1. PICK x \in 0..MaxIn :
          hinHeld = <<x>> /\ Len(hinHeld) = 1 /\ down' = down \o <<x>>
    <3>1. /\ hinHeld = <<hinHeld[1]>> /\ hinHeld[1] \in 0..MaxIn
          /\ Len(hinHeld) = 1
      BY <1>1, BufferHeld DEF StdinTypes
    <3> QED
      BY <1>3, <3>1 DEF HinWrites
  <2>2. /\ Len(down) < Window
        /\ hin' = IF mode = "raw" /\ x = 0 THEN "hangup" ELSE hin
    <3>1. hinHeld = <<EOF>> <=> x = 0
      BY <2>1 DEF EOF
    <3> QED
      BY <1>3, <3>1 DEF HinWrites
  <2>3. /\ down' = Append(down, x) /\ Buffer(down', 0..MaxIn, Window)
        /\ Len(down') = Len(down) + 1 /\ down \in Seq(0..MaxIn)
    BY <2>1, <2>2, Bounds, BufferAppend DEF StdinTypes, Buffer
  <2>4. StdinTypes'
    BY <1>1, <2>3, BufferEmpty DEF StdinTypes
  <2>5. /\ AtProcess' = AtProcess /\ AtPipe' = AtPipe /\ AtWriter' = AtWriter
        /\ AtQueue' = AtQueue /\ AtReader' = AtReader
    BY <1>1, StdinBehind
  <2>6. AtStream' = AtStream + 1 /\ AtHost' = AtHost /\ AtConn' = AtConn
    <3>1. AtStream' = AtStream + 1
      BY <2>3, <2>5, StdinNats, StdinLens, SMTT(30) DEF AtStream
    <3>2. Len(hinHeld') = 0
      BY <1>1, EmptySeq
    <3>3. AtHost' = AtHost
      BY <2>1, <3>1, <3>2, StdinNats DEF AtHost
    <3> QED
      BY <1>1, <3>1, <3>3 DEF AtConn
  <2>7. (Feeds' <=> Feeds) /\ (Takes' <=> Takes) /\ (Flows' <=> Flows)
    BY <1>1 DEF Feeds, Takes, Flows
  <2>8. Takes => Flows
    BY <1>3 DEF Flows
  <2>9. /\ Marked(down') <=> Marked(down) \/ x = 0
        /\ Marked(hinHeld) <=> x = 0
        /\ ~Marked(hinHeld')
    <3>1. Marked(down') <=> Marked(down) \/ x = 0
      BY <2>3, MarkedAppend
    <3>2. x \in Nat
      BY Bounds
    <3>3. Marked(hinHeld) <=> x = 0
      BY <2>1, <3>2, RunOne
    <3> QED
      BY <1>1, <3>1, <3>3, RunEmpty
  <2>10. Flows => ~Marked(down)
    BY <1>1 DEF EofInv
  <2>11. Takes => Run(down', AtReader)
    <3>1. Flows => x = AtStream + 1 \/ x = 0
      BY <2>1, StdinNats, RunOne, Bounds DEF OrderInv
    <3>2. Takes => Run(down, AtReader)
      BY DEF OrderInv
    <3>3. AtReader \in Nat /\ AtStream = AtReader + Len(down)
      BY StdinNats DEF AtStream
    <3> QED
      BY <2>3, <2>8, <2>10, <3>1, <3>2, <3>3, RunAppend
  <2>12. Flows => Run(conn, AtHost)
    BY DEF OrderInv
  <2>13. OrderInv'
    BY <1>1, <2>5, <2>6, <2>7, <2>11, <2>12, RunEmpty DEF OrderInv
  <2>14. EofInv'
    <3>1. Flows /\ Marked(down') => /\ conn = <<>>
                                    /\ mode = "raw" => hin' # "reading"
      BY <2>2, <2>9, <2>10 DEF EofInv
    <3> QED
      BY <1>1, <2>2, <2>7, <2>9, <3>1 DEF EofInv
  <2>15. CountInv'
    <3>1. Takes /\ client = "there" /\ Marked(down') => AtStream' = sent + 1
      <4>1. Takes /\ Marked(down') => conn = <<>> /\ Marked(hinHeld) /\ Flows
        BY <2>8, <2>9, <2>10 DEF EofInv
      <4>2. Marked(hinHeld) /\ client = "there" => ended
        BY DEF EofInv
      <4>3. Flows /\ client = "there" /\ ended => AtConn = sent + 1
        BY DEF CountInv
      <4>4. conn = <<>> => AtConn = AtStream + 1
        BY <2>1, EmptySeq, StdinNats DEF AtConn, AtHost
      <4> QED
        BY <2>6, <4>1, <4>2, <4>3, <4>4
    <3> QED
      BY <1>1, <2>5, <2>6, <2>7, <3>1 DEF CountInv
  <2>16. WriterInv'
    BY <1>1 DEF WriterInv
  <2> QED
    BY <2>4, <2>13, <2>14, <2>15, <2>16
<1> QED
  BY <1>2, <1>3

\* A raw caller's connection can end like a half-close.
LEMMA HinEndsStep ==
  ASSUME StdinTypes, StdinInv, HinEnds
  PROVE  StdinTypes' /\ StdinInv'
<1> USE DEF StdinInv
<1>1. /\ hin = "reading" /\ hinHeld = <<>> /\ conn = <<>> /\ client # "there"
      /\ UNCHANGED <<mode, client, sent, ended, conn, down, lost, gone,
                     chClosed, readerHeld, stdinCh, writer, writerHeld,
                     pipeClosed, ptyClosed, proc, pipeIn, readIn>>
  BY DEF HinEnds, callerVars, handleVars, readerVars, writerVars,
    pumpVars, procVars
<1>2. CASE hin' = "done" /\ downFin' = TRUE /\ hinHeld' = hinHeld
  <2>1. Fades
    BY <1>1, <1>2 DEF Fades
  <2> QED
    BY <2>1, StdinFades
<1>3. CASE /\ mode = "raw" /\ client = "gone" /\ hinHeld' = <<EOF>>
           /\ hin' = hin /\ downFin' = downFin
  <2>1. 0 \in 0..MaxIn
    BY Bounds
  <2>2. StdinTypes'
    BY <1>1, <1>3, <2>1, BufferOne DEF StdinTypes, EOF
  <2>3. /\ AtProcess' = AtProcess /\ AtPipe' = AtPipe /\ AtWriter' = AtWriter
        /\ AtQueue' = AtQueue /\ AtReader' = AtReader /\ AtStream' = AtStream
    BY <1>1, StdinBehind DEF AtStream
  <2>4. (Feeds' <=> Feeds) /\ (Takes' <=> Takes) /\ (Flows' <=> Flows)
    BY <1>1, <1>3 DEF Feeds, Takes, Flows
  <2>5. ~(Flows /\ Marked(down))
    BY <1>1, <1>3 DEF EofInv
  <2>6. Run(hinHeld', AtStream)
    BY <1>3, StdinNats, RunOne DEF EOF
  <2>7. OrderInv'
    BY <1>1, <2>3, <2>4, <2>6, RunEmpty DEF OrderInv
  <2>8. EofInv'
    BY <1>1, <1>3, <2>4, <2>5 DEF EofInv
  <2>9. CountInv'
    BY <1>1 DEF CountInv
  <2>10. WriterInv'
    BY <1>1 DEF WriterInv
  <2> QED
    BY <2>2, <2>7, <2>8, <2>9, <2>10
<1> QED
  BY <1>2, <1>3 DEF HinEnds

\* A payload is not a mark.
LEMMA PayloadsUnmarked ==
  ASSUME NEW m \in Nat, NEW n, NEW q, Buffer(q, 1..m, n)
  PROVE  ~Marked(q)
<1>1. q \in Seq(1..m)
  BY DEF Buffer
<1>2. \A i \in 1..Len(q) : q[i] \in 1..m
  BY <1>1, ElementOfSeq
<1> QED
  BY <1>2 DEF Marked

\* The goroutine that reads frames: payloads, and the end of the input.
LEMMA ReaderReadsStep ==
  ASSUME StdinTypes, StdinInv, HandleInv, ControlInv, ReaderReads
  PROVE  StdinTypes' /\ StdinInv'
<1> USE DEF StdinInv
<1>1. /\ readerHeld = <<>> /\ down # <<>> /\ down' = Tail(down)
      /\ UNCHANGED <<mode, client, sent, ended, conn, hin, hinHeld, downFin,
                     lost, gone, stdinCh, writer, writerHeld, pipeClosed,
                     ptyClosed, proc, pipeIn, readIn>>
  BY DEF ReaderReads, callerVars, hostVars, handleVars, writerVars, pumpVars,
    procVars
<1>2. /\ Buffer(down', 0..MaxIn, Window) /\ Len(down') = Len(down) - 1
      /\ Head(down) \in 0..MaxIn /\ down \in Seq(0..MaxIn)
  <2>1. Buffer(down, 0..MaxIn, Window) /\ Window \in Nat
    BY Bounds DEF StdinTypes
  <2>2. down \in Seq(0..MaxIn)
    BY <2>1 DEF Buffer
  <2> QED
    BY <1>1, <2>1, <2>2, BufferTail
<1>3. Marked(down) <=> Head(down) = 0 \/ Marked(down')
  BY <1>1, <1>2, MarkedTail
<1>4. Takes => /\ Run(down', AtReader + 1)
               /\ \/ Head(down) = AtReader + 1
                  \/ Head(down) = 0 /\ Len(down) = 1
  <2>1. AtReader \in Nat /\ (Takes => Run(down, AtReader))
    BY StdinNats DEF OrderInv
  <2> QED
    BY <1>1, <1>2, <2>1, RunTail
<1>5. /\ AtProcess' = AtProcess /\ AtPipe' = AtPipe /\ AtWriter' = AtWriter
      /\ AtQueue' = AtQueue /\ AtReader = AtQueue
  <2>1. Len(readerHeld) = 0 /\ AtQueue \in Nat
    BY <1>1, EmptySeq, StdinNats
  <2> QED
    BY <1>1, <2>1 DEF AtProcess, AtPipe, AtWriter, AtQueue, AtReader
<1>6. (Feeds' <=> Feeds) /\ (Takes' => Takes)
  BY <1>1 DEF Feeds, Takes, ReaderReads
<1>7. EofInv'
  <2>1. Flows' => Flows
    BY <1>1, <1>6 DEF Flows
  <2>2. hin # "off"
    BY <1>1 DEF EofInv
  <2> QED
    BY <1>1, <1>3, <2>1, <2>2 DEF EofInv
<1>8. /\ Run(readIn', 0) /\ Run(pipeIn', AtProcess')
      /\ Feeds' => Run(writerHeld', AtPipe') /\ Run(stdinCh', AtWriter')
  BY <1>1, <1>5, <1>6 DEF OrderInv
<1>9. CASE chClosed \/ Head(down) = 0
  <2>1. readerHeld' = <<>> /\ chClosed'
    <3>1. Head(down) = 0 => mode # "tty"
      BY <1>3 DEF EofInv
    <3> QED
      BY <1>9, <3>1 DEF ReaderReads, EOF
  <2>2. StdinTypes'
    BY <1>1, <1>2, <2>1, BufferEmpty DEF StdinTypes
  <2>3. AtReader' = AtReader
    BY <1>1, <1>5, <2>1 DEF AtReader
  <2>4. OrderInv'
    BY <1>1, <1>8, <2>1, RunEmpty DEF OrderInv, Takes, Flows
  <2>5. CountInv'
    <3>1. ASSUME proc = "running", ~gone, client = "there", ~chClosed
          PROVE  mode # "tty" /\ ended /\ AtReader = sent
      <4>1. Marked(down) /\ Head(down) = 0
        BY <1>3, <1>9, <3>1
      <4>2. mode # "tty" /\ ended
        BY <3>1, <4>1 DEF EofInv
      <4>3. Takes
        <5>1. writer # "draining"
          BY <3>1, <4>2 DEF WriterInv, HandleInv
        <5>2. writer # "done"
          BY <3>1 DEF WriterInv
        <5> QED
          BY <3>1, <5>1, <5>2 DEF ControlInv, Takes, Feeds
      <4>4. AtStream = sent + 1
        BY <3>1, <4>1, <4>3 DEF CountInv
      <4>5. Len(down) = 1
        <5>1. AtReader + 1 # 0
          BY StdinNats
        <5> QED
          BY <1>4, <4>1, <4>3, <5>1
      <4>6. AtReader \in Nat /\ sent \in Nat
        BY StdinNats, Bounds DEF StdinTypes
      <4> QED
        BY <4>2, <4>4, <4>5, <4>6 DEF AtStream
    <3>2. ASSUME proc = "running", ~gone, client = "there"
          PROVE  mode # "tty" /\ ended /\ AtReader = sent
      BY <3>1, <3>2 DEF CountInv
    <3> QED
      BY <1>1, <2>1, <2>3, <3>2 DEF CountInv, Takes, Flows
  <2>6. WriterInv'
    BY <1>1, <2>1 DEF WriterInv
  <2> QED
    BY <1>7, <2>2, <2>4, <2>5, <2>6
<1>10. CASE ~chClosed /\ Head(down) # 0
  <2>1. readerHeld' = <<Head(down)>> /\ (chClosed' <=> chClosed)
    BY <1>10 DEF ReaderReads, EOF
  <2>2. /\ Head(down) \in 1..MaxIn
        /\ Buffer(readerHeld', 1..MaxIn, 1) /\ Len(readerHeld') = 1
    <3>1. Head(down) \in 1..MaxIn
      BY <1>2, <1>10, Bounds
    <3> QED
      BY <2>1, <3>1, BufferOne
  <2>3. StdinTypes'
    BY <1>1, <1>2, <2>2 DEF StdinTypes
  <2>4. /\ AtReader' = AtReader + 1 /\ AtStream' = AtStream
        /\ AtHost' = AtHost /\ AtConn' = AtConn
    <3>1. AtReader' = AtReader + 1
      BY <1>5, <2>2 DEF AtReader
    <3>2. AtStream' = AtStream
      <4>1. AtReader \in Nat /\ Len(down) \in Nat
        BY StdinNats, StdinLens
      <4>2. AtReader' + Len(down') = AtReader + Len(down)
        BY <1>2, <3>1, <4>1
      <4> QED
        BY <4>2 DEF AtStream
    <3> QED
      BY <1>1, <3>1, <3>2 DEF AtHost, AtConn
  <2>5. (Takes' <=> Takes) /\ (Flows' <=> Flows) /\ (Feeds => Takes)
    BY <1>1, <1>6, <1>10, <2>1 DEF Takes, Flows
  <2>6. Feeds => Run(readerHeld', AtQueue)
    BY <1>2, <1>4, <1>5, <1>10, <2>1, <2>5, RunOne, StdinNats, Bounds
  <2>7. OrderInv'
    BY <1>1, <1>4, <1>5, <1>6, <1>8, <2>4, <2>5, <2>6 DEF OrderInv
  <2>8. CountInv'
    BY <1>1, <1>3, <1>10, <2>1, <2>4, <2>5 DEF CountInv
  <2>9. WriterInv'
    BY <1>1, <1>10, <2>1 DEF WriterInv
  <2> QED
    BY <1>7, <2>3, <2>7, <2>8, <2>9
<1> QED
  BY <1>9, <1>10

\* What is counted from the reader on does not notice the steps before it.
LEMMA StdinAhead ==
  ASSUME StdinInv, AtReader' = AtReader,
         UNCHANGED <<mode, client, sent, ended, conn, hin, hinHeld, down,
                     downFin, lost, gone, chClosed, proc>>,
         Feeds' => Feeds
  PROVE  /\ EofInv' /\ CountInv'
         /\ Takes' => Run(down', AtReader')
         /\ Flows' => Run(hinHeld', AtStream') /\ Run(conn', AtHost')
<1> USE DEF StdinInv
<1>1. AtStream' = AtStream /\ AtHost' = AtHost /\ AtConn' = AtConn
  BY DEF AtStream, AtHost, AtConn
<1>2. (Takes' => Takes) /\ (Flows' => Flows)
  BY DEF Takes, Flows
<1>3. EofInv'
  BY <1>2 DEF EofInv
<1>4. CountInv'
  BY <1>1, <1>2 DEF CountInv
<1> QED
  BY <1>1, <1>2, <1>3, <1>4 DEF OrderInv

LEMMA ReaderQueuesStep ==
  ASSUME StdinTypes, StdinInv, ReaderQueues
  PROVE  StdinTypes' /\ StdinInv'
<1> USE DEF StdinInv
<1>1. /\ readerHeld # <<>> /\ readerHeld' = <<>> /\ Len(stdinCh) < QueueSize
      /\ stdinCh' = stdinCh \o readerHeld
      /\ UNCHANGED <<mode, client, sent, ended, conn, hin, hinHeld, down,
                     downFin, lost, gone, chClosed, writer, writerHeld,
                     pipeClosed, ptyClosed, proc, pipeIn, readIn>>
  BY DEF ReaderQueues, callerVars, hostVars, streamVars, handleVars, writerVars,
    pumpVars, procVars
<1>2. PICK x \in 1..MaxIn : readerHeld = <<x>> /\ Len(readerHeld) = 1
  BY <1>1, BufferHeld DEF StdinTypes
<1>3. Buffer(stdinCh, 1..MaxIn, QueueSize) /\ QueueSize \in Nat
  BY Bounds DEF StdinTypes
<1>4. /\ stdinCh' = Append(stdinCh, x) /\ Buffer(stdinCh', 1..MaxIn, QueueSize)
      /\ Len(stdinCh') = Len(stdinCh) + 1
  <2>1. /\ Buffer(Append(stdinCh, x), 1..MaxIn, QueueSize)
        /\ Len(Append(stdinCh, x)) = Len(stdinCh) + 1
        /\ stdinCh \o <<x>> = Append(stdinCh, x)
    BY <1>1, <1>3, BufferAppend
  <2>2. stdinCh' = stdinCh \o <<x>>
    BY <1>1, <1>2
  <2> QED
    BY <2>1, <2>2
<1>5. StdinTypes'
  BY <1>1, <1>4, BufferEmpty DEF StdinTypes
<1>6. /\ AtProcess' = AtProcess /\ AtPipe' = AtPipe /\ AtWriter' = AtWriter
      /\ AtQueue' = AtQueue + 1 /\ AtReader' = AtReader
      /\ AtReader = AtQueue + 1
  <2>1. /\ AtProcess' = AtProcess /\ AtPipe' = AtPipe /\ AtWriter' = AtWriter
    BY <1>1 DEF AtProcess, AtPipe, AtWriter
  <2>2. AtWriter \in Nat /\ Len(stdinCh) \in Nat /\ Len(readerHeld') = 0
    BY <1>1, EmptySeq, StdinNats, StdinLens
  <2>3. AtQueue' = AtQueue + 1
    BY <1>4, <2>1, <2>2 DEF AtQueue
  <2>4. AtReader' = AtQueue + 1 /\ AtReader = AtQueue + 1
    BY <1>2, <2>2, <2>3, StdinNats DEF AtReader
  <2> QED
    BY <2>1, <2>3, <2>4
<1>7. Feeds' <=> Feeds
  BY <1>1 DEF Feeds
<1>8. Feeds => Run(stdinCh', AtWriter)
  <2>1. x \in Nat /\ x # 0
    BY Bounds
  <2>2. Feeds => x = AtQueue + 1
    BY <1>2, <2>1, StdinNats, RunOne DEF OrderInv
  <2>3. ~Marked(stdinCh) /\ stdinCh \in Seq(1..MaxIn)
    BY <1>3, PayloadsUnmarked, Bounds DEF Buffer
  <2>4. Feeds => Run(stdinCh, AtWriter)
    BY DEF OrderInv
  <2>5. AtQueue = AtWriter + Len(stdinCh) /\ AtWriter \in Nat
    BY StdinNats DEF AtQueue
  <2> QED
    BY <1>4, <2>2, <2>3, <2>4, <2>5, RunAppend
<1>9. OrderInv'
  <2>1. /\ Takes' => Run(down', AtReader')
        /\ Flows' => Run(hinHeld', AtStream') /\ Run(conn', AtHost')
    BY <1>1, <1>6, <1>7, StdinAhead
  <2> QED
    BY <1>1, <1>6, <1>7, <1>8, <2>1, RunEmpty DEF OrderInv
<1>10. EofInv' /\ CountInv'
  BY <1>1, <1>6, <1>7, StdinAhead
<1>11. WriterInv'
  BY <1>1 DEF WriterInv
<1> QED
  BY <1>5, <1>9, <1>10, <1>11

\* The stdin writer; a PTY's, or that of a process that has ended, drops what
\* it takes.
LEMMA WriterTakesStep ==
  ASSUME StdinTypes, StdinInv, HandleInv, WriterTakes
  PROVE  StdinTypes' /\ StdinInv'
<1> USE DEF StdinInv
<1>1. /\ writer \in {"running", "draining"}
      /\ writerHeld = <<>> /\ stdinCh # <<>> /\ stdinCh' = Tail(stdinCh)
      /\ writerHeld' = IF writer = "running" THEN <<Head(stdinCh)>> ELSE <<>>
      /\ UNCHANGED <<mode, client, sent, ended, conn, hin, hinHeld, down,
                     downFin, lost, gone, chClosed, readerHeld, writer,
                     pipeClosed, ptyClosed, proc, pipeIn, readIn>>
  BY DEF WriterTakes, callerVars, hostVars, streamVars, handleVars, pumpVars,
    procVars
<1>2. /\ Buffer(stdinCh', 1..MaxIn, QueueSize)
      /\ Len(stdinCh') = Len(stdinCh) - 1
      /\ Head(stdinCh) \in 1..MaxIn /\ stdinCh \in Seq(1..MaxIn)
  <2>1. Buffer(stdinCh, 1..MaxIn, QueueSize) /\ QueueSize \in Nat
    BY Bounds DEF StdinTypes
  <2>2. stdinCh \in Seq(1..MaxIn)
    BY <2>1 DEF Buffer
  <2> QED
    BY <1>1, <2>1, <2>2, BufferTail
<1>3. Buffer(writerHeld', 1..MaxIn, 1)
  BY <1>1, <1>2, BufferOne, BufferEmpty
<1>4. StdinTypes'
  BY <1>1, <1>2, <1>3 DEF StdinTypes
<1>5. AtProcess' = AtProcess /\ AtPipe' = AtPipe
  BY <1>1 DEF AtProcess, AtPipe
<1>6. WriterInv'
  BY <1>1 DEF WriterInv
<1>7. CASE writer = "running"
  <2>1. writerHeld' = <<Head(stdinCh)>> /\ Len(writerHeld') = 1
    BY <1>1, <1>2, <1>7, BufferOne
  <2>2. AtWriter = AtPipe /\ AtWriter' = AtWriter + 1 /\ AtQueue' = AtQueue
    <3>1. AtPipe \in Nat /\ Len(stdinCh) \in Nat /\ Len(writerHeld) = 0
      BY <1>1, EmptySeq, StdinNats, StdinLens
    <3>2. AtWriter = AtPipe /\ AtWriter' = AtPipe + 1
      BY <1>5, <2>1, <3>1 DEF AtWriter
    <3>3. AtPipe + 1 + Len(stdinCh') = AtPipe + Len(stdinCh)
      BY <1>2, <3>1
    <3> QED
      BY <3>2, <3>3 DEF AtQueue
  <2>3. AtReader' = AtReader
    BY <1>1, <2>2 DEF AtReader
  <2>4. Feeds /\ Feeds'
    BY <1>1, <1>7 DEF Feeds
  <2>5. /\ Run(stdinCh', AtWriter + 1)
        /\ Head(stdinCh) = AtWriter + 1
    <3>1. Run(stdinCh, AtWriter) /\ AtWriter \in Nat
      BY <2>4, StdinNats DEF OrderInv
    <3>2. Head(stdinCh) # 0
      BY <1>2, Bounds
    <3> QED
      BY <1>1, <1>2, <3>1, <3>2, RunTail
  <2>6. Run(writerHeld', AtPipe)
    <3>1. Head(stdinCh) \in Nat /\ AtPipe \in Nat
      BY <1>2, StdinNats, Bounds
    <3> QED
      BY <2>1, <2>2, <2>5, <3>1, RunOne
  <2>7. OrderInv'
    <3>1. /\ Takes' => Run(down', AtReader')
          /\ Flows' => Run(hinHeld', AtStream') /\ Run(conn', AtHost')
      BY <1>1, <2>3, <2>4, StdinAhead
    <3> QED
      BY <1>1, <1>5, <2>2, <2>4, <2>5, <2>6, <3>1 DEF OrderInv
  <2>8. EofInv' /\ CountInv'
    BY <1>1, <2>3, <2>4, StdinAhead
  <2> QED
    BY <1>4, <1>6, <2>7, <2>8
<1>8. CASE writer = "draining"
  <2>1. ~Feeds' /\ ~Takes' /\ ~Flows' /\ ~Takes /\ ~Flows
    BY <1>1, <1>8 DEF Feeds, Takes, Flows
  <2>2. OrderInv'
    BY <1>1, <1>5, <2>1 DEF OrderInv
  <2>3. EofInv'
    BY <1>1, <2>1 DEF EofInv
  <2>4. ~(proc = "running" /\ chClosed /\ ~gone /\ client = "there")
    BY <1>8 DEF CountInv, WriterInv, HandleInv
  <2>5. CountInv'
    BY <1>1, <2>1, <2>4 DEF CountInv
  <2> QED
    BY <1>4, <1>6, <2>2, <2>3, <2>5
<1> QED
  BY <1>1, <1>7, <1>8

LEMMA WriterWritesStep ==
  ASSUME StdinTypes, StdinInv, HandleInv, WriterWrites
  PROVE  StdinTypes' /\ StdinInv'
<1> USE DEF StdinInv
<1>1. /\ writerHeld # <<>> /\ writerHeld' = <<>> /\ writer = "running"
      /\ UNCHANGED <<mode, client, sent, ended, conn, hin, hinHeld, down,
                     downFin, lost, gone, chClosed, readerHeld, stdinCh,
                     pipeClosed, ptyClosed, proc, readIn>>
  BY DEF WriterWrites, callerVars, hostVars, streamVars, handleVars, pumpVars,
    readerVars, WriterInv
<1>2. Buffer(<<>>, 1..MaxIn, 1)
  BY BufferEmpty
<1>3. AtProcess' = AtProcess
  BY <1>1 DEF AtProcess
<1>4. CASE /\ Len(pipeIn) < PipeSize /\ pipeIn' = pipeIn \o writerHeld
           /\ writer' = writer
  <2>1. PICK x \in 1..MaxIn : writerHeld = <<x>> /\ Len(writerHeld) = 1
    BY <1>1, BufferHeld DEF StdinTypes
  <2>2. Buffer(pipeIn, 1..MaxIn, PipeSize) /\ PipeSize \in Nat
    BY Bounds DEF StdinTypes
  <2>3. /\ pipeIn' = Append(pipeIn, x) /\ Buffer(pipeIn', 1..MaxIn, PipeSize)
        /\ Len(pipeIn') = Len(pipeIn) + 1
    <3>1. Len(pipeIn) < PipeSize /\ pipeIn' = pipeIn \o <<x>>
      BY <1>4, <2>1
    <3>2. /\ Buffer(Append(pipeIn, x), 1..MaxIn, PipeSize)
          /\ Len(Append(pipeIn, x)) = Len(pipeIn) + 1
          /\ pipeIn \o <<x>> = Append(pipeIn, x)
      BY <2>2, <3>1, BufferAppend
    <3> QED
      BY <3>1, <3>2
  <2>4. StdinTypes'
    BY <1>1, <1>2, <2>3 DEF StdinTypes
  <2>5. AtPipe' = AtPipe + 1 /\ AtWriter' = AtWriter /\ AtWriter = AtPipe + 1
    <3>1. AtProcess \in Nat /\ Len(pipeIn) \in Nat /\ Len(writerHeld') = 0
      BY <1>1, EmptySeq, StdinNats, StdinLens
    <3>2. AtPipe' = AtPipe + 1
      BY <1>3, <2>3, <3>1 DEF AtPipe
    <3> QED
      BY <2>1, <3>1, <3>2, StdinNats DEF AtWriter
  <2>6. AtQueue' = AtQueue /\ AtReader' = AtReader
    BY <1>1, <2>5 DEF AtQueue, AtReader
  <2>7. Feeds /\ Feeds'
    BY <1>1, <1>4 DEF Feeds
  <2>8. Run(pipeIn', AtProcess)
    <3>1. x \in Nat /\ x # 0
      BY Bounds
    <3>2. x = AtPipe + 1
      BY <2>1, <2>7, <3>1, StdinNats, RunOne DEF OrderInv
    <3>3. ~Marked(pipeIn) /\ pipeIn \in Seq(1..MaxIn)
      BY <2>2, PayloadsUnmarked, Bounds DEF Buffer
    <3>4. Run(pipeIn, AtProcess)
      BY DEF OrderInv
    <3>5. AtPipe = AtProcess + Len(pipeIn) /\ AtProcess \in Nat
      BY StdinNats DEF AtPipe
    <3> QED
      BY <2>3, <3>2, <3>3, <3>4, <3>5, RunAppend
  <2>9. OrderInv'
    <3>1. /\ Takes' => Run(down', AtReader')
          /\ Flows' => Run(hinHeld', AtStream') /\ Run(conn', AtHost')
      BY <1>1, <2>6, <2>7, StdinAhead
    <3> QED
      BY <1>1, <1>3, <2>5, <2>6, <2>7, <2>8, <3>1, RunEmpty DEF OrderInv
  <2>10. EofInv' /\ CountInv'
    BY <1>1, <2>6, <2>7, StdinAhead
  <2>11. WriterInv'
    BY <1>1, <1>4 DEF WriterInv
  <2> QED
    BY <2>4, <2>9, <2>10, <2>11
<1>5. CASE /\ proc # "running" \/ ptyClosed
           /\ writer' = "draining" /\ pipeIn' = pipeIn
  <2>1. StdinTypes'
    BY <1>1, <1>2, <1>5 DEF StdinTypes
  <2>2. ~Feeds' /\ ~Takes' /\ ~Flows'
    BY <1>5 DEF Feeds, Takes, Flows
  <2>3. OrderInv'
    BY <1>1, <1>3, <1>5, <2>2 DEF OrderInv
  <2>4. EofInv'
    BY <1>1, <2>2 DEF EofInv
  <2>5. ~(proc = "running" /\ chClosed /\ ~gone /\ client = "there")
    BY <1>5 DEF CountInv, HandleInv
  <2>6. CountInv'
    BY <1>1, <2>2, <2>5 DEF CountInv
  <2>7. WriterInv'
    BY <1>1, <1>5 DEF WriterInv
  <2> QED
    BY <2>1, <2>3, <2>4, <2>6, <2>7
<1> QED
  BY <1>4, <1>5 DEF WriterWrites, StdinHeld

\* The process's stdin is closed once everything was written, or the endpoint
\* has exited.
LEMMA WriterEndsStep ==
  ASSUME StdinTypes, StdinInv, WriterEnds \/ EndpointExits
  PROVE  StdinTypes' /\ StdinInv'
<1> USE DEF StdinInv
<1>1. /\ writer' = "done" /\ chClosed'
      /\ readerHeld' = <<>> /\ stdinCh' = <<>> /\ writerHeld' = <<>>
      /\ UNCHANGED <<mode, client, sent, ended, conn, hin, hinHeld, down,
                     downFin, lost, proc, pipeIn, readIn>>
      /\ \/ UNCHANGED <<chClosed, gone, readerHeld, stdinCh, writerHeld>>
         \/ gone' = TRUE
  BY DEF WriterEnds, EndpointExits, callerVars, hostVars, streamVars,
    handleVars, pumpVars, readerVars, procVars
<1>2. /\ Buffer(<<>>, 1..MaxIn, 1) /\ Buffer(<<>>, 1..MaxIn, QueueSize)
  BY Bounds, BufferEmpty
<1>3. StdinTypes'
  BY <1>1, <1>2 DEF StdinTypes
<1>4. ~Feeds' /\ ~Takes' /\ ~Flows'
  BY <1>1 DEF Feeds, Takes, Flows
<1>5. OrderInv'
  <2>1. AtProcess' = AtProcess
    BY <1>1 DEF AtProcess
  <2> QED
    BY <1>1, <1>4, <2>1 DEF OrderInv
<1>6. EofInv'
  BY <1>1, <1>4 DEF EofInv
<1>7. CountInv'
  <2>1. CASE UNCHANGED <<chClosed, gone, readerHeld, stdinCh, writerHeld>>
    <3>1. AtReader' = AtReader
      BY <1>1, <2>1, StdinBehind
    <3> QED
      BY <1>1, <1>4, <2>1, <3>1 DEF CountInv
  <2>2. CASE gone' = TRUE
    BY <1>4, <2>2 DEF CountInv
  <2> QED
    BY <1>1, <2>1, <2>2
<1>8. WriterInv'
  BY <1>1 DEF WriterInv
<1> QED
  BY <1>3, <1>5, <1>6, <1>7, <1>8

LEMMA ProcReadsStep ==
  ASSUME StdinTypes, StdinInv, ProcReads
  PROVE  StdinTypes' /\ StdinInv'
<1> USE DEF StdinInv
<1>1. /\ pipeIn # <<>> /\ pipeIn' = Tail(pipeIn)
      /\ readIn' = Append(readIn, Head(pipeIn))
      /\ UNCHANGED <<mode, client, sent, ended, conn, hin, hinHeld, down,
                     downFin, lost, gone, chClosed, readerHeld, stdinCh, writer,
                     writerHeld, pipeClosed, ptyClosed, proc>>
  BY DEF ProcReads, callerVars, hostVars, streamVars, handleVars, writerVars,
    pumpVars, readerVars
<1>2. /\ Buffer(pipeIn', 1..MaxIn, PipeSize) /\ Len(pipeIn') = Len(pipeIn) - 1
      /\ Head(pipeIn) \in 1..MaxIn /\ pipeIn \in Seq(1..MaxIn)
  <2>1. Buffer(pipeIn, 1..MaxIn, PipeSize) /\ PipeSize \in Nat
    BY Bounds DEF StdinTypes
  <2>2. pipeIn \in Seq(1..MaxIn)
    BY <2>1 DEF Buffer
  <2> QED
    BY <1>1, <2>1, <2>2, BufferTail
<1>3. readIn \in Seq(1..MaxIn)
  BY DEF StdinTypes
<1>4. readIn' \in Seq(1..MaxIn) /\ Len(readIn') = Len(readIn) + 1
  BY <1>1, <1>2, <1>3, AppendProperties
<1>5. StdinTypes'
  BY <1>1, <1>2, <1>4 DEF StdinTypes
<1>6. AtProcess' = AtProcess + 1 /\ AtPipe' = AtPipe
  <2>1. AtProcess' = AtProcess + 1
    BY <1>4 DEF AtProcess
  <2>2. AtProcess \in Nat /\ Len(pipeIn) \in Nat
    BY StdinNats, StdinLens
  <2>3. AtProcess + 1 + Len(pipeIn') = AtProcess + Len(pipeIn)
    BY <1>2, <2>2
  <2> QED
    BY <2>1, <2>3 DEF AtPipe
<1>7. AtWriter' = AtWriter /\ AtQueue' = AtQueue /\ AtReader' = AtReader
  BY <1>1, <1>6 DEF AtWriter, AtQueue, AtReader
<1>8. /\ Run(pipeIn', AtProcess + 1) /\ Head(pipeIn) = AtProcess + 1
  <2>1. Run(pipeIn, AtProcess) /\ AtProcess \in Nat
    BY StdinNats DEF OrderInv
  <2>2. Head(pipeIn) # 0
    BY <1>2, Bounds
  <2> QED
    BY <1>1, <1>2, <2>1, <2>2, RunTail
<1>9. Run(readIn', 0)
  <2>1. ~Marked(readIn)
    <3>1. Buffer(readIn, 1..MaxIn, Len(readIn))
      BY <1>3, LenProperties DEF Buffer
    <3> QED
      BY <3>1, PayloadsUnmarked, Bounds
  <2>2. Run(readIn, 0)
    BY DEF OrderInv
  <2>3. Head(pipeIn) = 0 + Len(readIn) + 1
    BY <1>8, StdinLens DEF AtProcess
  <2> QED
    BY <1>1, <1>2, <1>3, <2>1, <2>2, <2>3, RunAppend
<1>10. Feeds' <=> Feeds
  BY <1>1 DEF Feeds
<1>11. OrderInv'
  <2>1. /\ Takes' => Run(down', AtReader')
        /\ Flows' => Run(hinHeld', AtStream') /\ Run(conn', AtHost')
    BY <1>1, <1>7, <1>10, StdinAhead
  <2> QED
    BY <1>1, <1>6, <1>7, <1>8, <1>9, <1>10, <2>1 DEF OrderInv
<1>12. EofInv' /\ CountInv'
  BY <1>1, <1>7, <1>10, StdinAhead
<1>13. WriterInv'
  BY <1>1 DEF WriterInv
<1> QED
  BY <1>5, <1>11, <1>12, <1>13

\* A process that has just been started has got and seen nothing.
LEMMA LaunchStep ==
  ASSUME StdinTypes, StdinInv, HandleInv, Launch \/ Started
  PROVE  StdinTypes' /\ StdinInv'
<1> USE DEF StdinInv
<1>1. /\ UNCHANGED <<mode, client, sent, ended, conn, hin, hinHeld, down,
                     downFin, lost, chClosed, readerHeld, stdinCh,
                     writerHeld, pipeClosed, ptyClosed, pipeIn, readIn>>
      /\ ~chClosed /\ ~pipeClosed /\ writer = "off"
      /\ writer' \in {"off", "running"}
  BY DEF Launch, Started, Rejects, HandleInv, Early, callerVars, hostVars,
    streamVars, handleVars, writerVars, pumpVars, readerVars
<1>2. StdinTypes'
  BY <1>1 DEF StdinTypes
<1>3. /\ AtProcess' = AtProcess /\ AtPipe' = AtPipe /\ AtWriter' = AtWriter
      /\ AtQueue' = AtQueue /\ AtReader' = AtReader
  BY <1>1, StdinBehind
<1>4. AtStream' = AtStream /\ AtHost' = AtHost /\ AtConn' = AtConn
  BY <1>1, <1>3 DEF AtStream, AtHost, AtConn
<1>5. (Feeds' <=> Feeds) /\ (Takes' <=> Takes) /\ (Flows' <=> Flows)
  BY <1>1 DEF Feeds, Takes, Flows
<1>6. OrderInv'
  BY <1>1, <1>3, <1>4, <1>5 DEF OrderInv
<1>7. EofInv'
  BY <1>1, <1>5 DEF EofInv
<1>8. CountInv'
  BY <1>1, <1>3, <1>4, <1>5 DEF CountInv
<1>9. WriterInv'
  BY <1>1 DEF WriterInv
<1> QED
  BY <1>2, <1>6, <1>7, <1>8, <1>9

-----------------------------------------------------------------------------
(* Every step keeps the invariant of the endpoint's handler *)

LEMMA HandleStep ==
  ASSUME ControlInv, HandleInv, EofInv, WriterInv, PumpInv, [Next]_vars
  PROVE  HandleInv'
<1> USE DEF HandleInv, Early
<1>1. CASE Caller \/ GiveUp \/ CloseExecs
  BY <1>1 DEF Caller, Send, SendEof, Leave, GiveUp, CloseExecs, HostReturns,
    hostVars, handleVars, readerVars, writerVars, pumpVars, procVars
<1>2. CASE Hin
  BY <1>2 DEF Hin, HinReads, HinWrites, HinEnds, HinHangup, EofInv, handleVars,
    readerVars, writerVars, pumpVars, procVars
<1>3. CASE Hout
  BY <1>3 DEF Hout, SendRequest, ReceiveReply, HoutReads, HoutWrites, HoutEnds,
    HostReturns, handleVars, readerVars, writerVars, pumpVars, procVars
<1>4. CASE StreamTimeout \/ BridgeLost
  BY <1>4 DEF StreamTimeout, BridgeLost, hostVars, handleVars, readerVars,
    writerVars, pumpVars, procVars
<1>5. CASE CloseAll
  BY <1>5 DEF CloseAll, GroupEnds, hostVars, readerVars, writerVars, pumpVars
<1>6. CASE EndpointExits
  BY <1>6 DEF EndpointExits, hostVars
<1>7. CASE Register \/ Launch
  BY <1>7 DEF Register, Launch, Rejects, hostVars, readerVars, writerVars,
    pumpVars, procVars
<1>8. CASE Started
  BY <1>8 DEF Started, GroupEnds, hostVars
<1>9. CASE ProcessDone \/ PumpsDone \/ SendExit
  BY <1>9 DEF ProcessDone, PumpsDone, SendExit, hostVars, readerVars,
    writerVars, pumpVars, procVars
<1>10. CASE CallerGone \/ Drain
  BY <1>10 DEF CallerGone, Drain, GroupEnds, hostVars, readerVars, writerVars,
    pumpVars
<1>11. CASE Reader
  BY <1>11 DEF Reader, ReaderReads, ReaderQueues, ReaderEnds, hostVars,
    handleVars, writerVars, pumpVars, procVars
<1>12. CASE Writer
  BY <1>12 DEF Writer, WriterTakes, WriterWrites, WriterEnds, WriterInv,
    hostVars, handleVars, readerVars, pumpVars, procVars
<1>13. CASE Pump
  BY <1>13 DEF Pump, PumpReads, PumpWrites, PumpEnds, PumpInv, hostVars,
    handleVars, readerVars, writerVars, procVars
<1>14. CASE Process
  BY <1>14 DEF Process, ProcReads, ProcWrites, ProcForks, ProcExits, ChildEnds,
    hostVars, handleVars, readerVars, writerVars, pumpVars
<1>15. CASE UNCHANGED vars
  BY <1>15 DEF vars, hostVars, handleVars, readerVars, writerVars, pumpVars,
    procVars
<1> QED
  BY <1>1, <1>2, <1>3, <1>4, <1>5, <1>6, <1>7, <1>8, <1>9, <1>10, <1>11, <1>12,
    <1>13, <1>14, <1>15 DEF Next, Handle

\* The steps that move no stdin end something or leave it alone.
LEMMA StdinStep ==
  ASSUME ControlInv, HandleInv, StdinTypes, StdinInv, PumpInv, [Next]_vars
  PROVE  StdinTypes' /\ StdinInv'
<1>1. CASE Leave \/ GiveUp \/ CloseExecs \/ HinHangup
  <2>1. Fades
    BY <1>1 DEF Fades, Leave, GiveUp, CloseExecs, HinHangup, HostReturns,
      callerVars, hostVars, streamVars, handleVars, readerVars, writerVars,
      pumpVars, procVars, StdinInv, EofInv
  <2> QED
    BY <2>1, StdinFades
<1>2. CASE Hout
  <2>1. Fades
    BY <1>2 DEF Fades, Hout, SendRequest, ReceiveReply, HoutReads, HoutWrites,
      HoutEnds, HostReturns, HandleInv, callerVars, streamVars, handleVars,
      readerVars, writerVars, pumpVars, procVars
  <2> QED
    BY <2>1, StdinFades
<1>3. CASE StreamTimeout \/ BridgeLost \/ CloseAll
  <2>1. Fades
    BY <1>3 DEF Fades, StreamTimeout, BridgeLost, CloseAll, GroupEnds,
      callerVars, hostVars, streamVars, handleVars, readerVars, writerVars,
      pumpVars, procVars
  <2> QED
    BY <2>1, StdinFades
<1>4. CASE Handle /\ ~Launch /\ ~Started
  <2>1. Fades
    BY <1>4 DEF Fades, Handle, Register, ProcessDone, CallerGone, Drain,
      PumpsDone, SendExit, Rejects, GroupEnds, callerVars, hostVars, streamVars,
      handleVars, readerVars, writerVars, pumpVars, procVars
  <2> QED
    BY <2>1, StdinFades
<1>5. CASE ReaderEnds \/ Pump
  <2>1. Fades
    BY <1>5 DEF Fades, ReaderEnds, Pump, PumpReads, PumpWrites, PumpEnds,
      callerVars, hostVars, streamVars, handleVars, readerVars, writerVars,
      pumpVars, procVars
  <2> QED
    BY <2>1, StdinFades
<1>6. CASE ProcWrites \/ ProcForks \/ ProcExits \/ ChildEnds \/ UNCHANGED vars
  <2>1. Fades
    BY <1>6 DEF Fades, ProcWrites, ProcForks, ProcExits, ChildEnds, vars,
      callerVars, hostVars, streamVars, handleVars, readerVars, writerVars,
      pumpVars, procVars
  <2> QED
    BY <2>1, StdinFades
<1>7. CASE Send \/ SendEof
  BY <1>7, SendStep
<1>8. CASE HinReads \/ HinWrites \/ HinEnds
  BY <1>8, HinReadsStep, HinWritesStep, HinEndsStep
<1>9. CASE ReaderReads \/ ReaderQueues
  BY <1>9, ReaderReadsStep, ReaderQueuesStep
<1>10. CASE Writer \/ EndpointExits
  BY <1>10, WriterTakesStep, WriterWritesStep, WriterEndsStep DEF Writer
<1>11. CASE ProcReads
  BY <1>11, ProcReadsStep
<1>12. CASE Launch \/ Started
  BY <1>12, LaunchStep
<1> QED
  BY <1>1, <1>2, <1>3, <1>4, <1>5, <1>6, <1>7, <1>8, <1>9, <1>10, <1>11, <1>12
    DEF Next, Caller, Hin, Reader, Process

-----------------------------------------------------------------------------
(* Output *)

LEMMA OutputLens ==
  ASSUME OutputTypes
  PROVE  /\ Len(got) \in Nat /\ Len(houtHeld) \in Nat /\ Len(up) \in Nat
         /\ Len(pumpHeld) \in Nat /\ Len(pipeOut) \in Nat
         /\ ToHost \in Nat /\ ToStream \in Nat /\ ToPump \in Nat
         /\ ToPipe \in Nat /\ written \in Nat
<1>1. /\ Len(got) \in Nat /\ Len(houtHeld) \in Nat /\ Len(up) \in Nat
      /\ Len(pumpHeld) \in Nat /\ Len(pipeOut) \in Nat
  BY BufferLen, LenProperties DEF OutputTypes
<1>2. written \in Nat
  BY Bounds DEF OutputTypes
<1>3. /\ ToHost \in Nat /\ ToStream \in Nat /\ ToPump \in Nat /\ ToPipe \in Nat
  BY <1>1 DEF ToHost, ToStream, ToPump, ToPipe
<1> QED
  BY <1>1, <1>2, <1>3

\* Until the handler is done its caller has got payloads only.
LEMMA GotPayloads ==
  ASSUME OutputTypes, GotInv, hpc # "done"
  PROVE  /\ \A i \in 1..Len(got) : got[i] = i /\ i <= MaxOut
         /\ ~(got # <<>> /\ got[Len(got)] = EXIT)
<1>1. \A i \in 1..Len(got) : got[i] = i /\ i <= MaxOut
  BY DEF GotInv
<1>2. ASSUME got # <<>>
      PROVE  Len(got) \in 1..Len(got) /\ Len(got) # 0
  BY <1>2, EmptySeq, OutputLens DEF OutputTypes
<1> QED
  BY <1>1, <1>2 DEF EXIT

\* The steps that move no output: who has stopped listening or streaming does
\* not start again.
Rests ==
  /\ UNCHANGED <<mode, got, houtHeld, up, pumpHeld, pipeOut, written,
                 pumpFailed>>
  /\ client' = client \/ client' # "there"
  /\ clientGone' => client' # "there"
  /\ hpc' = hpc \/ (hpc \in {"request", "await"} /\ hpc' # "done")
  /\ (reset => reset') /\ (lost => lost') /\ (ptyClosed => ptyClosed')
  /\ epc = "done" => epc' = "done"
  /\ pump' = pump \/ (pump = "off" /\ pump' = "running")
  /\ epc' \in {"exit", "done"} => pump' # "running"
  /\ proc' = "none" => proc = "none"

LEMMA OutputRests ==
  ASSUME OutputTypes, OutputInv, Rests
  PROVE  OutputTypes' /\ OutputInv'
<1> USE DEF OutputInv
<1>1. OutputTypes'
  BY DEF OutputTypes, Rests
<1>2. /\ ToHost' = ToHost /\ ToStream' = ToStream /\ ToPump' = ToPump
      /\ ToPipe' = ToPipe
  BY DEF Rests, ToHost, ToStream, ToPump, ToPipe
<1>3. (Listens' => Listens) /\ (Streams' => Streams)
  BY DEF Rests, Listens, Streams
<1>4. GotInv'
  BY DEF GotInv, Rests
<1>5. FlowInv'
  BY <1>2, <1>3 DEF FlowInv, Rests
<1>6. PumpInv'
  BY DEF PumpInv, Rests
<1>7. ExitInv'
  BY <1>2, <1>3 DEF ExitInv, Rests
<1> QED
  BY <1>1, <1>4, <1>5, <1>6, <1>7

LEMMA HoutReadsStep ==
  ASSUME OutputTypes, OutputInv, HoutReads
  PROVE  OutputTypes' /\ OutputInv'
<1> USE DEF OutputInv
<1>1. /\ hpc = "proxy" /\ houtHeld = <<>> /\ up # <<>>
      /\ houtHeld' = <<Head(up)>> /\ up' = Tail(up)
      /\ UNCHANGED <<mode, client, hpc, clientGone, got, reset, lost, epc, pump,
                     pumpHeld, pumpFailed, ptyClosed, proc, pipeOut, written>>
  BY DEF HoutReads, callerVars, handleVars, pumpVars, procVars
<1>2. /\ Buffer(up', 0..MaxOut, Window) /\ Len(up') = Len(up) - 1
      /\ Head(up) \in 0..MaxOut /\ up \in Seq(0..MaxOut)
  <2>1. Buffer(up, 0..MaxOut, Window) /\ Window \in Nat
    BY Bounds DEF OutputTypes
  <2>2. up \in Seq(0..MaxOut)
    BY <2>1 DEF Buffer
  <2> QED
    BY <1>1, <2>1, <2>2, BufferTail
<1>3. Buffer(houtHeld', 0..MaxOut, 1) /\ Len(houtHeld') = 1
  BY <1>1, <1>2, BufferOne
<1>4. OutputTypes'
  BY <1>1, <1>2, <1>3 DEF OutputTypes
<1>5. ToHost = Len(got) /\ ToHost' = ToHost + 1
  <2>1. Len(houtHeld) = 0 /\ Len(got) \in Nat
    BY <1>1, EmptySeq, OutputLens
  <2> QED
    BY <1>1, <1>3, <2>1 DEF ToHost
<1>6. ToStream' = ToStream
  <2>1. Len(up) \in Nat /\ ToHost \in Nat
    BY OutputLens
  <2>2. ToHost + 1 + Len(up') = ToHost + Len(up)
    BY <1>2, <2>1
  <2> QED
    BY <1>5, <2>2 DEF ToStream
<1>7. ToPump' = ToPump /\ ToPipe' = ToPipe
  BY <1>1, <1>6 DEF ToPump, ToPipe
<1>8. (Listens' <=> Listens) /\ (Streams' <=> Streams)
  BY <1>1 DEF Listens, Streams
<1>9. Listens => /\ Run(up', ToHost + 1)
                 /\ Head(up) = ToHost + 1 \/ (Head(up) = 0 /\ Len(up) = 1)
  <2>1. ToHost \in Nat
    BY OutputLens
  <2> QED
    BY <1>1, <1>2, <2>1, RunTail DEF FlowInv
<1>10. Head(up) \in Nat /\ ToHost \in Nat
  BY <1>2, Bounds, OutputLens
<1>11. GotInv'
  BY <1>1 DEF GotInv
<1>12. FlowInv'
  <2>1. Listens => Run(houtHeld', Len(got))
    BY <1>1, <1>5, <1>9, <1>10, RunOne
  <2> QED
    BY <1>1, <1>5, <1>6, <1>7, <1>8, <1>9, <2>1 DEF FlowInv
<1>13. PumpInv'
  BY <1>1 DEF PumpInv
<1>14. ExitInv'
  <2>1. Marked(houtHeld') <=> Head(up) = 0
    BY <1>1, <1>10, RunOne
  <2>2. Marked(up) <=> Head(up) = 0 \/ Marked(up')
    BY <1>1, <1>2, MarkedTail
  <2>3. Listens /\ Marked(houtHeld') => ToHost' = ToStream
    <3>1. Head(up) = 0 => Head(up) # ToHost + 1
      BY <1>10
    <3>2. Listens /\ Marked(houtHeld') => Len(up) = 1
      BY <1>9, <2>1, <3>1
    <3>3. ToStream = ToHost + Len(up)
      BY DEF ToStream
    <3> QED
      BY <1>5, <3>2, <3>3
  <2> QED
    BY <1>1, <1>6, <1>8, <2>1, <2>2, <2>3 DEF ExitInv
<1> QED
  BY <1>4, <1>11, <1>12, <1>13, <1>14

\* What the handler adds to its caller's frames.
LEMMA GotAppend ==
  ASSUME OutputTypes, NEW x \in 0..LOST
  PROVE  /\ Append(got, x) \in Seq(0..LOST)
         /\ Len(Append(got, x)) = Len(got) + 1
         /\ Append(got, x)[Len(got) + 1] = x /\ Append(got, x) # <<>>
         /\ \A i \in 1..Len(got) : Append(got, x)[i] = got[i]
         /\ got \o <<x>> = Append(got, x)
<1>1. got \in Seq(0..LOST) /\ Len(got) \in Nat
  BY OutputLens DEF OutputTypes
<1>2. /\ Append(got, x) \in Seq(0..LOST)
      /\ Len(Append(got, x)) = Len(got) + 1
      /\ \A i \in 1..Len(got) : Append(got, x)[i] = got[i]
      /\ Append(got, x)[Len(got) + 1] = x
  BY <1>1, AppendProperties
<1>3. Append(got, x) # <<>>
  BY <1>1, <1>2, EmptySeq
<1>4. Append(got, x) = got \o <<x>>
  BY <1>1, AppendIsConcat
<1> QED
  BY <1>2, <1>3, <1>4

\* The handler's last step: the caller gets an end or is gone.
LEMMA HostReturnsStep ==
  ASSUME OutputTypes, OutputInv, hpc = "proxy", hpc' = "done",
         houtHeld' = <<>>, clientGone' => client # "there",
         UNCHANGED <<mode, client, up, reset, lost, epc, pump, pumpHeld,
                     pumpFailed, ptyClosed, proc, pipeOut, written>>,
         \/ got' = got /\ (client # "there" \/ mode = "raw")
         \/ got' = Append(got, LOST)
         \/ /\ got' = Append(got, EXIT)
            /\ mode = "framed" => Len(got) + 1 = written + 1 /\ pump = "done"
  PROVE  OutputTypes' /\ OutputInv'
<1> USE DEF OutputInv
<1>1. EXIT \in 0..LOST /\ LOST \in 0..LOST /\ LOST # EXIT
  BY Bounds DEF EXIT, LOST
<1>2. \/ got' = got /\ (client # "there" \/ mode = "raw")
      \/ \E x \in {EXIT, LOST} :
           /\ got' = Append(got, x)
           /\ x = EXIT /\ mode = "framed" =>
                Len(got) + 1 = written + 1 /\ pump = "done"
  BY <1>1
<1>3. /\ \A i \in 1..Len(got) : got[i] = i /\ i <= MaxOut
      /\ ~(got # <<>> /\ got[Len(got)] = EXIT)
  BY GotPayloads
<1>4. ~Listens' /\ ~Streams'
  BY DEF Listens, Streams
<1>5. Buffer(<<>>, 0..MaxOut, 1) /\ ~Marked(<<>>)
  BY BufferEmpty, RunEmpty
<1>6. FlowInv' /\ PumpInv'
  BY <1>4 DEF FlowInv, PumpInv
<1>7. CASE got' = got /\ (client # "there" \/ mode = "raw")
  <2>1. OutputTypes'
    BY <1>5, <1>7 DEF OutputTypes
  <2>2. GotInv'
    BY <1>3, <1>7 DEF GotInv
  <2>3. ExitInv'
    BY <1>3, <1>4, <1>5, <1>7 DEF ExitInv
  <2> QED
    BY <1>6, <2>1, <2>2, <2>3
<1>8. ASSUME NEW x \in {EXIT, LOST}, got' = Append(got, x),
             x = EXIT /\ mode = "framed" =>
               Len(got) + 1 = written + 1 /\ pump = "done"
      PROVE  OutputTypes' /\ OutputInv'
  <2>1. x \in 0..LOST
    BY <1>1
  <2>2. /\ got' \in Seq(0..LOST) /\ Len(got') = Len(got) + 1
        /\ got'[Len(got) + 1] = x /\ got' # <<>>
        /\ \A i \in 1..Len(got) : got'[i] = got[i]
    BY <1>8, <2>1, GotAppend
  <2>3. Len(got) \in Nat
    BY OutputLens
  <2>4. OutputTypes'
    BY <1>5, <2>2 DEF OutputTypes
  <2>5. GotInv'
    <3>1. ASSUME NEW i \in 1..Len(got')
          PROVE  \/ got'[i] = i /\ i <= MaxOut
                 \/ got'[i] \in {EXIT, LOST} /\ i = Len(got')
      <4>1. i \in 1..Len(got) \/ i = Len(got) + 1
        BY <2>2, <2>3
      <4> QED
        BY <1>3, <2>2, <4>1
    <3>2. got'[Len(got')] = x
      BY <2>2
    <3> QED
      BY <2>2, <3>1, <3>2 DEF GotInv
  <2>6. ExitInv'
    <3>1. got'[Len(got')] = x
      BY <2>2
    <3> QED
      BY <1>4, <1>5, <1>8, <2>2, <3>1 DEF ExitInv
  <2> QED
    BY <1>6, <2>4, <2>5, <2>6
<1> QED
  BY <1>2, <1>7, <1>8

LEMMA HoutEndsStep ==
  ASSUME ControlInv, OutputTypes, OutputInv, HoutEnds
  PROVE  OutputTypes' /\ OutputInv'
<1>1. /\ hpc = "proxy" /\ hpc' = "done" /\ houtHeld' = <<>>
      /\ clientGone => client # "there"
      /\ UNCHANGED <<mode, client, clientGone, up, reset, lost, epc, pump,
                     pumpHeld, pumpFailed, ptyClosed, proc, pipeOut, written>>
      /\ got' = IF mode # "raw" /\ ~clientGone /\ client = "there"
                THEN Append(got, LOST) ELSE got
  BY DEF HoutEnds, HostReturns, OutputInv, GotInv, callerVars, handleVars,
    pumpVars, procVars
<1>2. client # "there" \/ client = "there"
  BY DEF ControlInv
<1>3. \/ got' = got /\ (client # "there" \/ mode = "raw")
      \/ got' = Append(got, LOST)
  BY <1>1, <1>2
<1> QED
  BY <1>1, <1>3, HostReturnsStep

LEMMA HoutWritesStep ==
  ASSUME ControlInv, OutputTypes, OutputInv, HoutWrites
  PROVE  OutputTypes' /\ OutputInv'
<1> USE DEF OutputInv
<1>1. PICK x \in 0..MaxOut : houtHeld = <<x>> /\ Len(houtHeld) = 1
  BY BufferHeld DEF HoutWrites, OutputTypes
<1>2. /\ hpc = "proxy" /\ houtHeld' = <<>> /\ houtHeld # <<>>
      /\ clientGone' => client # "there"
      /\ UNCHANGED <<mode, client, up, reset, lost, epc, pump, pumpHeld,
                     pumpFailed, ptyClosed, proc, pipeOut, written>>
  BY DEF HoutWrites, HostReturns, GotInv, callerVars, handleVars, pumpVars,
    procVars
<1>3. (x = 0 <=> houtHeld = <<EXIT>>)
  BY <1>1 DEF ControlInv, EXIT
<1>4. /\ x \in 0..LOST /\ x \in Nat /\ x <= MaxOut
  BY Bounds DEF LOST
<1>5. got \o <<x>> = Append(got, x)
  BY <1>4, GotAppend
<1>6. got' = IF client # "there" \/ (mode = "raw" /\ x = 0)
             THEN got ELSE Append(got, x)
  BY <1>1, <1>3, <1>5 DEF HoutWrites
<1>7. Len(got) \in Nat /\ Len(<<>>) = 0 /\ ToHost = Len(got) + 1
  BY <1>1, EmptySeq, OutputLens DEF ToHost
<1>8. CASE hpc' = "done" /\ (x = 0 \/ client # "there")
  <2>1. ASSUME client = "there", mode = "framed"
        PROVE  Len(got) + 1 = written + 1 /\ pump = "done"
    <3>1. Marked(houtHeld) /\ Listens
      BY <1>1, <1>2, <1>4, <1>8, <2>1, RunOne DEF Listens
    <3> QED
      BY <1>7, <2>1, <3>1 DEF ExitInv
  <2>2. \/ got' = got /\ (client # "there" \/ mode = "raw")
        \/ /\ got' = Append(got, EXIT)
           /\ mode = "framed" => Len(got) + 1 = written + 1 /\ pump = "done"
    BY <1>3, <1>6, <1>8, <2>1 DEF EXIT
  <2> QED
    BY <1>2, <1>8, <2>2, HostReturnsStep
<1>9. CASE hpc' = hpc /\ x # 0
  <2>1. Buffer(<<>>, 0..MaxOut, 1) /\ ~Marked(<<>>) /\ ~Marked(houtHeld)
    BY <1>1, <1>4, <1>9, BufferEmpty, RunEmpty, RunOne
  <2>2. \A i \in 1..Len(got) : got[i] = i /\ i <= MaxOut
    BY <1>2, GotPayloads
  <2>3. PumpInv'
    BY <1>2 DEF PumpInv
  <2>4. CASE client # "there"
    <3>1. got' = got /\ ~Listens' /\ ~Streams'
      BY <1>2, <1>6, <2>4 DEF Listens, Streams
    <3>2. OutputTypes'
      BY <1>2, <2>1, <3>1 DEF OutputTypes
    <3>3. GotInv' /\ FlowInv' /\ ExitInv'
      BY <1>2, <1>9, <2>1, <2>4, <3>1 DEF GotInv, FlowInv, ExitInv
    <3> QED
      BY <2>3, <3>2, <3>3
  <2>5. CASE client = "there"
    <3>1. got' = Append(got, x)
      BY <1>6, <1>9, <2>5
    <3>2. /\ got' \in Seq(0..LOST) /\ Len(got') = Len(got) + 1
          /\ got'[Len(got) + 1] = x
          /\ \A i \in 1..Len(got) : got'[i] = got[i]
      BY <1>4, <3>1, GotAppend
    <3>3. OutputTypes'
      BY <1>2, <2>1, <3>2 DEF OutputTypes
    <3>4. Listens
      BY <1>2, <2>5 DEF Listens
    <3>5. x = Len(got) + 1
      BY <1>1, <1>4, <1>7, <1>9, <3>4, RunOne DEF FlowInv
    <3>6. GotInv'
      <4>1. ASSUME NEW i \in 1..Len(got')
            PROVE  got'[i] = i /\ i <= MaxOut
        <5>1. i \in 1..Len(got) \/ i = Len(got) + 1
          BY <1>7, <3>2
        <5> QED
          BY <1>4, <2>2, <3>2, <3>5, <5>1
      <4> QED
        BY <1>2, <1>9, <4>1 DEF GotInv
    <3>7. /\ ToHost' = ToHost /\ ToStream' = ToStream /\ ToPump' = ToPump
          /\ ToPipe' = ToPipe /\ Len(got') = ToHost
      <4>1. ToHost' = Len(got) + 1 + 0
        BY <1>2, <1>7, <3>2 DEF ToHost
      <4>2. ToHost' = ToHost
        BY <1>7, <4>1
      <4> QED
        BY <1>2, <1>7, <3>2, <4>2 DEF ToStream, ToPump, ToPipe
    <3>8. (Listens' <=> Listens) /\ (Streams' <=> Streams)
      BY <1>2, <1>9 DEF Listens, Streams
    <3>9. FlowInv'
      BY <1>2, <3>7, <3>8, RunEmpty DEF FlowInv
    <3>10. ExitInv'
      <4>1. ~(got' # <<>> /\ got'[Len(got')] = EXIT)
        BY <1>9, <3>2 DEF EXIT
      <4> QED
        BY <1>2, <2>1, <3>7, <3>8, <4>1 DEF ExitInv
    <3> QED
      BY <2>3, <3>3, <3>6, <3>9, <3>10
  <2> QED
    BY <1>3, <2>4, <2>5
<1> QED
  BY <1>3, <1>8, <1>9 DEF HoutWrites, HostReturns

LEMMA BridgeLostStep ==
  ASSUME OutputTypes, OutputInv, BridgeLost
  PROVE  OutputTypes' /\ OutputInv'
<1> USE DEF OutputInv
<1>1. PICK k \in 0..Len(up) : up' = SubSeq(up, 1, k)
  BY DEF BridgeLost
<1>2. /\ lost'
      /\ UNCHANGED <<mode, client, hpc, houtHeld, clientGone, got, reset, epc,
                     pump, pumpHeld, pumpFailed, ptyClosed, proc, pipeOut,
                     written>>
  BY DEF BridgeLost, callerVars, hostVars, handleVars, pumpVars, procVars
<1>3. Buffer(up, 0..MaxOut, Window) /\ Window \in Nat
  BY Bounds DEF OutputTypes
<1>4. Buffer(up', 0..MaxOut, Window) /\ Len(up') = k
  BY <1>1, <1>3, BufferPrefix
<1>5. OutputTypes'
  BY <1>2, <1>4 DEF OutputTypes
<1>6. ToHost' = ToHost /\ (Listens' <=> Listens) /\ ~Streams'
  BY <1>2 DEF ToHost, Listens, Streams
<1>7. Marked(up') => Marked(up)
  <2>1. ASSUME NEW i \in 1..k, up'[i] = 0
        PROVE  i \in 1..Len(up) /\ up[i] = 0
    <3>1. \A j \in 1..k : up'[j] = up[j]
      BY <1>1, <1>3, BufferPrefix
    <3>2. i \in 1..Len(up)
      BY OutputLens
    <3> QED
      BY <2>1, <3>1, <3>2
  <2> QED
    BY <1>4, <2>1 DEF Marked
<1>8. ASSUME Listens
      PROVE  Run(up', ToHost) /\ (Marked(up') => ToStream' = ToStream)
  <2>1. Run(up, ToHost) /\ ToHost \in Nat
    BY <1>8, OutputLens DEF FlowInv
  <2>2. Run(up', ToHost) /\ (Marked(up') => k = Len(up))
    BY <1>1, <1>3, <2>1, RunPrefix
  <2> QED
    BY <1>4, <1>6, <2>2 DEF ToStream
<1>9. GotInv' /\ PumpInv'
  BY <1>2 DEF GotInv, PumpInv
<1>10. FlowInv'
  BY <1>2, <1>6, <1>8 DEF FlowInv
<1>11. ExitInv'
  BY <1>2, <1>6, <1>7, <1>8 DEF ExitInv
<1> QED
  BY <1>5, <1>9, <1>10, <1>11

\* The exit frame follows all the output: the pump is done.
LEMMA SendExitStep ==
  ASSUME ControlInv, HandleInv, OutputTypes, OutputInv, SendExit
  PROVE  OutputTypes' /\ OutputInv'
<1> USE DEF OutputInv
<1>1. /\ epc = "exit" /\ epc' = "done"
      /\ UNCHANGED <<mode, client, hpc, houtHeld, clientGone, got, reset, lost,
                     pump, pumpHeld, pumpFailed, ptyClosed, proc, pipeOut,
                     written>>
      /\ \/ up' = up /\ (reset \/ lost)
         \/ ~reset /\ ~lost /\ Len(up) < Window /\ up' = Append(up, EXIT)
  BY DEF SendExit, callerVars, hostVars, pumpVars, procVars
<1>2. pump = "done" /\ pumpHeld = <<>> /\ pipeOut = <<>>
  BY <1>1 DEF PumpInv, HandleInv, Early, ControlInv
<1>3. ~Marked(up) /\ ~Marked(houtHeld)
  BY <1>1 DEF ExitInv
<1>4. /\ ToHost' = ToHost /\ (Listens' <=> Listens) /\ (Streams' <=> Streams)
  BY <1>1 DEF ToHost, Listens, Streams
<1>5. ToPipe = ToStream
  <2>1. Len(pumpHeld) = 0 /\ Len(pipeOut) = 0
    BY <1>2, EmptySeq
  <2> QED
    BY <2>1, OutputLens DEF ToPump, ToPipe
<1>6. GotInv' /\ PumpInv'
  BY <1>1, <1>2 DEF GotInv, PumpInv
<1>7. CASE up' = up
  <2>1. OutputTypes'
    BY <1>1, <1>7 DEF OutputTypes
  <2>2. ToStream' = ToStream /\ ToPump' = ToPump
    BY <1>1, <1>4, <1>7 DEF ToStream, ToPump
  <2>3. FlowInv'
    BY <1>1, <1>4, <1>7, <2>2 DEF FlowInv
  <2>4. ExitInv'
    BY <1>1, <1>2, <1>3, <1>7 DEF ExitInv
  <2> QED
    BY <1>6, <2>1, <2>3, <2>4
<1>8. CASE ~reset /\ ~lost /\ Len(up) < Window /\ up' = Append(up, EXIT)
  <2>1. Buffer(up, 0..MaxOut, Window) /\ Window \in Nat /\ EXIT \in 0..MaxOut
    BY Bounds DEF OutputTypes, EXIT
  <2>2. Buffer(up', 0..MaxOut, Window) /\ Len(up') = Len(up) + 1
    BY <1>8, <2>1, BufferAppend
  <2>3. up \in Seq(0..MaxOut)
    BY <2>1 DEF Buffer
  <2>4. OutputTypes'
    BY <1>1, <2>2 DEF OutputTypes
  <2>5. Listens => Run(up', ToHost)
    <3>1. ToHost \in Nat /\ EXIT = 0
      BY OutputLens DEF EXIT
    <3> QED
      BY <1>3, <1>8, <2>1, <2>3, <3>1, RunAppend DEF FlowInv
  <2>6. FlowInv'
    BY <1>1, <1>2, <1>4, <2>5, RunEmpty DEF FlowInv
  <2>7. ToStream' = ToStream + 1
    BY <1>4, <2>2, OutputLens DEF ToStream
  <2>8. mode = "framed" /\ Listens => ToStream = written
    BY <1>1, <1>5, <1>8 DEF FlowInv, Streams, HandleInv
  <2>9. ExitInv'
    BY <1>1, <1>2, <1>3, <1>4, <2>7, <2>8 DEF ExitInv
  <2> QED
    BY <1>6, <2>4, <2>6, <2>9
<1> QED
  BY <1>1, <1>7, <1>8

\* The pump's end, and that of the endpoint.
LEMMA OutputEndsStep ==
  ASSUME OutputTypes, OutputInv, PumpEnds \/ EndpointExits
  PROVE  OutputTypes' /\ OutputInv'
<1> USE DEF OutputInv
<1>1. /\ pump' = "done" /\ pumpHeld' = <<>> /\ pipeOut' = <<>>
      /\ (epc = "done" => epc' = "done") /\ (ptyClosed => ptyClosed')
      /\ (pipeOut = pipeOut' /\ pumpHeld' = pumpHeld) \/ ptyClosed'
      /\ UNCHANGED <<mode, client, hpc, houtHeld, clientGone, got, up, reset,
                     lost, pumpFailed, proc, written>>
      /\ epc' = epc \/ epc' = "done"
  BY DEF PumpEnds, EndpointExits, callerVars, hostVars, streamVars, handleVars,
    procVars
<1>2. /\ Buffer(<<>>, 1..MaxOut, PipeSize) /\ Buffer(<<>>, 1..MaxOut, 1)
  BY Bounds, BufferEmpty
<1>3. OutputTypes'
  BY <1>1, <1>2 DEF OutputTypes
<1>4. /\ ToHost' = ToHost /\ ToStream' = ToStream
      /\ (Listens' <=> Listens) /\ (Streams' <=> Streams)
  BY <1>1 DEF ToHost, ToStream, Listens, Streams
<1>5. GotInv' /\ PumpInv'
  BY <1>1 DEF GotInv, PumpInv
<1>6. FlowInv'
  <2>1. ~ptyClosed' => ToPipe' = ToPipe
    BY <1>1, <1>4 DEF ToPump, ToPipe
  <2> QED
    BY <1>1, <1>4, <2>1, RunEmpty DEF FlowInv
<1>7. ExitInv'
  BY <1>1, <1>4 DEF ExitInv
<1> QED
  BY <1>3, <1>5, <1>6, <1>7

LEMMA PumpReadsStep ==
  ASSUME OutputTypes, OutputInv, PumpReads
  PROVE  OutputTypes' /\ OutputInv'
<1> USE DEF OutputInv
<1>1. /\ pump = "running" /\ pumpHeld = <<>> /\ pipeOut # <<>>
      /\ pumpHeld' = IF pumpFailed THEN <<>> ELSE <<Head(pipeOut)>>
      /\ pipeOut' = Tail(pipeOut)
      /\ UNCHANGED <<mode, client, hpc, houtHeld, clientGone, got, up, reset,
                     lost, epc, pump, pumpFailed, ptyClosed, proc, written>>
  BY DEF PumpReads, callerVars, hostVars, streamVars, handleVars
<1>2. /\ Buffer(pipeOut', 1..MaxOut, PipeSize)
      /\ Len(pipeOut') = Len(pipeOut) - 1
      /\ Head(pipeOut) \in 1..MaxOut /\ pipeOut \in Seq(1..MaxOut)
  <2>1. Buffer(pipeOut, 1..MaxOut, PipeSize) /\ PipeSize \in Nat
    BY Bounds DEF OutputTypes
  <2>2. pipeOut \in Seq(1..MaxOut)
    BY <2>1 DEF Buffer
  <2> QED
    BY <1>1, <2>1, <2>2, BufferTail
<1>3. /\ Buffer(pumpHeld', 1..MaxOut, 1)
      /\ ~pumpFailed => Len(pumpHeld') = 1
  BY <1>1, <1>2, BufferOne, BufferEmpty
<1>4. OutputTypes'
  BY <1>1, <1>2, <1>3 DEF OutputTypes
<1>5. /\ ToHost' = ToHost /\ ToStream' = ToStream
      /\ (Listens' <=> Listens) /\ (Streams' <=> Streams)
  BY <1>1 DEF ToHost, ToStream, Listens, Streams
<1>6. Streams => ~pumpFailed
  BY DEF Streams, PumpInv
<1>7. ToPump = ToStream
  <2>1. Len(pumpHeld) = 0
    BY <1>1, EmptySeq
  <2> QED
    BY <2>1, OutputLens DEF ToPump
<1>8. Streams => ToPump' = ToPump + 1 /\ ToPipe' = ToPipe
  <2>1. Streams => ToPump' = ToPump + 1
    BY <1>3, <1>5, <1>6, <1>7 DEF ToPump
  <2>2. ToPump + 1 + Len(pipeOut') = ToPump + Len(pipeOut)
    BY <1>2, OutputLens
  <2> QED
    BY <2>1, <2>2 DEF ToPipe
<1>9. Streams => Run(pipeOut', ToPump + 1) /\ Head(pipeOut) = ToPump + 1
  <2>1. Head(pipeOut) # 0 /\ ToPump \in Nat
    BY <1>2, Bounds, OutputLens
  <2> QED
    BY <1>1, <1>2, <2>1, RunTail DEF FlowInv
<1>10. Streams => Run(pumpHeld', ToStream)
  <2>1. Head(pipeOut) \in Nat /\ ToStream \in Nat
    BY <1>2, Bounds, OutputLens
  <2> QED
    BY <1>1, <1>6, <1>7, <1>9, <2>1, RunOne
<1>11. GotInv' /\ PumpInv'
  BY <1>1 DEF GotInv, PumpInv
<1>12. FlowInv'
  BY <1>1, <1>5, <1>8, <1>9, <1>10 DEF FlowInv
<1>13. ExitInv'
  BY <1>1, <1>5 DEF ExitInv
<1> QED
  BY <1>4, <1>11, <1>12, <1>13

LEMMA PumpWritesStep ==
  ASSUME OutputTypes, OutputInv, PumpWrites
  PROVE  OutputTypes' /\ OutputInv'
<1> USE DEF OutputInv
<1>1. PICK x \in 1..MaxOut : pumpHeld = <<x>> /\ Len(pumpHeld) = 1
  BY BufferHeld DEF PumpWrites, OutputTypes
<1>2. /\ pumpHeld' = <<>> /\ pumpHeld # <<>> /\ pump = "running"
      /\ UNCHANGED <<mode, client, hpc, houtHeld, clientGone, got, reset, lost,
                     epc, pump, ptyClosed, proc, pipeOut, written>>
      /\ \/ up' = up /\ (reset \/ lost)
         \/ /\ ~reset /\ ~lost /\ Len(up) < Window /\ up' = up \o <<x>>
            /\ pumpFailed' = pumpFailed
  BY <1>1 DEF PumpWrites, PumpInv, callerVars, hostVars, procVars
<1>3. Buffer(<<>>, 1..MaxOut, 1) /\ Len(<<>>) = 0
  BY BufferEmpty, EmptySeq
<1>4. ~Marked(up) /\ ~Marked(houtHeld) /\ epc \notin {"exit", "done"}
  BY <1>2 DEF ExitInv, PumpInv
<1>5. ToHost' = ToHost /\ (Listens' <=> Listens) /\ (Streams' <=> Streams)
  BY <1>2 DEF ToHost, Listens, Streams
<1>6. GotInv'
  BY <1>2 DEF GotInv
<1>7. PumpInv'
  BY <1>2 DEF PumpWrites, PumpInv
<1>8. CASE up' = up /\ (reset \/ lost)
  <2>1. OutputTypes'
    BY <1>2, <1>3, <1>8 DEF OutputTypes
  <2>2. FlowInv'
    BY <1>2, <1>5, <1>8 DEF FlowInv, Streams
  <2>3. ExitInv'
    BY <1>2, <1>4, <1>8 DEF ExitInv
  <2> QED
    BY <1>6, <1>7, <2>1, <2>2, <2>3
<1>9. CASE ~reset /\ ~lost /\ Len(up) < Window /\ up' = up \o <<x>>
  <2>1. Buffer(up, 0..MaxOut, Window) /\ Window \in Nat /\ x \in 0..MaxOut
    BY Bounds DEF OutputTypes
  <2>2. /\ up' = Append(up, x) /\ Buffer(up', 0..MaxOut, Window)
        /\ Len(up') = Len(up) + 1
    <3>1. /\ Buffer(Append(up, x), 0..MaxOut, Window)
          /\ Len(Append(up, x)) = Len(up) + 1 /\ up \o <<x>> = Append(up, x)
      BY <1>9, <2>1, BufferAppend, ZenonT(30)
    <3> QED
      BY <1>9, <3>1
  <2>3. up \in Seq(0..MaxOut)
    BY <2>1 DEF Buffer
  <2>4. OutputTypes'
    BY <1>2, <1>3, <2>2 DEF OutputTypes
  <2>5. x \in Nat /\ x # 0
    BY Bounds
  <2>6. Streams => x = ToStream + 1
    BY <1>1, <2>5, OutputLens, RunOne DEF FlowInv
  <2>7. Listens => Run(up', ToHost)
    <3>1. Listens => x = ToHost + Len(up) + 1
      BY <1>9, <2>6 DEF Streams, ToStream
    <3>2. ToHost \in Nat
      BY OutputLens
    <3> QED
      BY <1>4, <2>1, <2>2, <2>3, <3>1, <3>2, RunAppend DEF FlowInv
  <2>8. ToPump' = ToPump /\ ToPipe' = ToPipe
    <3>1. ToStream' = ToStream + 1
      BY <1>5, <2>2, OutputLens DEF ToStream
    <3>2. ToPump' = ToPump
      BY <1>1, <1>2, <1>3, <3>1, OutputLens DEF ToPump
    <3> QED
      BY <1>2, <3>2 DEF ToPipe
  <2>9. FlowInv'
    BY <1>2, <1>5, <2>7, <2>8, RunEmpty DEF FlowInv
  <2>10. ~Marked(up')
    BY <1>4, <2>1, <2>2, <2>3, <2>5, MarkedAppend
  <2>11. ExitInv'
    BY <1>2, <1>4, <2>10 DEF ExitInv
  <2> QED
    BY <1>6, <1>7, <2>4, <2>9, <2>11
<1> QED
  BY <1>2, <1>8, <1>9

\* The process and its descendants write while nothing has ended their output.
LEMMA ProcWritesStep ==
  ASSUME ControlInv, HandleInv, OutputTypes, OutputInv, ProcWrites
  PROVE  OutputTypes' /\ OutputInv'
<1> USE DEF OutputInv
<1>1. /\ proc = "running" \/ child \in {"group", "daemon"}
      /\ pump # "done" /\ ~ptyClosed /\ Len(pipeOut) < PipeSize
      /\ written < MaxOut
      /\ written' = written + 1 /\ pipeOut' = Append(pipeOut, written + 1)
      /\ UNCHANGED <<mode, client, hpc, houtHeld, clientGone, got, up, reset,
                     lost, epc, pump, pumpHeld, pumpFailed, ptyClosed, proc>>
  BY DEF ProcWrites, callerVars, hostVars, streamVars, handleVars, pumpVars
<1>2. proc # "none"
  BY <1>1 DEF HandleInv
<1>3. epc # "done"
  BY <1>1, <1>2 DEF HandleInv, PumpInv, Early, ControlInv
<1>4. written + 1 \in 1..MaxOut /\ written + 1 # 0 /\ written \in Nat
  <2>1. written \in Nat
    BY OutputLens
  <2>2. written < MaxOut /\ MaxOut \in Nat
    BY <1>1, Bounds
  <2> QED
    BY <2>1, <2>2
<1>5. Buffer(pipeOut, 1..MaxOut, PipeSize) /\ PipeSize \in Nat
  BY Bounds DEF OutputTypes
<1>6. /\ Buffer(pipeOut', 1..MaxOut, PipeSize)
      /\ Len(pipeOut') = Len(pipeOut) + 1
  <2>1. Len(pipeOut) < PipeSize /\ written + 1 \in 1..MaxOut
    BY <1>1, <1>4
  <2>2. /\ Buffer(Append(pipeOut, written + 1), 1..MaxOut, PipeSize)
        /\ Len(Append(pipeOut, written + 1)) = Len(pipeOut) + 1
    BY <1>5, <2>1, BufferAppend
  <2> QED
    BY <1>1, <2>2
<1>7. written' \in 0..MaxOut
  BY <1>1, <1>4
<1>8. OutputTypes'
  BY <1>1, <1>6, <1>7 DEF OutputTypes
<1>9. /\ ToHost' = ToHost /\ ToStream' = ToStream /\ ToPump' = ToPump
      /\ (Listens' <=> Listens) /\ (Streams' <=> Streams)
  BY <1>1 DEF ToHost, ToStream, ToPump, Listens, Streams
<1>10. Streams => ToPipe = written
  BY <1>1, <1>3 DEF FlowInv
<1>11. ToPipe' = ToPipe + 1
  BY <1>6, <1>9, OutputLens DEF ToPipe
<1>12. Streams => Run(pipeOut', ToPump)
  <2>1. Streams => written + 1 = ToPump + Len(pipeOut) + 1
    BY <1>10 DEF ToPipe
  <2>2. ~Marked(pipeOut) /\ pipeOut \in Seq(1..MaxOut)
    BY <1>5, PayloadsUnmarked, Bounds DEF Buffer
  <2>3. ToPump \in Nat
    BY OutputLens
  <2> QED
    BY <1>1, <1>4, <2>1, <2>2, <2>3, RunAppend DEF FlowInv
<1>13. GotInv' /\ PumpInv'
  BY <1>1, <1>2 DEF GotInv, PumpInv
<1>14. FlowInv'
  BY <1>1, <1>9, <1>10, <1>11, <1>12 DEF FlowInv
<1>15. ExitInv'
  BY <1>1 DEF ExitInv
<1> QED
  BY <1>8, <1>13, <1>14, <1>15

LEMMA OutputStep ==
  ASSUME ControlInv, HandleInv, EofInv, OutputTypes, OutputInv, [Next]_vars
  PROVE  OutputTypes' /\ OutputInv'
<1>1. CASE Caller \/ GiveUp \/ CloseExecs
  <2>1. Rests
    BY <1>1 DEF Rests, Caller, Send, SendEof, Leave, GiveUp, CloseExecs,
      HostReturns, OutputInv, GotInv, PumpInv, callerVars, hostVars,
      streamVars, handleVars, pumpVars, procVars
  <2> QED
    BY <2>1, OutputRests
<1>2. CASE Hin
  <2>1. Rests
    BY <1>2 DEF Rests, Hin, HinReads, HinWrites, HinEnds, HinHangup, OutputInv,
      GotInv, PumpInv, callerVars, streamVars, handleVars, pumpVars, procVars
  <2> QED
    BY <2>1, OutputRests
<1>3. CASE SendRequest \/ ReceiveReply
  <2>1. Rests
    BY <1>3 DEF Rests, SendRequest, ReceiveReply, HostReturns, HandleInv,
      OutputInv, GotInv, PumpInv, callerVars, streamVars, handleVars, pumpVars,
      procVars
  <2> QED
    BY <2>1, OutputRests
<1>4. CASE StreamTimeout \/ CloseAll
  <2>1. Rests
    BY <1>4 DEF Rests, StreamTimeout, CloseAll, GroupEnds, OutputInv, GotInv,
      PumpInv, callerVars, hostVars, streamVars, handleVars, pumpVars, procVars
  <2> QED
    BY <2>1, OutputRests
<1>5. CASE Handle /\ ~SendExit
  <2>1. Rests
    BY <1>5 DEF Rests, Handle, Register, Launch, Started, ProcessDone,
      CallerGone, Drain, PumpsDone, Rejects, GroupEnds, HandleInv, Early,
      OutputInv, GotInv, PumpInv, callerVars, hostVars, streamVars, handleVars,
      pumpVars, procVars
  <2> QED
    BY <2>1, OutputRests
<1>6. CASE Reader \/ Writer
  <2>1. Rests
    BY <1>6 DEF Rests, Reader, ReaderReads, ReaderQueues, ReaderEnds, Writer,
      WriterTakes, WriterWrites, WriterEnds, OutputInv, GotInv, PumpInv,
      callerVars, hostVars, streamVars, handleVars, pumpVars, procVars
  <2> QED
    BY <2>1, OutputRests
<1>7. CASE Process /\ ~ProcWrites
  <2>1. Rests
    BY <1>7 DEF Rests, Process, ProcReads, ProcForks, ProcExits, ChildEnds,
      OutputInv, GotInv, PumpInv, callerVars, hostVars, streamVars, handleVars,
      pumpVars
  <2> QED
    BY <2>1, OutputRests
<1>8. CASE UNCHANGED vars
  <2>1. Rests
    BY <1>8 DEF Rests, OutputInv, GotInv, PumpInv, vars, callerVars, hostVars,
      streamVars, handleVars, pumpVars, procVars
  <2> QED
    BY <2>1, OutputRests
<1>9. CASE HoutReads \/ HoutWrites \/ HoutEnds
  BY <1>9, HoutReadsStep, HoutWritesStep, HoutEndsStep
<1>10. CASE BridgeLost \/ SendExit
  BY <1>10, BridgeLostStep, SendExitStep
<1>11. CASE Pump \/ EndpointExits
  BY <1>11, PumpReadsStep, PumpWritesStep, OutputEndsStep DEF Pump
<1>12. CASE ProcWrites
  BY <1>12, ProcWritesStep
<1> QED
  BY <1>1, <1>2, <1>3, <1>4, <1>5, <1>6, <1>7, <1>8, <1>9, <1>10, <1>11, <1>12
    DEF Next, Hout, Handle, Process

-----------------------------------------------------------------------------
(* The whole invariant *)

LEMMA ExecInit ==
  ASSUME Init
  PROVE  ExecInv
<1> USE DEF Init
<1>1. ControlInv /\ FlagsInv /\ HandleInv
  BY DEF ControlInv, FlagsInv, HandleInv, Early
<1>2. \A S : /\ Buffer(<<>>, S, 1) /\ Buffer(<<>>, S, ConnSize + 1)
             /\ Buffer(<<>>, S, Window) /\ Buffer(<<>>, S, QueueSize)
             /\ Buffer(<<>>, S, PipeSize) /\ <<>> \in Seq(S)
  BY Bounds, BufferEmpty, EmptySeq
<1>3. 0 \in 0..MaxIn /\ 0 \in 0..MaxOut
  BY Bounds
<1>4. StdinTypes /\ OutputTypes
  BY <1>2, <1>3 DEF StdinTypes, OutputTypes
<1>5. /\ \A a : Run(<<>>, a)
      /\ ~Marked(<<>>) /\ Len(<<>>) = 0
  BY RunEmpty, EmptySeq
<1>6. AtConn = 0 /\ ToPipe = 0
  BY <1>5 DEF AtConn, AtHost, AtStream, AtReader, AtQueue, AtWriter, AtPipe,
    AtProcess, ToPipe, ToPump, ToStream, ToHost
<1>7. StdinInv
  BY <1>5, <1>6 DEF StdinInv, OrderInv, EofInv, CountInv, WriterInv
<1>8. OutputInv
  BY <1>5, <1>6 DEF OutputInv, GotInv, FlowInv, PumpInv, ExitInv
<1> QED
  BY <1>1, <1>4, <1>7, <1>8 DEF ExecInv

LEMMA ExecStep ==
  ASSUME ExecInv, [Next]_vars
  PROVE  ExecInv'
<1>1. ControlInv' /\ FlagsInv'
  BY ControlStep, FlagsStep DEF ExecInv
<1>2. HandleInv'
  BY HandleStep DEF ExecInv, StdinInv, OutputInv
<1>3. StdinTypes' /\ StdinInv'
  BY StdinStep DEF ExecInv, OutputInv
<1>4. OutputTypes' /\ OutputInv'
  BY OutputStep DEF ExecInv, StdinInv
<1> QED
  BY <1>1, <1>2, <1>3, <1>4 DEF ExecInv

LEMMA ExecInvariant == Spec => []ExecInv
<1>1. Init => ExecInv
  BY ExecInit
<1>2. ExecInv /\ [Next]_vars => ExecInv'
  BY ExecStep
<1> QED
  BY <1>1, <1>2, PTL DEF Spec

LEMMA BufferQueue ==
  ASSUME NEW S, NEW n \in Nat, NEW q, Buffer(q, S, n)
  PROVE  q \in Queue(S, n)
<1>1. Len(q) \in Nat /\ Len(q) <= n /\ q \in Seq(S)
  BY BufferLen
<1>2. q \in [1..Len(q) -> S] /\ Len(q) \in 0..n
  BY <1>1, LenProperties
<1> QED
  BY <1>2 DEF Queue

LEMMA BufferIsHeld ==
  ASSUME NEW S, NEW q, Buffer(q, S, 1)
  PROVE  q \in Held(S)
  BY BufferHeld DEF Held

\* The variables of both sides of an exec keep their types, and every buffer on
\* the way of its input and output its bound.
THEOREM TypeCorrect == Spec => []TypeOK
<1>1. ExecInv => TypeOK
  <2> SUFFICES ASSUME ExecInv PROVE TypeOK
    OBVIOUS
  <2>1. ControlInv /\ FlagsInv
    BY DEF ExecInv
  <2>2. /\ sent \in 0..MaxIn /\ readIn \in Seq(1..MaxIn)
        /\ written \in 0..MaxOut /\ got \in Seq(0..LOST)
    BY DEF ExecInv, StdinTypes, OutputTypes
  <2>3. /\ conn \in Queue(0..MaxIn, ConnSize + 1)
        /\ down \in Queue(0..MaxIn, Window) /\ up \in Queue(0..MaxOut, Window)
        /\ stdinCh \in Queue(1..MaxIn, QueueSize)
        /\ pipeIn \in Queue(1..MaxIn, PipeSize)
        /\ pipeOut \in Queue(1..MaxOut, PipeSize)
    BY Bounds, BufferQueue DEF ExecInv, StdinTypes, OutputTypes
  <2>4. /\ hinHeld \in Held(0..MaxIn) /\ houtHeld \in Held(0..MaxOut)
        /\ readerHeld \in Held(1..MaxIn) /\ writerHeld \in Held(1..MaxIn)
        /\ pumpHeld \in Held(1..MaxOut)
    BY BufferIsHeld DEF ExecInv, StdinTypes, OutputTypes
  <2>5. {clientGone, downFin, upFin, reset, lost, gone, closed, chClosed}
          \subseteq BOOLEAN
    BY <2>1 DEF FlagsInv
  <2>6. {pumpFailed, ptyClosed, pipeClosed} \subseteq BOOLEAN
    BY <2>1 DEF FlagsInv
  <2>7. ended \in BOOLEAN
    BY <2>1 DEF FlagsInv
  <2> QED
    BY <2>1, <2>2, <2>3, <2>4, <2>5, <2>6, <2>7 DEF TypeOK, ControlInv
<1> QED
  BY <1>1, ExecInvariant, PTL

\* The process reads a first part of what its caller sent, in order; the end of
\* its stdin, while the caller is there, is the caller's and comes after all of
\* it, however many hops and goroutines it passes.
THEOREM StdinFaithful == Spec => []StdinIsFaithful
<1>1. ExecInv => StdinIsFaithful
  <2> SUFFICES ASSUME ExecInv PROVE StdinIsFaithful
    OBVIOUS
  <2>1. StdinTypes /\ StdinInv
    BY DEF ExecInv
  <2>2. /\ readIn \in Seq(1..MaxIn) /\ pipeIn \in Seq(1..MaxIn)
        /\ Len(readIn) \in Nat /\ Len(pipeIn) \in Nat
    BY <2>1, StdinLens DEF StdinTypes, Buffer
  <2>3. \A i \in 1..Len(readIn) : readIn[i] = i
    <3> SUFFICES ASSUME NEW i \in 1..Len(readIn) PROVE readIn[i] = i
      OBVIOUS
    <3>1. readIn[i] \in 1..MaxIn
      BY <2>2, ElementOfSeq
    <3>2. readIn[i] = 0 + i \/ readIn[i] = 0
      BY <2>1 DEF StdinInv, OrderInv, Run
    <3> QED
      BY <3>1, <3>2, Bounds
  <2>4. readIn = Upto(Len(readIn))
    <3>1. readIn \in [1..Len(readIn) -> 1..MaxIn]
      BY <2>2, LenProperties
    <3> QED
      BY <2>3, <3>1 DEF Upto
  <2>5. ASSUME proc = "running", pipeClosed, client = "there", ~gone
        PROVE  ended /\ readIn \o pipeIn = Upto(sent)
    <3>1. /\ chClosed /\ writerHeld = <<>> /\ stdinCh = <<>>
          /\ readerHeld = <<>>
      BY <2>1, <2>5 DEF StdinInv, WriterInv
    <3>2. ended /\ AtReader = sent
      BY <2>1, <2>5, <3>1 DEF StdinInv, CountInv
    <3>3. sent = Len(readIn) + Len(pipeIn)
      <4>1. Len(writerHeld) = 0 /\ Len(stdinCh) = 0 /\ Len(readerHeld) = 0
        BY <3>1, EmptySeq
      <4> QED
        BY <2>2, <3>2, <4>1 DEF AtReader, AtQueue, AtWriter, AtPipe, AtProcess
    <3>4. \A i \in 1..Len(pipeIn) : pipeIn[i] = Len(readIn) + i
      <4> SUFFICES ASSUME NEW i \in 1..Len(pipeIn)
                   PROVE  pipeIn[i] = Len(readIn) + i
        OBVIOUS
      <4>1. pipeIn[i] \in 1..MaxIn
        BY <2>2, ElementOfSeq
      <4>2. pipeIn[i] = Len(readIn) + i \/ pipeIn[i] = 0
        BY <2>1 DEF StdinInv, OrderInv, Run, AtProcess
      <4> QED
        BY <4>1, <4>2, Bounds
    <3>5. /\ readIn \o pipeIn \in Seq(1..MaxIn)
          /\ Len(readIn \o pipeIn) = Len(readIn) + Len(pipeIn)
          /\ \A i \in 1..Len(readIn) + Len(pipeIn) :
               (readIn \o pipeIn)[i] = IF i <= Len(readIn) THEN readIn[i]
                                       ELSE pipeIn[i - Len(readIn)]
      BY <2>2, ConcatProperties
    <3>6. ASSUME NEW i \in 1..sent
          PROVE  (readIn \o pipeIn)[i] = i
      <4>1. CASE i <= Len(readIn)
        BY <2>2, <2>3, <3>3, <3>5, <4>1
      <4>2. CASE ~(i <= Len(readIn))
        <5>1. /\ i - Len(readIn) \in 1..Len(pipeIn)
              /\ Len(readIn) + (i - Len(readIn)) = i
          BY <2>2, <3>3, <4>2
        <5>2. pipeIn[i - Len(readIn)] = i
          BY <3>4, <5>1
        <5> QED
          BY <3>3, <3>5, <4>2, <5>2
      <4> QED
        BY <4>1, <4>2
    <3>7. readIn \o pipeIn \in [1..sent -> 1..MaxIn]
      BY <3>3, <3>5, LenProperties
    <3> QED
      BY <3>2, <3>6, <3>7 DEF Upto
  <2> QED
    BY <2>4, <2>5 DEF StdinIsFaithful
<1> QED
  BY <1>1, ExecInvariant, PTL

\* The caller gets the output in order, all of it before the status of a process
\* without a PTY, and no frame after the exit frame; a caller that stays to the
\* end gets one, whatever fails on the way, unless the instance closes its
\* connection.
THEOREM ExitLast == Spec => []ExitIsLast
<1>1. ExecInv => ExitIsLast
  <2> SUFFICES ASSUME ExecInv PROVE ExitIsLast
    OBVIOUS
  <2>1. GotInv /\ ExitInv
    BY DEF ExecInv, OutputInv
  <2>2. ASSUME NEW i \in 1..Len(got)
        PROVE  /\ got[i] \in {EXIT, LOST} => i = Len(got)
               /\ got[i] \in 1..MaxOut => got[i] = i
    <3>1. \/ got[i] = i /\ i <= MaxOut
          \/ got[i] \in {EXIT, LOST} /\ i = Len(got)
      BY <2>1 DEF GotInv
    <3>2. i # EXIT /\ EXIT \notin 1..MaxOut /\ LOST \notin 1..MaxOut
      BY Bounds DEF EXIT, LOST
    <3>3. i <= MaxOut => i # LOST
      BY Bounds DEF LOST
    <3> QED
      BY <3>1, <3>2, <3>3
  <2>3. /\ mode = "framed" /\ got # <<>> /\ got[Len(got)] = EXIT =>
             Len(got) = written + 1
        /\ mode # "raw" /\ hpc = "done" /\ client = "there" =>
             got # <<>> /\ got[Len(got)] \in {EXIT, LOST}
    BY <2>1 DEF GotInv, ExitInv
  <2> QED
    BY <2>2, <2>3 DEF ExitIsLast
<1> QED
  BY <1>1, ExecInvariant, PTL
=============================================================================
