----------------------------- MODULE ExecStream -----------------------------
(***************************************************************************)
(* One exec from its caller to the process and back: the caller's          *)
(* connection to the control socket, handleExec with proxyRaw or           *)
(* proxyFramed (internal/host/execserver.go), the bridge stream, and       *)
(* execManager.handle (internal/endpoint/exec.go) with its reader, stdin   *)
(* writer and output pump.  Every hop holds at most one frame and every    *)
(* queue between two hops is bounded, so that a hop can block.             *)
(*                                                                         *)
(* A stdin payload and an output payload are their numbers.  Stdout and    *)
(* stderr share one pump here.  A signal or resize frame queues behind     *)
(* stdin and makes the process do only what it may do anyway, so it is     *)
(* left out, and a caller that breaks the protocol is one that leaves.     *)
(* Bridge streams are yamux streams: Close sends a FIN and still allows    *)
(* reads; a stream that the peer does not close in time is reset, and what *)
(* it had buffered cannot be read any more.                                *)
(***************************************************************************)
EXTENDS Naturals, Sequences

CONSTANTS
  Modes,      \* which of "raw", "framed" and "tty" (framed on a PTY)
  Children,   \* descendants a process may leave: "group" in its process group,
              \* "daemon" outside of it
  MaxIn,      \* bound: stdin payloads the caller sends
  MaxOut,     \* bound: output payloads
  MaxLoad,    \* bound: payloads in both directions
  ConnSize,   \* payloads the caller's connection buffers
  Window,     \* frames the bridge stream buffers in each direction
  QueueSize,  \* capacity of stdinCh (16 in the code)
  PipeSize    \* payloads the process's pipes (or PTY) buffer

ASSUME ExecStreamAssumption ==
  /\ Modes \subseteq {"raw", "framed", "tty"}
  /\ Children \subseteq {"group", "daemon"}
  /\ {MaxIn, MaxOut, MaxLoad} \subseteq Nat
  /\ {ConnSize, Window, QueueSize, PipeSize} \subseteq Nat \ {0}

VARIABLES
  mode,
  \* the caller: there, gone, or there with its connection cut by the instance,
  \* payloads sent, end of input sent, frames got
  client, sent, ended, got,
  \* the connection's buffer, the handler, the goroutine that reads conn, the
  \* frame each holds (none or one), and the flag clientGone
  conn, hpc, hin, hinHeld, houtHeld, clientGone,
  \* the bridge stream: frames in transit and FINs, reset, bridge lost
  down, downFin, up, upFin, reset, lost,
  \* handle, its reply, callerGone, execManager.closed, the reader and stdinCh
  epc, reply, gone, closed, reader, readerHeld, stdinCh, chClosed,
  \* the stdin writer and the output pump
  writer, writerHeld, pump, pumpHeld, pumpFailed, ptyClosed,
  \* the process, a descendant that holds its output, and its pipes
  proc, child, pipeIn, pipeClosed, readIn, pipeOut, written

callerVars == <<client, sent, ended>>
hostVars   == <<conn, hpc, hin, hinHeld, houtHeld, clientGone, got>>
streamVars == <<down, downFin, up, upFin, reset, lost>>
handleVars == <<epc, reply, gone, closed>>
readerVars == <<reader, readerHeld, stdinCh, chClosed>>
writerVars == <<writer, writerHeld, pipeClosed>>
pumpVars   == <<pump, pumpHeld, pumpFailed, ptyClosed>>
procVars   == <<proc, child, pipeIn, readIn, pipeOut, written>>
vars == <<mode, callerVars, hostVars, streamVars, handleVars, readerVars,
          writerVars, pumpVars, procVars>>

EOF  == 0               \* the stdin frame that ends the input
EXIT == 0               \* the exit frame with the process's status ...
LOST == MaxOut + 1      \* ... and the one that says "bridge lost"

Held(S) == {<<>>} \cup {<<x>> : x \in S}
Queue(S, n) == UNION {[1..k -> S] : k \in 0..n}

TypeOK ==
  /\ mode \in Modes /\ client \in {"there", "gone", "cut"}
  /\ sent \in 0..MaxIn /\ ended \in BOOLEAN
  /\ got \in Seq(0..LOST) /\ conn \in Queue(0..MaxIn, ConnSize + 1)
  /\ hpc \in {"request", "await", "proxy", "done", "refused"}
  /\ hin \in {"off", "reading", "hangup", "done"}
  /\ hinHeld \in Held(0..MaxIn) /\ houtHeld \in Held(0..MaxOut)
  /\ down \in Queue(0..MaxIn, Window) /\ up \in Queue(0..MaxOut, Window)
  /\ {clientGone, downFin, upFin, reset, lost, gone, closed, chClosed}
       \subseteq BOOLEAN
  /\ epc \in {"none", "header", "registered", "launched", "select", "drain",
              "pumps", "exit", "done"}
  /\ reply \in {"none", "ok", "rejected"}
  /\ reader \in {"off", "reading", "done"} /\ readerHeld \in Held(1..MaxIn)
  /\ stdinCh \in Queue(1..MaxIn, QueueSize)
  /\ writer \in {"off", "running", "draining", "done"}
  /\ writerHeld \in Held(1..MaxIn)
  /\ pump \in {"off", "running", "done"} /\ pumpHeld \in Held(1..MaxOut)
  /\ {pumpFailed, ptyClosed, pipeClosed} \subseteq BOOLEAN
  /\ proc \in {"none", "running", "exited"}
  /\ child \in {"none", "group", "daemon", "dead"}
  /\ pipeIn \in Queue(1..MaxIn, PipeSize) /\ readIn \in Seq(1..MaxIn)
  /\ pipeOut \in Queue(1..MaxOut, PipeSize) /\ written \in 0..MaxOut

Init ==
  /\ mode \in Modes
  /\ client = "there" /\ sent = 0 /\ ended = FALSE /\ got = <<>>
  /\ conn = <<>> /\ hpc = "request" /\ hin = "off"
  /\ hinHeld = <<>> /\ houtHeld = <<>> /\ clientGone = FALSE
  /\ down = <<>> /\ downFin = FALSE /\ up = <<>> /\ upFin = FALSE
  /\ reset = FALSE /\ lost = FALSE
  /\ epc = "none" /\ reply = "none" /\ gone = FALSE /\ closed = FALSE
  /\ reader = "off" /\ readerHeld = <<>> /\ stdinCh = <<>> /\ chClosed = FALSE
  /\ writer = "off" /\ writerHeld = <<>>
  /\ pump = "off" /\ pumpHeld = <<>> /\ pumpFailed = FALSE /\ ptyClosed = FALSE
  /\ proc = "none" /\ child = "none"
  /\ pipeIn = <<>> /\ pipeClosed = FALSE /\ readIn = <<>>
  /\ pipeOut = <<>> /\ written = 0

-----------------------------------------------------------------------------
(* The caller *)

Send ==
  /\ client = "there" /\ hpc \notin {"done", "refused"}
  /\ ~ended /\ Len(conn) < ConnSize
  /\ sent < MaxIn /\ sent + written < MaxLoad
  /\ sent' = sent + 1
  /\ conn' = Append(conn, sent + 1)
  /\ UNCHANGED <<mode, client, ended, hpc, hin, hinHeld, houtHeld, clientGone,
                 got, streamVars, handleVars, readerVars, writerVars, pumpVars,
                 procVars>>

\* A framed caller sends the EOF frame, a raw one shuts its side down.  A
\* terminal has no EOF.
SendEof ==
  /\ client = "there" /\ hpc \notin {"done", "refused"}
  /\ ~ended /\ mode # "tty" /\ Len(conn) <= ConnSize
  /\ ended' = TRUE
  /\ conn' = Append(conn, EOF)
  /\ UNCHANGED <<mode, client, sent, hpc, hin, hinHeld, houtHeld, clientGone,
                 got, streamVars, handleVars, readerVars, writerVars, pumpVars,
                 procVars>>

\* The caller disconnects or dies; what the host has not read may be lost.
Leave ==
  /\ client = "there" /\ hpc \notin {"done", "refused"}
  /\ client' = "gone"
  /\ conn' \in {conn, <<>>}
  /\ UNCHANGED <<mode, sent, ended, hpc, hin, hinHeld, houtHeld, clientGone,
                 got, streamVars, handleVars, readerVars, writerVars, pumpVars,
                 procVars>>

-----------------------------------------------------------------------------
(* handleExec *)

\* The handler returns: its deferred calls close the stream and conn, with what
\* is still in it, and the goroutine that reads conn ends.
HostReturns(how) ==
  /\ hpc' = how
  /\ downFin' = TRUE
  /\ conn' = <<>>
  /\ hin' = "done" /\ hinHeld' = <<>> /\ houtHeld' = <<>>

\* An instance that has begun to end its execs takes no stream any more.
SendRequest ==
  /\ hpc = "request" /\ client # "cut"
  /\ hpc' = "await"
  /\ epc' = "header"
  /\ UNCHANGED <<mode, callerVars, conn, hin, hinHeld, houtHeld, clientGone,
                 got, streamVars, reply, gone, closed, readerVars, writerVars,
                 pumpVars, procVars>>

\* The endpoint's reply, and its line for the caller.
ReceiveReply ==
  /\ hpc = "await" /\ reply # "none" /\ ~lost /\ ~reset
  /\ \/ /\ reply = "ok" /\ client = "there"
        /\ hpc' = "proxy" /\ hin' = "reading"
        /\ UNCHANGED <<conn, hinHeld, houtHeld, downFin>>
     \/ /\ reply = "rejected" \/ client # "there"
        /\ HostReturns("refused")
  /\ UNCHANGED <<mode, callerVars, clientGone, got, down, up, upFin,
                 reset, lost, handleVars, readerVars, writerVars, pumpVars,
                 procVars>>

\* There is no bridge, the instance is shutting down, the header timeout passes
\* or the stream fails.
GiveUp ==
  /\ hpc \in {"request", "await"}
  /\ HostReturns("refused")
  /\ UNCHANGED <<mode, callerVars, clientGone, got, down, up, upFin,
                 reset, lost, handleVars, readerVars, writerVars, pumpVars,
                 procVars>>

\* CloseExecs at the instance's shutdown ends every session of an exec: the
\* stream, if there is one yet, and the caller's connection, in any order.  What
\* the host has buffered of the connection may still be read.
CloseExecs ==
  /\ \/ /\ hpc \in {"await", "proxy"} /\ ~downFin
        /\ downFin' = TRUE
        /\ UNCHANGED <<client, conn>>
     \/ /\ hpc \in {"request", "await", "proxy"} /\ client = "there"
        /\ client' = "cut"
        /\ conn' = <<>> \/ (conn' = conn /\ (mode = "raw" => ~ended))
        /\ UNCHANGED downFin
  /\ UNCHANGED <<mode, sent, ended, hpc, hin, hinHeld, houtHeld, clientGone,
                 got, down, up, upFin, reset, lost, handleVars, readerVars,
                 writerVars, pumpVars, procVars>>

-----------------------------------------------------------------------------
(* proxyRaw and proxyFramed: from conn to the stream *)

HinReads ==
  /\ hin = "reading" /\ hinHeld = <<>> /\ conn # <<>>
  /\ hinHeld' = <<Head(conn)>>
  /\ conn' = Tail(conn)
  /\ UNCHANGED <<mode, callerVars, hpc, hin, houtHeld, clientGone, got,
                 streamVars, handleVars, readerVars, writerVars, pumpVars,
                 procVars>>

\* After a raw caller's EOF only its hangup matters.
HinWrites ==
  /\ hinHeld # <<>>
  /\ \/ /\ ~downFin /\ ~lost /\ Len(down) < Window
        /\ down' = down \o hinHeld
        /\ hin' = IF mode = "raw" /\ hinHeld = <<EOF>> THEN "hangup" ELSE hin
     \/ /\ downFin \/ lost
        /\ hin' = "done"
        /\ UNCHANGED down
  /\ hinHeld' = <<>>
  /\ UNCHANGED <<mode, callerVars, conn, hpc, houtHeld, clientGone, got,
                 downFin, up, upFin, reset, lost, handleVars, readerVars,
                 writerVars, pumpVars, procVars>>

\* conn ends.  To proxyRaw a caller that leaves can look like a half-close at
\* first; a connection that was closed on this side is an error.
HinEnds ==
  /\ hin = "reading" /\ hinHeld = <<>> /\ conn = <<>> /\ client # "there"
  /\ \/ /\ hin' = "done"
        /\ downFin' = TRUE
        /\ clientGone' = (mode # "raw")
        /\ UNCHANGED hinHeld
     \/ /\ mode = "raw" /\ client = "gone"
        /\ hinHeld' = <<EOF>>
        /\ UNCHANGED <<hin, downFin, clientGone>>
  /\ UNCHANGED <<mode, callerVars, conn, hpc, houtHeld, got, down, up, upFin,
                 reset, lost, handleVars, readerVars, writerVars, pumpVars,
                 procVars>>

\* waitHangup, which ends without a hangup when this side closes conn.
HinHangup ==
  /\ hin = "hangup" /\ client = "gone"
  /\ hin' = "done"
  /\ downFin' = TRUE
  /\ UNCHANGED <<mode, callerVars, conn, hpc, hinHeld, houtHeld, clientGone,
                 got, down, up, upFin, reset, lost, handleVars, readerVars,
                 writerVars, pumpVars, procVars>>

-----------------------------------------------------------------------------
(* proxyRaw and proxyFramed: from the stream to conn *)

HoutReads ==
  /\ hpc = "proxy" /\ houtHeld = <<>> /\ up # <<>> /\ ~reset
  /\ houtHeld' = <<Head(up)>>
  /\ up' = Tail(up)
  /\ UNCHANGED <<mode, callerVars, conn, hpc, hin, hinHeld, clientGone, got,
                 down, downFin, upFin, reset, lost, handleVars, readerVars,
                 writerVars, pumpVars, procVars>>

\* The exit frame ends the handler; a raw caller does not get it.  Writing to
\* a caller that is gone or cut off fails, except for a raw caller's stderr: that goes to
\* the instance's log.
HoutWrites ==
  /\ houtHeld # <<>>
  /\ got' = IF client # "there" \/ (mode = "raw" /\ houtHeld = <<EXIT>>)
            THEN got ELSE got \o houtHeld
  /\ \/ /\ houtHeld = <<EXIT>> \/ client # "there"
        /\ HostReturns("done")
     \/ /\ houtHeld # <<EXIT>> /\ (client = "there" \/ mode = "raw")
        /\ houtHeld' = <<>>
        /\ UNCHANGED <<conn, hpc, hin, hinHeld, downFin>>
  /\ clientGone' = (clientGone \/ (mode # "raw" /\ client # "there"
                                    /\ houtHeld # <<EXIT>>))
  /\ UNCHANGED <<mode, callerVars, down, up, upFin, reset, lost,
                 handleVars, readerVars, writerVars, pumpVars, procVars>>

\* Fault: a bridge that fails just closes the connection.
HoutEnds_Silent ==
  /\ hpc = "proxy" /\ houtHeld = <<>>
  /\ (up = <<>> /\ (upFin \/ lost)) \/ reset
  /\ HostReturns("done")
  /\ UNCHANGED <<mode, callerVars, clientGone, got, down, up, upFin,
                 reset, lost, handleVars, readerVars, writerVars, pumpVars,
                 procVars>>

\* The stream ends without an exit frame.
HoutEnds ==
  /\ hpc = "proxy" /\ houtHeld = <<>>
  /\ (up = <<>> /\ (upFin \/ lost)) \/ reset
  /\ got' = IF mode # "raw" /\ ~clientGone /\ client = "there"
            THEN Append(got, LOST) ELSE got
  /\ HostReturns("done")
  /\ UNCHANGED <<mode, callerVars, clientGone, down, up, upFin, reset,
                 lost, handleVars, readerVars, writerVars, pumpVars, procVars>>

-----------------------------------------------------------------------------
(* The bridge *)

\* yamux resets a stream that one side closed and the other does not.
StreamTimeout ==
  /\ downFin # upFin /\ ~reset /\ ~lost
  /\ reset' = TRUE
  /\ UNCHANGED <<mode, callerVars, hostVars, down, downFin, up, upFin, lost,
                 handleVars, readerVars, writerVars, pumpVars, procVars>>

\* The bridge is lost, with some of what is in transit; what has arrived can be
\* read.
BridgeLost ==
  /\ ~lost /\ hpc # "request"
  /\ lost' = TRUE
  /\ \E k \in 0..Len(down) : down' = SubSeq(down, 1, k)
  /\ \E k \in 0..Len(up) : up' = SubSeq(up, 1, k)
  /\ UNCHANGED <<mode, callerVars, hostVars, downFin, upFin, reset,
                 handleVars, readerVars, writerVars, pumpVars, procVars>>

-----------------------------------------------------------------------------
(* execManager.handle *)

\* The group of the process is gone: TERM (or a hangup of the session), and
\* KILL after the grace.  Up to then the process and its descendant do what
\* they like.
GroupEnds ==
  /\ proc' = IF proc = "running" THEN "exited" ELSE proc
  /\ child' = IF child = "group" THEN "dead" ELSE child

\* A rejection is the reply, and handle returns.
Rejects ==
  /\ reply' = "rejected"
  /\ epc' = "done"
  /\ upFin' = TRUE

\* A bad header or a closed manager is a rejection.
Register ==
  /\ epc = "header"
  /\ \/ ~closed /\ epc' = "registered" /\ UNCHANGED <<reply, upFin>>
     \/ Rejects
  /\ UNCHANGED <<mode, callerVars, hostVars, down, downFin, up, reset, lost,
                 gone, closed, readerVars, writerVars, pumpVars, procVars>>

\* Start the process, which may fail.
Launch ==
  /\ epc = "registered"
  /\ \/ /\ proc' = "running"
        /\ epc' = "launched"
        /\ UNCHANGED <<reply, upFin>>
     \/ Rejects /\ UNCHANGED proc
  /\ UNCHANGED <<mode, callerVars, hostVars, down, downFin, up, reset, lost,
                 gone, closed, readerVars, writerVars, pumpVars, child, pipeIn,
                 readIn, pipeOut, written>>

\* started: from now on closeAll finds the group; one that came too late is
\* killed here.  Then the reply, and the goroutines.
Started ==
  /\ epc = "launched"
  /\ IF closed THEN GroupEnds ELSE UNCHANGED <<proc, child>>
  /\ reply' = "ok"
  /\ gone' = (reset \/ lost)
  /\ reader' = "reading" /\ writer' = "running" /\ pump' = "running"
  /\ epc' = "select"
  /\ UNCHANGED <<mode, callerVars, hostVars, streamVars, closed, readerHeld,
                 stdinCh, chClosed, writerHeld, pipeClosed, pumpHeld,
                 pumpFailed, ptyClosed, pipeIn, readIn, pipeOut, written>>

\* The first select: the process has exited ...
ProcessDone ==
  /\ epc = "select" /\ proc = "exited"
  /\ epc' = "drain"
  /\ UNCHANGED <<mode, callerVars, hostVars, streamVars, reply, gone, closed,
                 readerVars, writerVars, pumpVars, procVars>>

\* Fault: the group is not signalled.
CallerGone_NoKill ==
  /\ epc = "select" /\ gone
  /\ epc' = "drain"
  /\ UNCHANGED <<mode, callerVars, hostVars, streamVars, reply, gone, closed,
                 readerVars, writerVars, pumpVars, procVars>>

\* ... or the caller has gone: kill, and wait for the process.
CallerGone ==
  /\ epc = "select" /\ gone
  /\ GroupEnds
  /\ epc' = "drain"
  /\ UNCHANGED <<mode, callerVars, hostVars, streamVars, reply, gone, closed,
                 readerVars, writerVars, pumpVars, pipeIn, readIn, pipeOut,
                 written>>

\* Fault: a caller that is gone does not end the rest of the group.
Drain_NoKill ==
  /\ epc = "drain" /\ (pump = "done" \/ mode = "tty")
  /\ ptyClosed' = (mode = "tty")
  /\ epc' = "pumps"
  /\ UNCHANGED <<mode, callerVars, hostVars, streamVars, reply, gone, closed,
                 readerVars, writerVars, pump, pumpHeld, pumpFailed, procVars>>

\* Fault: the exit frame waits for the stdin writer too.
Drain_WaitsForStdin ==
  /\ epc = "drain" /\ pump = "done" /\ writer = "done"
  /\ epc' = "exit"
  /\ UNCHANGED <<mode, callerVars, hostVars, streamVars, reply, gone, closed,
                 readerVars, writerVars, pumpVars, procVars>>

\* The second select.  On a PTY the output still buffered is forwarded for at
\* most a second.
Drain ==
  /\ epc = "drain"
  /\ \/ /\ mode # "tty" /\ pump = "done"
        /\ epc' = "exit"
        /\ UNCHANGED <<ptyClosed, proc, child>>
     \/ /\ mode # "tty" /\ gone
        /\ GroupEnds
        /\ epc' = "pumps"
        /\ UNCHANGED ptyClosed
     \/ /\ mode = "tty"
        /\ ptyClosed' = TRUE
        /\ epc' = "pumps"
        /\ UNCHANGED <<proc, child>>
  /\ UNCHANGED <<mode, callerVars, hostVars, streamVars, reply, gone, closed,
                 readerVars, writerVars, pump, pumpHeld, pumpFailed, pipeIn,
                 readIn, pipeOut, written>>

\* The pumps are done; what is left of a session gets a SIGHUP.
PumpsDone ==
  /\ epc = "pumps" /\ pump = "done"
  /\ epc' = "exit"
  /\ UNCHANGED <<mode, callerVars, hostVars, streamVars, reply, gone, closed,
                 readerVars, writerVars, pumpVars, procVars>>

\* The exit frame, and the deferred unregister and Close.
SendExit ==
  /\ epc = "exit"
  /\ \/ ~reset /\ ~lost /\ Len(up) < Window /\ up' = Append(up, EXIT)
     \/ (reset \/ lost) /\ UNCHANGED up
  /\ epc' = "done"
  /\ upFin' = TRUE
  /\ UNCHANGED <<mode, callerVars, hostVars, down, downFin, reset, lost, reply,
                 gone, closed, readerVars, writerVars, pumpVars, procVars>>

\* cleanup after a lost bridge: closeAll kills every group it knows of and
\* waits for their end ...
CloseAll ==
  /\ lost /\ ~closed /\ epc # "none"
  /\ closed' = TRUE
  /\ IF epc = "launched" THEN UNCHANGED <<proc, child>> ELSE GroupEnds
  /\ UNCHANGED <<mode, callerVars, hostVars, streamVars, epc, reply, gone,
                 readerVars, writerVars, pumpVars, pipeIn, readIn, pipeOut,
                 written>>

\* ... and the endpoint exits, whatever its handlers were doing.
EndpointExits ==
  /\ closed
  /\ epc' = "done" /\ upFin' = TRUE /\ gone' = TRUE
  /\ reader' = "done" /\ readerHeld' = <<>>
  /\ stdinCh' = <<>> /\ chClosed' = TRUE
  /\ writer' = "done" /\ writerHeld' = <<>> /\ pipeClosed' = TRUE
  /\ pump' = "done" /\ pumpHeld' = <<>> /\ pipeOut' = <<>> /\ ptyClosed' = TRUE
  /\ UNCHANGED <<mode, callerVars, hostVars, down, downFin, up, reset, lost,
                 reply, closed, pumpFailed, proc, child, pipeIn, readIn,
                 written>>

-----------------------------------------------------------------------------
(* The goroutine that reads frames, and stdinCh *)

\* Fault: EOF closes the process's stdin past the payloads in stdinCh.
ReaderReads_EofFirst ==
  /\ reader = "reading" /\ readerHeld = <<>> /\ down # <<>> /\ ~reset
  /\ down' = Tail(down)
  /\ readerHeld' = IF Head(down) = EOF \/ chClosed THEN <<>>
                   ELSE <<Head(down)>>
  /\ chClosed' = (chClosed \/ (Head(down) = EOF /\ mode # "tty"))
  /\ pipeClosed' = (pipeClosed \/ (Head(down) = EOF /\ mode # "tty"))
  /\ UNCHANGED <<mode, callerVars, hostVars, downFin, up, upFin, reset, lost,
                 handleVars, reader, stdinCh, writer, writerHeld, pumpVars,
                 procVars>>

ReaderReads ==
  /\ reader = "reading" /\ readerHeld = <<>> /\ down # <<>> /\ ~reset
  /\ down' = Tail(down)
  /\ readerHeld' = IF Head(down) = EOF \/ chClosed THEN <<>>
                   ELSE <<Head(down)>>
  /\ chClosed' = (chClosed \/ (Head(down) = EOF /\ mode # "tty"))
  /\ UNCHANGED <<mode, callerVars, hostVars, downFin, up, upFin, reset, lost,
                 handleVars, reader, stdinCh, writerVars, pumpVars, procVars>>

\* Fault: a queue without a limit.
ReaderQueues_Unbounded ==
  /\ readerHeld # <<>>
  /\ stdinCh' = stdinCh \o readerHeld
  /\ readerHeld' = <<>>
  /\ UNCHANGED <<mode, callerVars, hostVars, streamVars, handleVars, reader,
                 chClosed, writerVars, pumpVars, procVars>>

\* The send on stdinCh, which blocks while the channel is full.
ReaderQueues ==
  /\ readerHeld # <<>> /\ Len(stdinCh) < QueueSize
  /\ stdinCh' = stdinCh \o readerHeld
  /\ readerHeld' = <<>>
  /\ UNCHANGED <<mode, callerVars, hostVars, streamVars, handleVars, reader,
                 chClosed, writerVars, pumpVars, procVars>>

\* ReadFrame fails: markGone, and the deferred closeStdin.
ReaderEnds ==
  /\ reader = "reading" /\ readerHeld = <<>>
  /\ (down = <<>> /\ (downFin \/ lost)) \/ reset
  /\ reader' = "done"
  /\ gone' = TRUE
  /\ chClosed' = TRUE
  /\ UNCHANGED <<mode, callerVars, hostVars, streamVars, epc, reply,
                 closed, readerHeld, stdinCh, writerVars, pumpVars, procVars>>

-----------------------------------------------------------------------------
(* The stdin writer *)

\* The process has passed its stdin on to its descendants.
StdinHeld == proc = "running" \/ child \in {"group", "daemon"}

WriterTakes ==
  /\ writer \in {"running", "draining"} /\ writerHeld = <<>> /\ stdinCh # <<>>
  /\ writerHeld' = IF writer = "running" THEN <<Head(stdinCh)>> ELSE <<>>
  /\ stdinCh' = Tail(stdinCh)
  /\ UNCHANGED <<mode, callerVars, hostVars, streamVars, handleVars, reader,
                 readerHeld, chClosed, writer, pipeClosed, pumpVars, procVars>>

\* A payload for whoever holds the process's stdin; it blocks while the pipe is
\* full, and fails when nobody holds it or the PTY is closed.
WriterWrites ==
  /\ writerHeld # <<>>
  /\ \/ /\ StdinHeld /\ Len(pipeIn) < PipeSize
        /\ pipeIn' = pipeIn \o writerHeld
        /\ UNCHANGED writer
     \/ /\ IF mode = "tty" THEN proc # "running" \/ ptyClosed ELSE ~StdinHeld
        /\ writer' = "draining"
        /\ UNCHANGED pipeIn
  /\ writerHeld' = <<>>
  /\ UNCHANGED <<mode, callerVars, hostVars, streamVars, handleVars,
                 readerVars, pipeClosed, pumpVars, proc, child, readIn,
                 pipeOut, written>>

\* stdinCh is closed and empty: close the process's stdin (not a PTY).
WriterEnds ==
  /\ writer \in {"running", "draining"} /\ writerHeld = <<>>
  /\ stdinCh = <<>> /\ readerHeld = <<>> /\ chClosed
  /\ writer' = "done"
  /\ pipeClosed' = (mode # "tty")
  /\ UNCHANGED <<mode, callerVars, hostVars, streamVars, handleVars,
                 readerVars, writerHeld, pumpVars, procVars>>

-----------------------------------------------------------------------------
(* The output pump *)

PumpReads ==
  /\ pump = "running" /\ pumpHeld = <<>> /\ pipeOut # <<>> /\ ~ptyClosed
  /\ pumpHeld' = IF pumpFailed THEN <<>> ELSE <<Head(pipeOut)>>
  /\ pipeOut' = Tail(pipeOut)
  /\ UNCHANGED <<mode, callerVars, hostVars, streamVars, handleVars,
                 readerVars, writerVars, pump, pumpFailed, ptyClosed, proc,
                 child, pipeIn, readIn, written>>

\* A write that fails marks the caller gone, and the pump goes on draining.
PumpWrites ==
  /\ pumpHeld # <<>>
  /\ \/ /\ ~reset /\ ~lost /\ Len(up) < Window
        /\ up' = up \o pumpHeld
        /\ UNCHANGED <<pumpFailed, gone>>
     \/ /\ reset \/ lost
        /\ pumpFailed' = TRUE /\ gone' = TRUE
        /\ UNCHANGED up
  /\ pumpHeld' = <<>>
  /\ UNCHANGED <<mode, callerVars, hostVars, down, downFin, upFin, reset, lost,
                 epc, reply, closed, readerVars, writerVars, pump, ptyClosed,
                 procVars>>

\* Nobody holds the process's output any more, or the PTY is closed.
PumpEnds ==
  /\ pump = "running" /\ pumpHeld = <<>>
  /\ \/ pipeOut = <<>> /\ proc = "exited" /\ child \notin {"group", "daemon"}
     \/ ptyClosed
  /\ pump' = "done"
  /\ pipeOut' = <<>>
  /\ UNCHANGED <<mode, callerVars, hostVars, streamVars, handleVars,
                 readerVars, writerVars, pumpHeld, pumpFailed, ptyClosed, proc,
                 child, pipeIn, readIn, written>>

-----------------------------------------------------------------------------
(* The process: it reads, writes, forks and exits as it likes *)

ProcReads ==
  /\ StdinHeld /\ pipeIn # <<>>
  /\ readIn' = Append(readIn, Head(pipeIn))
  /\ pipeIn' = Tail(pipeIn)
  /\ UNCHANGED <<mode, callerVars, hostVars, streamVars, handleVars,
                 readerVars, writerVars, pumpVars, proc, child, pipeOut,
                 written>>

ProcWrites ==
  /\ proc = "running" \/ child \in {"group", "daemon"}
  /\ pump # "done" /\ ~ptyClosed
  /\ Len(pipeOut) < PipeSize
  /\ written < MaxOut /\ sent + written < MaxLoad
  /\ written' = written + 1
  /\ pipeOut' = Append(pipeOut, written + 1)
  /\ UNCHANGED <<mode, callerVars, hostVars, streamVars, handleVars,
                 readerVars, writerVars, pumpVars, proc, child, pipeIn,
                 readIn>>

\* A descendant that holds the output, in the group or (a daemon) outside it.
ProcForks ==
  /\ proc = "running" /\ child = "none"
  /\ child' \in Children
  /\ UNCHANGED <<mode, callerVars, hostVars, streamVars, handleVars,
                 readerVars, writerVars, pumpVars, proc, pipeIn, readIn,
                 pipeOut, written>>

ProcExits ==
  /\ proc = "running"
  /\ proc' = "exited"
  /\ UNCHANGED <<mode, callerVars, hostVars, streamVars, handleVars,
                 readerVars, writerVars, pumpVars, child, pipeIn, readIn,
                 pipeOut, written>>

ChildEnds ==
  /\ child \in {"group", "daemon"}
  /\ child' = "dead"
  /\ UNCHANGED <<mode, callerVars, hostVars, streamVars, handleVars,
                 readerVars, writerVars, pumpVars, proc, pipeIn, readIn,
                 pipeOut, written>>

-----------------------------------------------------------------------------
Caller == Send \/ SendEof \/ Leave
Hin    == HinReads \/ HinWrites \/ HinEnds \/ HinHangup
Hout   == SendRequest \/ ReceiveReply \/ HoutReads \/ HoutWrites \/ HoutEnds
Handle == \/ Register \/ Launch \/ Started \/ ProcessDone \/ CallerGone
          \/ Drain \/ PumpsDone \/ SendExit
Reader == ReaderReads \/ ReaderQueues \/ ReaderEnds
Writer == WriterTakes \/ WriterWrites \/ WriterEnds
Pump   == PumpReads \/ PumpWrites \/ PumpEnds
Process == ProcReads \/ ProcWrites \/ ProcForks \/ ProcExits \/ ChildEnds

Next ==
  \/ Caller \/ GiveUp \/ CloseExecs \/ Hin \/ Hout
  \/ StreamTimeout \/ BridgeLost \/ CloseAll \/ EndpointExits
  \/ Handle \/ Reader \/ Writer \/ Pump \/ Process

Spec == Init /\ [][Next]_vars

\* The goroutines of both sides, yamux's timer, a shutdown that has begun to end
\* the exec, and a caller that takes its output while it is there.
System ==
  \/ Hin \/ Hout \/ GiveUp \/ (client = "cut" /\ CloseExecs)
  \/ StreamTimeout \/ CloseAll \/ EndpointExits
  \/ Handle \/ Reader \/ Writer \/ Pump

\* All of them run.  What they have to do is finite, so that it is enough that
\* one of them takes a step when one can.  Nothing is assumed of the process.
FairSpec == Spec /\ WF_vars(System)

-----------------------------------------------------------------------------
(* Properties *)

Upto(n) == [i \in 1..n |-> i]

\* The process reads what the caller sent, in order, and while the caller is
\* there it sees an end of input only after the caller's, with everything
\* before it delivered.
StdinIsFaithful ==
  /\ readIn = Upto(Len(readIn))
  /\ proc = "running" /\ pipeClosed /\ client = "there" /\ ~gone =>
       ended /\ readIn \o pipeIn = Upto(sent)

\* The caller gets the output in order and at most one exit frame, the last
\* frame of all; the status of a process that is not on a PTY comes after the
\* whole output; and a caller that stays gets one, also when the bridge is lost,
\* unless the instance shuts down and closes the caller's connection.
ExitIsLast ==
  /\ \A i \in 1..Len(got) : got[i] \in {EXIT, LOST} => i = Len(got)
  /\ \A i \in 1..Len(got) : got[i] \in 1..MaxOut => got[i] = i
  /\ mode = "framed" /\ got # <<>> /\ got[Len(got)] = EXIT =>
       Len(got) = written + 1
  /\ mode # "raw" /\ hpc = "done" /\ client = "there" =>
       got # <<>> /\ got[Len(got)] \in {EXIT, LOST}

\* The endpoint has exited before it had recorded the process it had started.
Orphaned ==
  /\ closed /\ epc = "done" /\ reply = "none"
  /\ proc = "running" \/ child = "group"

\* The exec is over for its caller: it has disconnected, the instance has closed
\* its connection, or the handler has returned.
Over == client # "there" \/ hpc \in {"done", "refused"}

\* The process group ends once the exec is over for its caller, whatever was
\* under way in each hop.  (A session member that ignores SIGHUP may outlive a
\* process on a PTY that had exited already.)
DisconnectKills ==
  Over ~>
    \/ proc # "running" /\ (child = "group" => mode = "tty")
    \/ Orphaned

\* An exec that is over for its caller frees its place among the execs, unless a
\* descendant outside the group holds the output.
SlotIsFreed ==
  (Over /\ epc # "none") ~> (epc = "done" \/ child = "daemon")

\* The end of a process ends its exec at the caller's, once no descendant holds
\* the output.
ExitReachesCaller ==
  (proc = "exited" /\ child \notin {"group", "daemon"}) ~>
    (hpc \in {"done", "refused"})
=============================================================================
