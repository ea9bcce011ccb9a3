------------------------------ MODULE EventBus ------------------------------
(***************************************************************************)
(* The instance's event stream: EventBus (internal/host/events.go) and     *)
(* handleEvents (internal/host/execserver.go), which serves one            *)
(* subscription to one client of op "events".                              *)
(*                                                                         *)
(* An event is the number of its publication with its type; what it says   *)
(* is left out.  offer runs with the bus locked while the handler receives *)
(* without the lock: a receive between offer's two sends leaves the same   *)
(* queue as one before them, so Publish is one step.                        *)
(***************************************************************************)
EXTENDS Naturals, Sequences

CONSTANTS
  Subs,         \* subscriptions
  QueueSize,    \* EventBus.queue (256 in the code)
  HistorySize,  \* log events kept for new subscribers (500 in the code)
  MaxEvents     \* bound: published events

ASSUME EventBusAssumption ==
  QueueSize \in Nat \ {0} /\ HistorySize \in Nat \ {0} /\ MaxEvents \in Nat

Types == {"state", "ports", "log", "other"}

VARIABLES
  published,   \* the types of all events so far; the event's number is its index
  \* the bus: newest state and ports event (0 is nil), the ring of log events
  busState, busPorts, history, next, full, closed, subs,
  \* the subscriptions: channel, its capacity, closed, dropped, Snapshot
  ch, cap, chClosed, dropped, snapshot,
  \* the handlers, what the client asked for, and what it was sent
  handler, follow, since, got

busVars == <<busState, busPorts, history, next, full, closed, subs>>
subVars == <<ch, cap, chClosed, dropped, snapshot>>
handlerVars == <<handler, follow, since, got>>
vars == <<published, busVars, subVars, handlerVars>>

Numbers == 1..MaxEvents

\* What travels in a channel: events and drop markers.
Ev(n, type) == [type |-> type, n |-> n]
Dropped(count) == [type |-> "dropped", n |-> count]
Items == [type : Types \cup {"dropped"}, n : Numbers]

TypeOK ==
  /\ published \in Seq(Types) /\ Len(published) <= MaxEvents
  /\ busState \in 0..MaxEvents /\ busPorts \in 0..MaxEvents
  /\ history \in [0..(HistorySize - 1) -> 0..MaxEvents]
  /\ next \in 0..(HistorySize - 1) /\ full \in BOOLEAN /\ closed \in BOOLEAN
  /\ subs \subseteq Subs
  /\ \A s \in Subs : ch[s] \in Seq(Items) /\ Len(ch[s]) <= cap[s]
  /\ cap \in [Subs -> Nat] /\ chClosed \in [Subs -> BOOLEAN]
  /\ dropped \in [Subs -> 0..MaxEvents] /\ snapshot \in [Subs -> Nat]
  /\ handler \in [Subs -> {"none", "streaming", "ended", "left"}]
  /\ follow \in [Subs -> BOOLEAN] /\ since \in [Subs -> 0..MaxEvents]
  /\ \A s \in Subs : got[s] \in Seq(Items)

Init ==
  /\ published = <<>>
  /\ busState = 0 /\ busPorts = 0
  /\ history = [i \in 0..(HistorySize - 1) |-> 0] /\ next = 0 /\ full = FALSE
  /\ closed = FALSE /\ subs = {}
  /\ ch = [s \in Subs |-> <<>>] /\ cap = [s \in Subs |-> 0]
  /\ chClosed = [s \in Subs |-> FALSE] /\ dropped = [s \in Subs |-> 0]
  /\ snapshot = [s \in Subs |-> 0]
  /\ handler = [s \in Subs |-> "none"] /\ follow = [s \in Subs |-> FALSE]
  /\ since = [s \in Subs |-> 0] /\ got = [s \in Subs |-> <<>>]

-----------------------------------------------------------------------------
(* Publishing *)

\* Fault: the events lost since the marker was built are not counted.
Offer_Forgets(s, e) ==
  LET marked == IF dropped[s] > 0 THEN Append(ch[s], Dropped(dropped[s])) ELSE ch[s]
  IN  IF Len(marked) < cap[s] THEN [ch |-> Append(marked, e), dropped |-> 0]
      ELSE IF Len(ch[s]) < cap[s] THEN [ch |-> marked, dropped |-> 0]
      ELSE [ch |-> ch[s], dropped |-> dropped[s] + 1]

\* Fault: a subscriber's queue has no bound.
Offer_Unbounded(s, e) == [ch |-> Append(ch[s], e), dropped |-> 0]

\* offer: the marker for what was lost goes first and needs room of its own.
Offer(s, e) ==
  LET marked == IF dropped[s] > 0 THEN Append(ch[s], Dropped(dropped[s])) ELSE ch[s]
  IN  IF Len(ch[s]) >= cap[s] THEN [ch |-> ch[s], dropped |-> dropped[s] + 1]
      ELSE IF Len(marked) >= cap[s] THEN [ch |-> marked, dropped |-> 1]
      ELSE [ch |-> Append(marked, e), dropped |-> 0]


\* Publish on a log event: the ring buffer.
RemembersLog(n) ==
  /\ history' = [history EXCEPT ![next] = n]
  /\ next' = (next + 1) % HistorySize
  /\ full' = (full \/ next' = 0)

\* Publish: the snapshot first, then every subscriber.
Publish(type) ==
  LET n == Len(published) + 1
  IN  /\ n \in Numbers
      /\ published' = Append(published, type)
      /\ busState' = IF type = "state" THEN n ELSE busState
      /\ busPorts' = IF type = "ports" THEN n ELSE busPorts
      /\ IF type = "log" THEN RemembersLog(n) ELSE UNCHANGED <<history, next, full>>
      /\ ch' = [s \in Subs |-> IF s \in subs THEN Offer(s, Ev(n, type)).ch ELSE ch[s]]
      /\ dropped' = [s \in Subs |->
                      IF s \in subs THEN Offer(s, Ev(n, type)).dropped ELSE dropped[s]]
      /\ UNCHANGED <<closed, subs, cap, chClosed, snapshot, handlerVars>>

-----------------------------------------------------------------------------
(* Subscribing *)

\* Fault: the start is not moved back around the ring.
Recent_NoWrap(n) ==
  LET count == IF full THEN HistorySize ELSE next
      m     == IF n > count THEN count ELSE n
  IN  [i \in 1..m |-> history[(i - 1) % HistorySize]]

\* recentLocked: the last n log events, oldest first.
Recent(n) ==
  LET count == IF full THEN HistorySize ELSE next
      m     == IF n > count THEN count ELSE n
      start == (next + HistorySize - m) % HistorySize
  IN  [i \in 1..m |-> history[(start + i - 1) % HistorySize]]

\* The snapshot of Subscribe: state, ports, log events.
Snapshot(n) ==
  (IF busState = 0 THEN <<>> ELSE <<Ev(busState, "state")>>)
    \o (IF busPorts = 0 THEN <<>> ELSE <<Ev(busPorts, "ports")>>)
    \o [i \in 1..Len(Recent(n)) |-> Ev(Recent(n)[i], "log")]

\* Fault: a late subscription is left open.
Subscribe_Open(s, n, f) ==
  /\ handler[s] = "none"
  /\ ch' = [ch EXCEPT ![s] = Snapshot(n)]
  /\ cap' = [cap EXCEPT ![s] = QueueSize + Len(Snapshot(n))]
  /\ snapshot' = [snapshot EXCEPT ![s] = Len(Snapshot(n))]
  /\ chClosed' = [chClosed EXCEPT ![s] = FALSE]
  /\ subs' = IF closed THEN subs ELSE subs \cup {s}
  /\ handler' = [handler EXCEPT ![s] = "streaming"]
  /\ follow' = [follow EXCEPT ![s] = f]
  /\ since' = [since EXCEPT ![s] = Len(published)]
  /\ UNCHANGED <<published, busState, busPorts, history, next, full,
                 closed, dropped, got>>

\* handleEvents subscribes with the history the client asked for; a closed bus
\* still gives the snapshot.
Subscribe(s, n, f) ==
  /\ handler[s] = "none"
  /\ ch' = [ch EXCEPT ![s] = Snapshot(n)]
  /\ cap' = [cap EXCEPT ![s] = QueueSize + Len(Snapshot(n))]
  /\ snapshot' = [snapshot EXCEPT ![s] = Len(Snapshot(n))]
  /\ chClosed' = [chClosed EXCEPT ![s] = closed]
  /\ subs' = IF closed THEN subs ELSE subs \cup {s}
  /\ handler' = [handler EXCEPT ![s] = "streaming"]
  /\ follow' = [follow EXCEPT ![s] = f]
  /\ since' = [since EXCEPT ![s] = Len(published)]
  /\ UNCHANGED <<published, busState, busPorts, history, next, full,
                 closed, dropped, got>>

\* Subscription.Close.
Unsubscribes(s) ==
  /\ chClosed' = [chClosed EXCEPT ![s] = TRUE]
  /\ subs' = subs \ {s}

\* EventBus.Close.
CloseBus ==
  /\ ~closed
  /\ closed' = TRUE
  /\ chClosed' = [s \in Subs |-> s \in subs \/ chClosed[s]]
  /\ subs' = {}
  /\ UNCHANGED <<published, busState, busPorts, history, next, full, ch, cap,
                 dropped, snapshot, handlerVars>>

-----------------------------------------------------------------------------
(* handleEvents *)

\* The handler writes the next queued event; without follow only the snapshot.
Receive(s) ==
  /\ handler[s] = "streaming" /\ ch[s] # <<>>
  /\ follow[s] \/ Len(got[s]) < snapshot[s]
  /\ got' = [got EXCEPT ![s] = Append(@, Head(ch[s]))]
  /\ ch' = [ch EXCEPT ![s] = Tail(@)]
  /\ UNCHANGED <<published, busVars, cap, chClosed, dropped, snapshot,
                 handler, follow, since>>

\* The range loop ends with the closed channel; without follow the loop over
\* the snapshot ends.
EndStream(s) ==
  /\ handler[s] = "streaming"
  /\ IF follow[s] THEN chClosed[s] /\ ch[s] = <<>> ELSE Len(got[s]) = snapshot[s]
  /\ handler' = [handler EXCEPT ![s] = "ended"]
  /\ Unsubscribes(s)
  /\ UNCHANGED <<published, busState, busPorts, history, next, full,
                 closed, ch, cap, dropped, snapshot, follow, since, got>>

\* Input or EOF from the client of a following stream ends its subscription; what
\* is queued is still written.
ClientLeaves(s) ==
  /\ handler[s] = "streaming" /\ follow[s]
  /\ Unsubscribes(s)
  /\ UNCHANGED <<published, busState, busPorts, history, next, full,
                 closed, ch, cap, dropped, snapshot, handlerVars>>

\* The client is gone: a write of a following stream fails.
WriteFails(s) ==
  /\ handler[s] = "streaming" /\ follow[s]
  /\ handler' = [handler EXCEPT ![s] = "left"]
  /\ Unsubscribes(s)
  /\ UNCHANGED <<published, busState, busPorts, history, next, full,
                 closed, ch, cap, dropped, snapshot, follow, since, got>>

-----------------------------------------------------------------------------
Client(s) ==
  \/ \E n \in 0..HistorySize, f \in BOOLEAN : Subscribe(s, n, f)
  \/ Receive(s) \/ EndStream(s) \/ ClientLeaves(s) \/ WriteFails(s)

Next ==
  \/ \E type \in Types : Publish(type)
  \/ CloseBus
  \/ \E s \in Subs : Client(s)

Spec == Init /\ [][Next]_vars

\* Clients read their streams: the handler blocks only in its writes.
FairSpec == Spec /\ \A s \in Subs : WF_vars(Receive(s) \/ EndStream(s))

-----------------------------------------------------------------------------
(* Properties *)

\* What a subscription was sent or will be sent after its snapshot.
Live(s) == LET all == got[s] \o ch[s]
           IN  SubSeq(all, snapshot[s] + 1, Len(all))

\* How many published events the items of q stand for.
Weight(e) == IF e.type = "dropped" THEN e.n ELSE 1
Covered(q) ==
  LET upTo[k \in 0..Len(q)] == IF k = 0 THEN 0 ELSE upTo[k - 1] + Weight(q[k])
  IN  upTo[Len(q)]

\* The numbers of the log events among the published types.
WithLog(logs, type, n) == IF type = "log" THEN Append(logs, n) ELSE logs
LogsOf(types) ==
  LET upTo[k \in 0..Len(types)] ==
        IF k = 0 THEN <<>> ELSE WithLog(upTo[k - 1], types[k], k)
  IN  upTo[Len(types)]

\* A stream has no silent gap, no duplicate and no reordering: every event in
\* it comes exactly after the events and drop counts before it, and what is
\* missing at the end is in dropped.  No send meets a closed channel.
NoSilentGap ==
  \A s \in Subs :
    /\ \A i \in 1..Len(Live(s)) :
         Live(s)[i].type # "dropped" =>
           /\ Live(s)[i].n = since[s] + Covered(SubSeq(Live(s), 1, i))
           /\ Live(s)[i].type = published[Live(s)[i].n]
    /\ s \in subs =>
         ~chClosed[s] /\ since[s] + Covered(Live(s)) + dropped[s] = Len(published)

\* The ring buffer gives the last n log events in order, before it is full,
\* when it fills up and after it wrapped.
HistoryIsRecent ==
  LET logs == LogsOf(published)
  IN  \A n \in 0..HistorySize :
        LET m == IF n > Len(logs) THEN Len(logs) ELSE n
        IN  Recent(n) = SubSeq(logs, Len(logs) - m + 1, Len(logs))

\* Every stream that is read ends once the bus is closed or its client asks for
\* no more, those of clients that subscribe after the close included.
StreamsEnd ==
  \A s \in Subs : ((closed \/ chClosed[s]) /\ handler[s] = "streaming") ~>
                    (handler[s] \in {"ended", "left"})

=============================================================================
