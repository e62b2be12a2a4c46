------------------------------- MODULE EventLog -------------------------------
(***************************************************************************)
(* The event log behind GET /api/v1/events and its SSE stream: a ring of   *)
(* the last Capacity events and one queue per open stream.  emit appends   *)
(* and fans out in one hold of the lock; subscribe registers its queue and *)
(* copies the backlog in another.  Events are numbered in emission order.  *)
(*                                                                         *)
(* A stream's client may vanish at any time; the server thread learns of   *)
(* it only when a write fails.                                             *)
(***************************************************************************)
EXTENDS Naturals, Sequences

CONSTANTS
  Streams,    \* handler threads that serve SSE clients
  Capacity,   \* events the ring keeps (200)
  MaxEvents   \* bound on emitted events

ASSUME CapacityAssumption == Capacity \in Nat \ {0} /\ MaxEvents \in Nat

VARIABLES
  emitted,    \* number of events emitted so far
  entries,    \* _entries, oldest first
  registered, \* streams whose queue is in _subscribers
  queue,      \* per stream: its subscriber queue
  backlog,    \* per stream: what is left of its copy of the log
  open,       \* per stream: its client still reads
  received,   \* per stream: what its client has read
  status      \* per stream: "new", "streaming" or "closed"

logVars == <<emitted, entries, registered, queue, backlog, open, received, status>>

Events == 1..MaxEvents

LogTypeOK ==
  /\ emitted \in 0..MaxEvents
  /\ entries \in Seq(Events) /\ Len(entries) <= Capacity
  /\ registered \subseteq Streams
  /\ queue \in [Streams -> Seq(Events)]
  /\ backlog \in [Streams -> Seq(Events)]
  /\ open \in [Streams -> BOOLEAN]
  /\ received \in [Streams -> Seq(Events)]
  /\ status \in [Streams -> {"new", "streaming", "closed"}]
  /\ registered = {s \in Streams : status[s] = "streaming"}

LogInit ==
  /\ emitted = 0
  /\ entries = <<>>
  /\ registered = {}
  /\ queue = [s \in Streams |-> <<>>]
  /\ backlog = [s \in Streams |-> <<>>]
  /\ open = [s \in Streams |-> FALSE]
  /\ received = [s \in Streams |-> <<>>]
  /\ status = [s \in Streams |-> "new"]

\* Fault: the ring never drops an event.
RememberAll(e) == Append(entries, e)

\* deque(maxlen=capacity).append
Remember(e) ==
  Append(IF Len(entries) = Capacity THEN Tail(entries) ELSE entries, e)

\* Fault: an event reaches the ring and, outside the lock, only some queues.
EmitToSome ==
  /\ emitted < MaxEvents
  /\ emitted' = emitted + 1
  /\ entries' = Remember(emitted + 1)
  /\ \E S \in SUBSET registered :
       queue' = [s \in Streams |->
                   IF s \in S THEN Append(queue[s], emitted + 1) ELSE queue[s]]
  /\ UNCHANGED <<registered, backlog, open, received, status>>

\* Any handler or timer thread records something that happened.
Emit ==
  /\ emitted < MaxEvents
  /\ emitted' = emitted + 1
  /\ entries' = Remember(emitted + 1)
  /\ queue' = [s \in Streams |->
                 IF s \in registered THEN Append(queue[s], emitted + 1) ELSE queue[s]]
  /\ UNCHANGED <<registered, backlog, open, received, status>>

Subscribe(s) ==
  /\ status[s] = "new"
  /\ registered' = registered \cup {s}
  /\ backlog' = [backlog EXCEPT ![s] = entries]
  /\ open' = [open EXCEPT ![s] = TRUE]
  /\ status' = [status EXCEPT ![s] = "streaming"]
  /\ UNCHANGED <<emitted, entries, queue, received>>

\* A write to a client that is gone raises; the generator's finally clause
\* takes the queue out of _subscribers.  Queue and copy die with the thread.
Unsubscribe(s) ==
  /\ registered' = registered \ {s}
  /\ queue' = [queue EXCEPT ![s] = <<>>]
  /\ backlog' = [backlog EXCEPT ![s] = <<>>]
  /\ status' = [status EXCEPT ![s] = "closed"]

\* Fault: the queue is served before the backlog.
SendQueuedFirst(s) ==
  /\ status[s] = "streaming" /\ open[s]
  /\ queue[s] # <<>>
  /\ received' = [received EXCEPT ![s] = Append(@, Head(queue[s]))]
  /\ queue' = [queue EXCEPT ![s] = Tail(@)]
  /\ UNCHANGED <<emitted, entries, registered, backlog, open, status>>

SendBacklog(s) ==
  /\ status[s] = "streaming"
  /\ backlog[s] # <<>>
  /\ \/ /\ open[s]
        /\ received' = [received EXCEPT ![s] = Append(@, Head(backlog[s]))]
        /\ backlog' = [backlog EXCEPT ![s] = Tail(@)]
        /\ UNCHANGED <<registered, queue, status>>
     \/ ~open[s] /\ Unsubscribe(s) /\ UNCHANGED received
  /\ UNCHANGED <<emitted, entries, open>>

SendQueued(s) ==
  /\ status[s] = "streaming"
  /\ backlog[s] = <<>> /\ queue[s] # <<>>
  /\ \/ /\ open[s]
        /\ received' = [received EXCEPT ![s] = Append(@, Head(queue[s]))]
        /\ queue' = [queue EXCEPT ![s] = Tail(@)]
        /\ UNCHANGED <<registered, backlog, status>>
     \/ ~open[s] /\ Unsubscribe(s) /\ UNCHANGED received
  /\ UNCHANGED <<emitted, entries, open>>

\* Fault: an empty queue blocks the thread until the next event.
NoHeartbeat(s) ==
  /\ status[s] = "streaming"
  /\ backlog[s] = <<>> /\ queue[s] # <<>>
  /\ ~open[s] /\ Unsubscribe(s)
  /\ UNCHANGED <<emitted, entries, open, received>>

\* Nothing to send for heartbeat_seconds: write a heartbeat.  The client
\* ignores it; the server finds out whether the client is still there.
SendHeartbeat(s) ==
  /\ status[s] = "streaming"
  /\ backlog[s] = <<>> /\ queue[s] = <<>>
  /\ ~open[s] /\ Unsubscribe(s)
  /\ UNCHANGED <<emitted, entries, open, received>>

\* The client closes the connection or loses it.
Leave(s) ==
  /\ open[s]
  /\ open' = [open EXCEPT ![s] = FALSE]
  /\ UNCHANGED <<emitted, entries, registered, queue, backlog, received, status>>

Serve(s) == SendBacklog(s) \/ SendQueued(s) \/ SendHeartbeat(s)

LogNext == Emit \/ \E s \in Streams : Subscribe(s) \/ Serve(s) \/ Leave(s)

\* The threads of the server run; nobody has to emit, connect or leave.
LogSpec == LogInit /\ [][LogNext]_logVars /\ \A s \in Streams : WF_logVars(Serve(s))
-----------------------------------------------------------------------------
\* The events from `first` on, in emission order and without a gap.
Run(first, n) == [i \in 1..n |-> first + i - 1]

Pending(s) == received[s] \o backlog[s] \o queue[s]

\* What a client reads is a gapless, duplicate-free run of the log in emission
\* order, and what is still to be sent to it continues that run up to the
\* newest event -- whatever was emitted between its registration, the copy of
\* the backlog and the first write.
StreamsAreGapless ==
  \A s \in Streams :
    LET all == Pending(s)
    IN  /\ all # <<>> => all = Run(all[1], Len(all))
        /\ status[s] = "streaming" /\ all # <<>> => all[Len(all)] = emitted
        /\ status[s] = "streaming" /\ all = <<>> => emitted = 0

\* A client that keeps reading gets every event emitted after it subscribed.
EventsArrive ==
  \A s \in Streams, e \in Events :
    (s \in registered /\ emitted = e)
      ~> (~open[s] \/ \E i \in 1..Len(received[s]) : received[s][i] = e)

\* A stream whose client is gone is taken out of the subscribers, even if
\* nothing is emitted any more: its queue does not grow for ever.
DeadStreamsLeave ==
  \A s \in Streams : (s \in registered /\ ~open[s]) ~> (s \notin registered)
=============================================================================
