----------------------------- MODULE ComputerService -----------------------------
(***************************************************************************)
(* Tool calls of the computer MCP service (service.go) and the requests    *)
(* that its Relay client (relay/client.go) makes for them: read the        *)
(* cursor, then claim the lease and post a batch of actions, again for     *)
(* each delta of a text.  Batches run in the control API, one action at a  *)
(* time, beside humans and other agents; the calls, of several MCP         *)
(* clients, share one agent id.  What happens inside one action is the     *)
(* subject of InputController.                                             *)
(***************************************************************************)
EXTENDS Lease, Pacing

CONSTANTS
  Calls,       \* tool calls, each made once
  Me,          \* RELAY_AGENT_ID
  Width,       \* display width
  Texts,       \* texts that are typed
  BatchLimit   \* actions the API takes in a batch (50)

ASSUME ServiceAssumption ==
  /\ Me \in Agents
  /\ Width \in Nat \ {0}
  /\ \A text \in Texts : text \in Seq(STRING) /\ text # <<>>
  /\ MaxMoveSteps <= MaxDragSteps
  /\ BatchLimit \in Nat /\ BatchLimit >= 2 * MaxDragSteps + 1

Positions == 0..(Width - 1)

\* What a request has in place of a coordinate that was left out.
Absent == -1

\* "click" stands for scroll, too, and "press" for whatever needs no target:
\* button, key, hold_key, wait, and a click where the pointer is.
Requests ==
  [tool : {"move", "click"}, target : Positions]
  \cup [tool : {"drag"}, start : Positions, target : Positions]
  \cup [tool : {"type"}, text : Texts]
  \cup [tool : {"press"}]

VARIABLES
  lease,       \* the API's ControlLease
  pointer,     \* the X pointer
  pc,          \* per call: the client's next step
  todo,        \* ... the batches not answered yet
  running,     \* ... actions of its batch that the API has still to do
  preempted,   \* ... a takeover or release came after that batch was admitted
  text,        \* ... history: the text it types
  typed,       \* ... history: what X got of it
  overlapped   \* ... history: another call claimed while it waited for its batch

client == <<pc, todo, text>>
server == <<running, preempted, typed>>
vars == <<lease, pointer, client, server, overlapped>>

ClickAt(x) == [kind |-> "click", at |-> x]

Text(delta) == [kind |-> "text", delta |-> delta]

\* The batches of a text, given the pointer position it has read.  A move
\* to where the pointer is sends none.
Batches(r, position) ==
  LET path == PacedMove(position, r.target, MaxMoveSteps)
      deltas == SplitTextDeltas(r.text)
  IN  CASE r.tool = "move"  -> IF path = <<>> THEN <<>> ELSE <<path>>
        [] r.tool = "click" -> <<path \o <<ClickAt(r.target), Do("wait")>>>>
        [] r.tool = "drag"  -> <<SmoothDrag(position, r.start, r.target)>>
        [] r.tool = "type"  -> [i \in DOMAIN deltas |-> <<Text(deltas[i])>>]
        [] OTHER            -> <<<<Do("press")>>>>

Answered == {"ok", "failed"}

TypeOK ==
  /\ lease \in Leases
  /\ pointer \in Positions
  /\ pc \in [Calls -> {"new", "claim", "post", "wait"} \cup Answered]
  /\ \A c \in Calls :
       /\ text[c] \in Texts \cup {<<>>}
       /\ todo[c] # <<>> <=> pc[c] \in {"claim", "post", "wait"}
       /\ \A i \in DOMAIN todo[c] : \A j \in DOMAIN todo[c][i] :
            todo[c][i][j].kind = "move" => todo[c][i][j].at \in Positions
       /\ running[c] # <<>> => pc[c] \in {"wait", "failed"}
       /\ overlapped[c] => pc[c] \in {"claim", "post", "wait"}
       /\ preempted[c] => running[c] # <<>>

Init ==
  /\ lease = NoLease
  /\ pointer = 0
  /\ pc = [c \in Calls |-> "new"]
  /\ todo = [c \in Calls |-> <<>>]
  /\ running = [c \in Calls |-> <<>>]
  /\ preempted = [c \in Calls |-> FALSE]
  /\ text = [c \in Calls |-> <<>>]
  /\ typed = [c \in Calls |-> <<>>]
  /\ overlapped = [c \in Calls |-> FALSE]

Goto(c, step) == pc' = [pc EXCEPT ![c] = step]

Answer(c, what) ==
  /\ Goto(c, what)
  /\ todo' = [todo EXCEPT ![c] = <<>>]
  /\ overlapped' = [overlapped EXCEPT ![c] = FALSE]
-----------------------------------------------------------------------------
(* The service and its client.                                             *)

\* Execute: a request that passed validation; for a target, GET /cursor and the
\* path from there.
Execute(c, r) ==
  /\ pc[c] = "new"
  /\ text' = IF r.tool = "type" THEN [text EXCEPT ![c] = r.text] ELSE text
  /\ LET batches == Batches(r, pointer)
     IN  IF batches = <<>>
           THEN Answer(c, "ok")
           ELSE /\ todo' = [todo EXCEPT ![c] = batches]
                /\ Goto(c, "claim")
                /\ UNCHANGED overlapped
  /\ UNCHANGED <<lease, pointer, server>>

\* From now on the batches of c and of these calls are in each other's way.
Overlap(c) ==
  LET others == {x \in Calls \ {c} : running[x] # <<>>}
  IN  overlapped' = [x \in Calls |->
        overlapped[x] \/ (x \in others /\ pc[x] = "wait") \/ (x = c /\ others # {})]

\* Apply, first request: POST /control/agent/claim.
Claim(c) ==
  /\ pc[c] = "claim"
  /\ IF MayClaim(lease, Me)
       THEN /\ lease' = Grant(Me)
            /\ Goto(c, "post") /\ Overlap(c)
            /\ UNCHANGED todo
       ELSE /\ lease' = Expire(lease)
            /\ Answer(c, "failed")
  /\ UNCHANGED <<pointer, text, server>>

\* What json.Marshal makes of Action.X and Action.Y: zero is left out (omitempty).
\* The other axis, which the model leaves out, has the same field.
Marshalled(x) == IF x = 0 THEN Absent ELSE x

\* _validate_batch and _coordinates
Accepts(batch) ==
  /\ Len(batch) \in 1..BatchLimit
  /\ \A i \in DOMAIN batch :
       batch[i].kind = "move" => Marshalled(batch[i].at) \in Positions

\* Apply, second request: POST /input.
Post(c) ==
  /\ pc[c] = "post"
  /\ lease' = Expire(lease)
  /\ IF Holds(lease, Me) /\ Accepts(Head(todo[c]))
       THEN /\ running' = [running EXCEPT ![c] = Head(todo[c])]
            /\ Goto(c, "wait") /\ Overlap(c)
            /\ UNCHANGED todo
       ELSE /\ Answer(c, "failed")
            /\ UNCHANGED running
  /\ UNCHANGED <<pointer, text, preempted, typed>>

\* 204: the next delta, or the tool's result.
Accepted(c) ==
  /\ pc[c] = "wait" /\ running[c] = <<>>
  /\ IF Len(todo[c]) = 1
       THEN Answer(c, "ok")
       ELSE /\ todo' = [todo EXCEPT ![c] = Tail(@)]
            /\ Goto(c, "claim")
            /\ UNCHANGED overlapped
  /\ UNCHANGED <<lease, pointer, text, server>>

\* preempt: batches under way do no further action.
Preempt == preempted' = [c \in Calls |-> running[c] # <<>>]

\* Execute, release_control; its answer may come too late.
ReleaseControl(c) ==
  /\ pc[c] = "new"
  /\ IF Holds(lease, Me)
       THEN lease' = NoLease /\ Preempt /\ \E what \in Answered : Answer(c, what)
       ELSE lease' = Expire(lease) /\ UNCHANGED preempted /\ Answer(c, "failed")
  /\ UNCHANGED <<pointer, text, running, typed>>

\* The context is cancelled, or the HTTP client's 45 s are over, and the request
\* that is out gets lost.  A batch that the API has admitted goes on.
Cancel(c) ==
  /\ pc[c] \notin {"new"} \cup Answered
  /\ Answer(c, "failed")
  /\ UNCHANGED <<lease, pointer, text, server>>

\* ... or the API still carries it out.  (Nothing looks at a call that has failed,
\* so it may fail as late as that.)
ServeLate(c) ==
  /\ \/ /\ pc[c] = "claim" /\ MayClaim(lease, Me)
        /\ lease' = Grant(Me)
        /\ UNCHANGED running
     \/ /\ pc[c] = "post" /\ Holds(lease, Me) /\ Accepts(Head(todo[c]))
        /\ lease' = Expire(lease)
        /\ running' = [running EXCEPT ![c] = Head(todo[c])]
  /\ Goto(c, "failed")
  /\ todo' = [todo EXCEPT ![c] = <<>>]
  /\ overlapped' = [x \in Calls |->
       x # c /\ (overlapped[x] \/ (running[x] # <<>> /\ pc[x] = "wait"))]
  /\ UNCHANGED <<pointer, text, preempted, typed>>
-----------------------------------------------------------------------------
(* The control API.                                                        *)

\* Where an action leaves the pointer, and the words that X gets of it.
Arrived(a, at) == IF a.kind = "move" THEN a.at ELSE at

Words(a) == IF a.kind = "text" THEN a.delta ELSE <<>>

\* InputController.apply, one action: renew, look for a preemption, do it.
Act(c) ==
  /\ running[c] # <<>>
  /\ MayExtend(lease, Me) /\ ~preempted[c]
  /\ lease' = Renew(lease)
  /\ pointer' = Arrived(Head(running[c]), pointer)
  /\ typed' = [typed EXCEPT ![c] = @ \o Words(Head(running[c]))]
  /\ running' = [running EXCEPT ![c] = Tail(@)]
  /\ UNCHANGED <<client, preempted, overlapped>>

\* What xdotool has done of an action when it fails or is killed.
DoneInPart(c) ==
  LET a == Head(running[c])
  IN  /\ pointer' \in {pointer, Arrived(a, pointer)}
      /\ \E n \in 0..Len(Words(a)) :
           typed' = [typed EXCEPT ![c] = @ \o SubSeq(Words(a), 1, n)]

\* Fault: the error of a delta is dropped.
RejectGoesOn(c) ==
  /\ running[c] # <<>>
  /\ DoneInPart(c)
  /\ lease' = IF MayExtend(lease, Me) THEN Renew(lease) ELSE Expire(lease)
  /\ running' = [running EXCEPT ![c] = <<>>]
  /\ preempted' = [preempted EXCEPT ![c] = FALSE]
  /\ UNCHANGED <<client, overlapped>>

\* 409, or 500 because xdotool failed: the batch ends here.
Reject(c) ==
  /\ running[c] # <<>>
  /\ DoneInPart(c)
  /\ lease' = IF MayExtend(lease, Me) THEN Renew(lease) ELSE Expire(lease)
  /\ running' = [running EXCEPT ![c] = <<>>]
  /\ preempted' = [preempted EXCEPT ![c] = FALSE]
  /\ IF pc[c] = "wait" THEN Answer(c, "failed") ELSE UNCHANGED <<pc, todo, overlapped>>
  /\ UNCHANGED text

\* POST /control/human/claim
HumanClaims(h) ==
  /\ lease' = Grant(h)
  /\ Preempt
  /\ UNCHANGED <<pointer, client, running, typed, overlapped>>

\* POST /control/human/release
HumanReleases(h) ==
  /\ Holds(lease, h)
  /\ lease' = NoLease
  /\ UNCHANGED <<pointer, client, server, overlapped>>

\* Another agent takes a desktop that nobody controls.
OtherClaims(a) ==
  /\ MayClaim(lease, a)
  /\ lease' = Grant(a)
  /\ UNCHANGED <<pointer, client, server, overlapped>>

\* Whoever else is in control moves the pointer.
OtherMoves(x) ==
  /\ Controller(lease) \notin {Me, NoId}
  /\ pointer' = x
  /\ UNCHANGED <<lease, client, server, overlapped>>

\* Time passes, or a status poll looks at the lease.
Time ==
  /\ lease' \in {LeaseTick(lease), Expire(lease)}
  /\ UNCHANGED <<pointer, client, server, overlapped>>
-----------------------------------------------------------------------------
Next ==
  \/ \E c \in Calls :
       \/ \E r \in Requests : Execute(c, r)
       \/ ReleaseControl(c)
       \/ Claim(c) \/ Post(c) \/ Accepted(c) \/ Cancel(c) \/ ServeLate(c)
       \/ Act(c) \/ Reject(c)
  \/ \E h \in Humans : HumanClaims(h) \/ HumanReleases(h)
  \/ \E a \in Agents \ {Me} : OtherClaims(a)
  \/ \E x \in Positions : OtherMoves(x)
  \/ Time

Spec == Init /\ [][Next]_vars
-----------------------------------------------------------------------------
\* docs/API.md: "the generated batch remains within the 50-action limit",
\* wherever the pointer was read and the target is, and no batch is empty.
BatchesFit ==
  \A c \in Calls : \A i \in DOMAIN todo[c] : Len(todo[c][i]) \in 1..BatchLimit

\* What X has got of a text is its beginning, whichever delta was refused,
\* cancelled or repeated, and all of it once the tool says so.
TextArrivesInOrder ==
  \A c \in Calls :
    /\ typed[c] = SubSeq(text[c], 1, Len(typed[c]))
    /\ pc[c] = "ok" => typed[c] = text[c]

\* A click by c in this step, unless the call was given up or a second one under
\* the same agent id came between.
Clicks(c) ==
  /\ Act(c) /\ Head(running[c]).kind = "click"
  /\ pc[c] = "wait" /\ ~overlapped[c]

\* Whoever moved the pointer between GET /cursor and the claim, a click that
\* follows a path is made where the path was to end.
PathsEndOnTarget ==
  [][ \A c \in Calls :
        Clicks(c) /\ Len(Head(todo[c])) > 2
          => pointer = Head(running[c]).at ]_vars
=============================================================================
