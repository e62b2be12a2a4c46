---------------------------- MODULE InputController ----------------------------
(***************************************************************************)
(* The input path of the control API: handler threads of the threading     *)
(* HTTP server that apply agent batches (InputController.apply), take the  *)
(* desktop for a human or give it back (both end in preempt), the          *)
(* SubprocessRunner with its single _current slot, the set of keys and     *)
(* buttons the controller believes an agent holds, and the X server that   *)
(* the xdotool processes really press them on.                             *)
(*                                                                         *)
(* A step is what a thread does under one lock; between steps any other    *)
(* thread, process or timer may run.                                       *)
(***************************************************************************)
EXTENDS Lease, Sequences, FiniteSets

CONSTANTS
  Workers,        \* handler threads
  Items,          \* keys and buttons
  Aliased,        \* key names accepted from agents that are no X keysym
  Batches,        \* the action lists agents send
  Requests,       \* which requests, and "time", a configuration lets happen
  Retries,        \* may a client send again before it was answered?
  CommandsFail,   \* may xdotool fail or run into its 15 s limit?
  MaxGeneration,  \* bound on preemptions
  NoWorker

ASSUME InputAssumption ==
  /\ NoWorker \notin Workers
  /\ Aliased \subseteq Items
  /\ MaxGeneration \in Nat
  /\ Retries \in BOOLEAN /\ CommandsFail \in BOOLEAN

\* "down" and "up" are the two states of a button action; "hold" is a hold_key
\* or a drag, "tap" a click, key, text or scroll: one xdotool process presses
\* and releases.  "plain" is a move or a wait.
Actions == [kind : {"down", "up", "hold", "tap", "plain"}, item : Items]

\* What _mark_held notes down.
Tracked == {"down", "up", "hold"}

ASSUME BatchesAssumption ==
  \A b \in Batches : b \in Seq(Actions) /\ b # <<>>

XEvents == [press : BOOLEAN, item : Items]

VARIABLES
  lease,       \* ControlLease
  generation,  \* InputController._generation
  held,        \* InputController._held_buttons and _held_keys
  current,     \* SubprocessRunner._current: whose process it is
  pressed,     \* what the X server has down on behalf of agents
  pc,          \* per handler thread: the next thing it does
  client,      \* ... whose request it handles
  actions,     \* ... actions of the batch not finished yet
  gen,         \* ... the generation its batch was admitted under
  proc,        \* ... its xdotool process
  script,      \* ... the X events that process has still to send
  todo,        \* ... what its _release_held still has to release
  victim,      \* ... the process its cancel_current picked
  crossed,     \* history: batches or sweeps worked at the same time
  lost         \* history: items that a dead clean-up or tap left to nobody

state  == <<lease, generation, held, current, pressed>>
thread == <<pc, client, actions, gen, proc, script, todo, victim>>
vars   == <<state, thread, crossed, lost>>

Batch   == {"generation", "extend", "check", "mark", "spawn", "wait", "complete",
            "failed"}
Preempt == {"bump", "cancel", "stop", "sweep"}
Sweep   == {"clean", "reap"}

Locations == {"idle"} \cup Batch \cup Preempt \cup Sweep

TypeOK ==
  /\ lease \in Leases
  /\ generation \in Nat
  /\ held \subseteq Items
  /\ current \in Workers \cup {NoWorker}
  /\ pressed \subseteq Items
  /\ pc \in [Workers -> Locations]
  /\ client \in [Workers -> Ids \cup {NoId}]
  /\ actions \in [Workers -> Seq(Actions)]
  /\ gen \in [Workers -> Nat]
  /\ proc \in [Workers -> {"none", "running", "exited", "died"}]
  /\ script \in [Workers -> Seq(XEvents)]
  /\ todo \in [Workers -> SUBSET Items]
  /\ victim \in [Workers -> Workers \cup {NoWorker}]
  /\ crossed \in BOOLEAN
  /\ lost \subseteq Items
  \* Only a thread inside run() has a process; a batch has an action to do, and
  \* a clean-up its own.
  /\ \A w \in Workers :
       /\ proc[w] = "none" <=> pc[w] \notin {"wait", "reap"}
       /\ pc[w] \in Batch \cup {"reap"} => actions[w] # <<>>

Init ==
  /\ lease = NoLease
  /\ generation = 0
  /\ held = {}
  /\ current = NoWorker
  /\ pressed = {}
  /\ pc = [w \in Workers |-> "idle"]
  /\ client = [w \in Workers |-> NoId]
  /\ actions = [w \in Workers |-> <<>>]
  /\ gen = [w \in Workers |-> 0]
  /\ proc = [w \in Workers |-> "none"]
  /\ script = [w \in Workers |-> <<>>]
  /\ todo = [w \in Workers |-> {}]
  /\ victim = [w \in Workers |-> NoWorker]
  /\ crossed = FALSE
  /\ lost = {}

Goto(w, l) == pc' = [pc EXCEPT ![w] = l]

Cancelled(w) == gen[w] # generation

\* A thread's batch command, or clean-up command, is alive.
CommandRuns(w) == pc[w] = "wait" /\ proc[w] = "running"
CleanupRuns(w) == pc[w] = "reap" /\ proc[w] = "running"

Tapping(w) == pc[w] = "wait" /\ Head(actions[w]).kind = "tap"

\* A batch thread between marking an action's item and having completed it.
InAction(w) == pc[w] \in {"spawn", "wait", "complete"}

\* Without retries a client waits for its answer before it asks again.
Waiting(id) == \E w \in Workers : pc[w] # "idle" /\ client[w] = id
MayAsk(id, request) == request \in Requests /\ (Retries \/ ~Waiting(id))

\* The thread ends its request.  `actions` and `client` are its locals.
Answer(w) ==
  /\ Goto(w, "idle")
  /\ client' = [client EXCEPT ![w] = NoId]
  /\ actions' = [actions EXCEPT ![w] = <<>>]
-----------------------------------------------------------------------------
(* The lease calls that touch nothing else.                                *)

\* POST /control/agent/claim
AgentClaims(a) ==
  /\ MayAsk(a, "claimAgent")
  /\ lease' = IF MayClaim(lease, a) THEN Grant(a) ELSE Expire(lease)
  /\ UNCHANGED <<generation, held, current, pressed, thread, crossed, lost>>

\* POST /control/human/release: no preemption, nothing else to undo.
HumanReleases(h) ==
  /\ MayAsk(h, "releaseHuman")
  /\ lease' = IF Holds(lease, h) THEN NoLease ELSE Expire(lease)
  /\ UNCHANGED <<generation, held, current, pressed, thread, crossed, lost>>

\* Time passes, or a status poll (GET /control) looks at the lease.
Time ==
  /\ "time" \in Requests
  /\ lease' \in {LeaseTick(lease), Expire(lease)}
  /\ UNCHANGED <<generation, held, current, pressed, thread, crossed, lost>>
-----------------------------------------------------------------------------
(* POST /input: InputController.apply.                                     *)

\* assert_owner admits the batch, or answers 409.
Input(w, a, b) ==
  /\ MayAsk(a, "input")
  /\ pc[w] = "idle"
  /\ lease' = Expire(lease)
  /\ IF Holds(lease, a)
       THEN /\ Goto(w, "generation")
            /\ client' = [client EXCEPT ![w] = a]
            /\ actions' = [actions EXCEPT ![w] = b]
       ELSE UNCHANGED <<pc, client, actions>>
  /\ UNCHANGED <<generation, held, current, pressed, gen, proc, script, todo,
                 victim, crossed, lost>>

ReadGeneration(w) ==
  /\ pc[w] = "generation"
  /\ gen' = [gen EXCEPT ![w] = generation]
  /\ Goto(w, "extend")
  /\ UNCHANGED <<state, client, actions, proc, script, todo, victim,
                 crossed, lost>>

\* _assert_active, first half: renew the lease or answer 409.
ExtendLease(w) ==
  /\ pc[w] = "extend"
  /\ \/ /\ MayExtend(lease, client[w])
        /\ lease' = Renew(lease)
        /\ Goto(w, "check")
        /\ UNCHANGED <<client, actions>>
     \/ /\ ~MayExtend(lease, client[w])
        /\ lease' = Expire(lease)
        /\ Answer(w)
  /\ UNCHANGED <<generation, held, current, pressed, gen, proc, script, todo,
                 victim, crossed, lost>>

\* _assert_active, second half.
CheckActive(w) ==
  /\ pc[w] = "check"
  /\ \/ ~Cancelled(w) /\ Goto(w, "mark") /\ UNCHANGED <<client, actions>>
     \/ Cancelled(w) /\ Answer(w)
  /\ UNCHANGED <<state, gen, proc, script, todo, victim, crossed, lost>>

\* _mark_held: before the command runs, whatever it may leave pressed.
MarkHeld(w) ==
  /\ pc[w] = "mark"
  /\ LET a == Head(actions[w])
     IN  held' = IF a.kind \in Tracked THEN held \cup {a.item} ELSE held
  /\ crossed' = (crossed \/ \E x \in Workers \ {w} : InAction(x))
  /\ Goto(w, "spawn")
  /\ UNCHANGED <<lease, generation, current, pressed, client, actions, gen, proc,
                 script, todo, victim, lost>>

\* What the xdotool command of an action sends to the X server.
ScriptOf(a) ==
  LET down == [press |-> TRUE, item |-> a.item]
      up   == [press |-> FALSE, item |-> a.item]
  IN  CASE a.kind = "down"  -> <<down>>
        [] a.kind = "up"    -> <<up>>
        [] a.kind \in {"hold", "tap"} -> <<down, up>>
        [] a.kind = "plain" -> <<>>

\* Fault: the generation is not looked at under the runner's lock.
SpawnUnchecked(w) ==
  /\ pc[w] = "spawn"
  /\ proc' = [proc EXCEPT ![w] = "running"]
  /\ script' = [script EXCEPT ![w] = ScriptOf(Head(actions[w]))]
  /\ current' = w
  /\ Goto(w, "wait")
  /\ UNCHANGED <<lease, generation, held, pressed, client, actions, gen, todo,
                 victim, crossed, lost>>

\* SubprocessRunner.run: check the generation and start the process in one
\* hold of the runner's lock.
Spawn(w) ==
  /\ pc[w] = "spawn"
  /\ ~Cancelled(w)
  /\ proc' = [proc EXCEPT ![w] = "running"]
  /\ script' = [script EXCEPT ![w] = ScriptOf(Head(actions[w]))]
  /\ current' = w
  /\ Goto(w, "wait")
  /\ UNCHANGED <<lease, generation, held, pressed, client, actions, gen, todo,
                 victim, crossed, lost>>

SpawnCancelled(w) ==
  /\ pc[w] = "spawn"
  /\ Cancelled(w)
  /\ Goto(w, "failed")
  /\ UNCHANGED <<state, client, actions, gen, proc, script, todo, victim,
                 crossed, lost>>

\* Fault: a thread whose process was overwritten in the slot never sees it end.
ReapIfCurrent(w, location) ==
  /\ proc[w] \in {"exited", "died"}
  /\ current = w
  /\ Goto(w, location)
  /\ current' = NoWorker
  /\ proc' = [proc EXCEPT ![w] = "none"]
  /\ script' = [script EXCEPT ![w] = <<>>]
  /\ victim' = [x \in Workers |-> IF victim[x] = w THEN NoWorker ELSE victim[x]]
  /\ UNCHANGED <<lease, generation, pressed, client, actions, gen, crossed>>

\* wait() returned: forget the process if the slot still has it.
Reap(w, location) ==
  /\ proc[w] \in {"exited", "died"}
  /\ Goto(w, location)
  /\ current' = IF current = w THEN NoWorker ELSE current
  /\ proc' = [proc EXCEPT ![w] = "none"]
  /\ script' = [script EXCEPT ![w] = <<>>]
  /\ victim' = [x \in Workers |-> IF victim[x] = w THEN NoWorker ELSE victim[x]]
  /\ UNCHANGED <<lease, generation, pressed, client, actions, gen, crossed>>

CommandReturns(w) ==
  /\ pc[w] = "wait"
  /\ Reap(w, IF proc[w] = "exited" THEN "complete" ELSE "failed")
  /\ lost' = IF proc[w] = "died" /\ Head(actions[w]).kind = "tap"
               THEN lost \cup {Head(actions[w]).item} ELSE lost
  /\ UNCHANGED <<held, todo>>

\* Fault: a completed button-down counts as released.
CompleteForgets(w) ==
  /\ pc[w] = "complete"
  /\ held' = held \ {Head(actions[w]).item}
  /\ IF Len(actions[w]) = 1
       THEN Answer(w)
       ELSE /\ actions' = [actions EXCEPT ![w] = Tail(@)]
            /\ Goto(w, "extend")
            /\ UNCHANGED client
  /\ UNCHANGED <<lease, generation, current, pressed, gen, proc, script, todo,
                 victim, crossed, lost>>

\* Fault: the loop runs once too often.
CompleteOnceMore(w) ==
  /\ pc[w] = "complete"
  /\ actions' = [actions EXCEPT ![w] = Tail(@)]
  /\ Goto(w, "extend")
  /\ UNCHANGED <<lease, generation, held, current, pressed, client, gen, proc,
                 script, todo, victim, crossed, lost>>

\* _complete_action, and the next action or a 204.
Complete(w) ==
  /\ pc[w] = "complete"
  /\ LET a == Head(actions[w])
     IN  held' = IF a.kind \in {"up", "hold"} THEN held \ {a.item} ELSE held
  /\ IF Len(actions[w]) = 1
       THEN Answer(w)
       ELSE /\ actions' = [actions EXCEPT ![w] = Tail(@)]
            /\ Goto(w, "extend")
            /\ UNCHANGED client
  /\ UNCHANGED <<lease, generation, current, pressed, gen, proc, script, todo,
                 victim, crossed, lost>>
-----------------------------------------------------------------------------
(* Preemption.                                                             *)

\* Bound: every preemption asked for fits under MaxGeneration.
Budget ==
  generation + Cardinality({w \in Workers : pc[w] = "bump"}) < MaxGeneration

\* POST /control/human/claim: the lease changes hands first.
HumanClaims(w, h) ==
  /\ MayAsk(h, "claimHuman")
  /\ pc[w] = "idle"
  /\ Budget
  /\ lease' = Grant(h)
  /\ Goto(w, "bump")
  /\ client' = [client EXCEPT ![w] = h]
  /\ UNCHANGED <<generation, held, current, pressed, actions, gen, proc, script,
                 todo, victim, crossed, lost>>

\* POST /control/agent/release: gives the lease back, then preempts.
AgentReleases(w, a) ==
  /\ MayAsk(a, "releaseAgent")
  /\ pc[w] = "idle"
  /\ Budget
  /\ \/ /\ Holds(lease, a)
        /\ lease' = NoLease
        /\ Goto(w, "bump")
        /\ client' = [client EXCEPT ![w] = a]
     \/ /\ ~Holds(lease, a)
        /\ lease' = Expire(lease)
        /\ UNCHANGED <<pc, client>>
  /\ UNCHANGED <<generation, held, current, pressed, actions, gen, proc, script,
                 todo, victim, crossed, lost>>

\* Fault: the generation stays.
BumpNothing(w) ==
  /\ pc[w] = "bump"
  /\ Goto(w, "cancel")
  /\ UNCHANGED <<state, client, actions, gen, proc, script, todo, victim,
                 crossed, lost>>

\* preempt: a new generation, so that no older batch starts a command.
Bump(w) ==
  /\ pc[w] = "bump"
  /\ generation' = generation + 1
  /\ Goto(w, "cancel")
  /\ UNCHANGED <<lease, held, current, pressed, client, actions, gen, proc,
                 script, todo, victim, crossed, lost>>

\* cancel_current: read the slot under the runner's lock ...
PickVictim(w) ==
  /\ pc[w] = "cancel"
  /\ victim' = [victim EXCEPT ![w] = current]
  /\ Goto(w, "stop")
  /\ UNCHANGED <<state, client, actions, gen, proc, script, todo,
                 crossed, lost>>

\* ... and, without it, stop the process if it is still alive.
StopVictim(w) ==
  /\ pc[w] = "stop"
  /\ LET v == victim[w]
     IN  proc' = [x \in Workers |->
                    IF x = v /\ proc[x] = "running" THEN "died" ELSE proc[x]]
  /\ victim' = [victim EXCEPT ![w] = NoWorker]
  /\ Goto(w, "sweep")
  /\ UNCHANGED <<state, client, actions, gen, script, todo, crossed, lost>>
-----------------------------------------------------------------------------
(* _release_held, at the end of a preemption and after a failed command.   *)

\* An action in progress that may still press something.
Working(x) == (pc[x] = "spawn" /\ ~Cancelled(x)) \/ CommandRuns(x)

\* Take everything held, in one hold of the state lock.  The code releases keys
\* before buttons, in sorted order; here the order is left open.
TakeHeld(w) ==
  /\ pc[w] \in {"sweep", "failed"}
  /\ todo' = [todo EXCEPT ![w] = held]
  /\ held' = {}
  /\ crossed' = (crossed \/ \E x \in Workers \ {w} : Working(x))
  /\ Goto(w, "clean")
  /\ UNCHANGED <<lease, generation, current, pressed, client, actions, gen, proc,
                 script, victim, lost>>

\* xdotool exits 0 for a key name it does not know and does nothing.
CleanupScript(item) ==
  IF item \in Aliased THEN <<>> ELSE <<[press |-> FALSE, item |-> item]>>

\* _cleanup runs keyup or mouseup whatever the generation is.
SpawnCleanup(w, item) ==
  /\ pc[w] = "clean"
  /\ item \in todo[w]
  /\ todo' = [todo EXCEPT ![w] = @ \ {item}]
  /\ actions' = [actions EXCEPT ![w] = <<[kind |-> "up", item |-> item]>>]
  /\ proc' = [proc EXCEPT ![w] = "running"]
  /\ script' = [script EXCEPT ![w] = CleanupScript(item)]
  /\ current' = w
  /\ crossed' = (crossed \/ \E x \in Workers \ {w} : CommandRuns(x))
  /\ Goto(w, "reap")
  /\ UNCHANGED <<lease, generation, held, pressed, client, gen, victim, lost>>

\* Whether the clean-up worked is not looked at.
CleanupReturns(w) ==
  /\ pc[w] = "reap"
  /\ Reap(w, "clean")
  /\ lost' = IF proc[w] = "died" THEN lost \cup {Head(actions[w]).item} ELSE lost
  /\ UNCHANGED <<held, todo>>

\* Everything was tried: the batch answers 409 or 500, the preemption 200.
Return(w) ==
  /\ pc[w] = "clean"
  /\ todo[w] = {}
  /\ Answer(w)
  /\ UNCHANGED <<state, gen, proc, script, todo, victim, crossed, lost>>
-----------------------------------------------------------------------------
(* The xdotool processes and the X server.                                 *)

XEvent(w) ==
  /\ proc[w] = "running"
  /\ script[w] # <<>>
  /\ LET e == Head(script[w])
     IN  pressed' = IF e.press THEN pressed \cup {e.item} ELSE pressed \ {e.item}
  /\ script' = [script EXCEPT ![w] = Tail(@)]
  /\ UNCHANGED <<lease, generation, held, current, pc, client, actions, gen, proc,
                 todo, victim, crossed, lost>>

ProcessExits(w) ==
  /\ proc[w] = "running"
  /\ script[w] = <<>>
  /\ proc' = [proc EXCEPT ![w] = "exited"]
  /\ UNCHANGED <<state, pc, client, actions, gen, script, todo, victim,
                 crossed, lost>>

\* A non-zero exit, or wait(timeout=15) expired and _stop ended it.
ProcessFails(w) ==
  /\ CommandsFail
  /\ proc[w] = "running"
  /\ proc' = [proc EXCEPT ![w] = "died"]
  /\ UNCHANGED <<state, pc, client, actions, gen, script, todo, victim,
                 crossed, lost>>
-----------------------------------------------------------------------------
Thread(w) ==
  \/ ReadGeneration(w) \/ ExtendLease(w) \/ CheckActive(w) \/ MarkHeld(w)
  \/ Spawn(w) \/ SpawnCancelled(w) \/ CommandReturns(w) \/ Complete(w)
  \/ Bump(w) \/ PickVictim(w) \/ StopVictim(w) \/ TakeHeld(w)
  \/ \E item \in Items : SpawnCleanup(w, item)
  \/ CleanupReturns(w) \/ Return(w)

Process(w) == XEvent(w) \/ ProcessExits(w)

Client ==
  \/ \E a \in Agents : AgentClaims(a)
  \/ \E h \in Humans : HumanReleases(h)
  \/ \E w \in Workers :
       \/ \E a \in Agents : AgentReleases(w, a)
       \/ \E a \in Agents, b \in Batches : Input(w, a, b)
       \/ \E h \in Humans : HumanClaims(w, h)

Next ==
  \/ Client
  \/ Time
  \/ \E w \in Workers : Thread(w) \/ Process(w) \/ ProcessFails(w)

\* Threads are scheduled and commands end (at the 15 s limit if not before);
\* no client has to do anything.
Spec ==
  /\ Init /\ [][Next]_vars
  /\ \A w \in Workers : WF_vars(Thread(w)) /\ WF_vars(Process(w))
-----------------------------------------------------------------------------
\* preempt cancels live input (its docstring): a command of a generation that
\* was preempted is alive only while the preemption is still stopping it --
\* as long as the one _current slot was enough, that is, as long as no process
\* was started while another thread's command ran.
StaleCommandIsBeingStopped ==
  crossed \/
  \A w \in Workers :
    CommandRuns(w) /\ Cancelled(w) =>
      \E p \in Workers : pc[p] = "cancel" \/ (pc[p] = "stop" /\ victim[p] = w)

\* The controller never forgets a key or button that an agent left down: the
\* X server has nothing pressed that is not in the held set, in the list of a
\* sweep under way, in the hands of a clean-up or tap command, or given up by
\* one of those that died -- again as long as batches and sweeps do not cross,
\* and for names that X knows (see NothingStaysHeld for the others).
PressesAreTracked ==
  crossed \/
  pressed \ Aliased \subseteq
    held \cup lost \cup (UNION {todo[w] : w \in Workers})
         \cup {Head(actions[w]).item :
                 w \in {x \in Workers : pc[x] = "reap" \/ Tapping(x)}}

\* Clients that wait for each answer, and whose leases do not lapse meanwhile,
\* never make batches and sweeps cross, so that one operator and one browser
\* enjoy both guarantees above.
NeverCrossed == ~crossed

\* A takeover request is answered, whatever the batches do: no lock is held
\* across a wait, and every wait ends.
PreemptionReturns ==
  \A w \in Workers : pc[w] = "bump" ~> pc[w] = "idle"
-----------------------------------------------------------------------------
\* docs/TESTING.md, handoff step 4: "no key or mouse button may remain held".
\* With every request answered and a human in control, nothing is down.
NothingStaysHeld ==
  (\A w \in Workers : pc[w] = "idle") /\ Controller(lease) \in Humans
    => pressed = {}
=============================================================================
