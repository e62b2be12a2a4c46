------------------------- MODULE InputControllerProofs -------------------------
(***************************************************************************)
(* Theorems about InputController, for any handler threads, keys, batches  *)
(* and requests, with or without retries, lapses and failing commands.     *)
(***************************************************************************)
EXTENDS InputController, SequenceTheorems, TLAPS

-----------------------------------------------------------------------------
(* The lease.                                                              *)

LEMMA LeaseFacts ==
  ASSUME NEW l \in Leases
  PROVE  /\ NoLease \in Leases /\ Expire(l) \in Leases
         /\ Renew(l) \in Leases /\ LeaseTick(l) \in Leases
BY TTLAssumption DEF NoLease, Expire, Renew, LeaseTick, Leases, Ids, TTL

LEMMA GrantFacts ==
  ASSUME NEW id \in Ids PROVE Grant(id) \in Leases
BY TTLAssumption DEF Grant, Leases, Ids, ActorOf, TTL
-----------------------------------------------------------------------------
(* What the processes have still to do, and that TypeOK is inductive.      *)

Down(item) == [press |-> TRUE, item |-> item]
Up(item)   == [press |-> FALSE, item |-> item]

\* What is left of the script of an action.
LeftOf(a) ==
  {<<>>}
  \cup (IF a.kind = "down" THEN {<<Down(a.item)>>} ELSE {<<Up(a.item)>>})
  \cup (IF a.kind \in {"hold", "tap"} THEN {<<Down(a.item), Up(a.item)>>} ELSE {})

\* The two events of a process, one after the other.
LEMMA EventFacts ==
  ASSUME NEW item \in Items
  PROVE  /\ Down(item) \in XEvents /\ Up(item) \in XEvents
         /\ Down(item).press = TRUE /\ Down(item).item = item
         /\ Up(item).press = FALSE /\ Up(item).item = item
         /\ <<Down(item)>> \in Seq(XEvents) /\ <<Down(item)>> # <<>>
         /\ Head(<<Down(item)>>) = Down(item) /\ Tail(<<Down(item)>>) = <<>>
         /\ <<Up(item)>> \in Seq(XEvents) /\ <<Up(item)>> # <<>>
         /\ Head(<<Up(item)>>) = Up(item) /\ Tail(<<Up(item)>>) = <<>>
         /\ <<Down(item), Up(item)>> \in Seq(XEvents)
         /\ <<Down(item), Up(item)>> # <<>>
         /\ Head(<<Down(item), Up(item)>>) = Down(item)
         /\ Tail(<<Down(item), Up(item)>>) = <<Up(item)>>
<1>1. Down(item) \in XEvents /\ Up(item) \in XEvents
  BY DEF Down, Up, XEvents
<1>2. /\ Down(item).press = TRUE /\ Down(item).item = item
      /\ Up(item).press = FALSE /\ Up(item).item = item
  BY DEF Down, Up
<1>3. ASSUME NEW e \in XEvents
      PROVE  /\ <<e>> \in Seq(XEvents) /\ <<e>> # <<>> /\ Head(<<e>>) = e
             /\ Tail(<<e>>) = <<>>
  OBVIOUS
<1>4. ASSUME NEW e \in XEvents, NEW f \in XEvents
      PROVE  /\ <<e, f>> \in Seq(XEvents) /\ <<e, f>> # <<>> /\ Head(<<e, f>>) = e
             /\ Tail(<<e, f>>) = <<f>>
  OBVIOUS
<1> QED
  BY <1>1, <1>2, <1>3, <1>4

LEMMA ScriptFacts ==
  ASSUME NEW a \in Actions
  PROVE  /\ a.item \in Items
         /\ ScriptOf(a) \in LeftOf(a) /\ LeftOf(a) \subseteq Seq(XEvents)
         /\ CleanupScript(a.item) \in {<<>>, <<Up(a.item)>>}
         /\ a.kind # "plain" => ScriptOf(a) # <<>>
<1>1. a.item \in Items /\ a.kind \in {"down", "up", "hold", "tap", "plain"}
  BY DEF Actions
<1>2. LeftOf(a) \subseteq Seq(XEvents)
  BY <1>1, EventFacts, EmptySeq DEF LeftOf
<1>3. /\ a.kind = "down" => ScriptOf(a) = <<Down(a.item)>>
      /\ a.kind = "up" => ScriptOf(a) = <<Up(a.item)>>
      /\ a.kind \in {"hold", "tap"} => ScriptOf(a) = <<Down(a.item), Up(a.item)>>
      /\ a.kind = "plain" => ScriptOf(a) = <<>>
  BY DEF ScriptOf, Down, Up
<1>4. ScriptOf(a) \in LeftOf(a)
  BY <1>1, <1>3 DEF LeftOf
<1>5. a.kind # "plain" => ScriptOf(a) # <<>>
  BY <1>1, <1>3, EventFacts
<1>6. CleanupScript(a.item) \in {<<>>, <<Up(a.item)>>}
  BY DEF CleanupScript, Up
<1> QED
  BY <1>1, <1>2, <1>4, <1>5, <1>6

ThreadsOK ==
  /\ pc \in [Workers -> Locations]
  /\ client \in [Workers -> Ids \cup {NoId}]
  /\ actions \in [Workers -> Seq(Actions)]
  /\ gen \in [Workers -> Nat]
  /\ proc \in [Workers -> {"none", "running", "exited", "died"}]
  /\ script \in [Workers -> Seq(XEvents)]
  /\ todo \in [Workers -> SUBSET Items]
  /\ victim \in [Workers -> Workers \cup {NoWorker}]

PlacesOK ==
  \A w \in Workers :
    /\ proc[w] = "none" <=> pc[w] \notin {"wait", "reap"}
    /\ pc[w] \in Batch \cup {"reap"} => actions[w] # <<>>

SharedOK ==
  /\ lease \in Leases
  /\ generation \in Nat
  /\ held \subseteq Items
  /\ current \in Workers \cup {NoWorker}
  /\ pressed \subseteq Items
  /\ crossed \in BOOLEAN
  /\ lost \subseteq Items

LEMMA TypeParts == TypeOK <=> ThreadsOK /\ PlacesOK /\ SharedOK
BY DEF TypeOK, ThreadsOK, PlacesOK, SharedOK

LEMMA NextTypeParts == TypeOK' <=> ThreadsOK' /\ PlacesOK' /\ SharedOK'
BY DEF TypeOK, ThreadsOK, PlacesOK, SharedOK

LEMMA InitTypeOK == Init => TypeOK
<1> SUFFICES ASSUME Init PROVE TypeOK
  OBVIOUS
<1>1. ThreadsOK
  BY EmptySeq DEF Init, ThreadsOK, Locations
<1>2. PlacesOK
  BY DEF Init, PlacesOK, Batch
<1>3. SharedOK
  BY DEF Init, SharedOK, NoLease, Leases
<1> QED
  BY <1>1, <1>2, <1>3, TypeParts

\* A thread that is at no process goes to another place of this kind, or ends.
LEMMA GotoFacts ==
  ASSUME ThreadsOK, PlacesOK, NEW w \in Workers, pc[w] \notin {"wait", "reap"},
         NEW l \in Locations \ {"wait", "reap"}, Goto(w, l),
         l \in Batch => actions[w] # <<>>, UNCHANGED <<actions, proc>>
  PROVE  pc' \in [Workers -> Locations] /\ PlacesOK'
BY DEF ThreadsOK, PlacesOK, Goto, Batch

LEMMA AnswerFacts ==
  ASSUME ThreadsOK, PlacesOK, NEW w \in Workers, pc[w] \notin {"wait", "reap"},
         Answer(w), UNCHANGED <<gen, proc, script, todo, victim>>
  PROVE  ThreadsOK' /\ PlacesOK'
<1>1. /\ pc' = [pc EXCEPT ![w] = "idle"] /\ client' = [client EXCEPT ![w] = NoId]
      /\ actions' = [actions EXCEPT ![w] = <<>>]
  BY DEF Answer, Goto
<1>2. actions' \in [Workers -> Seq(Actions)]
  BY <1>1, EmptySeq DEF ThreadsOK
<1>3. "idle" \in Locations /\ "idle" \notin Batch
  BY DEF Locations, Batch
<1>4. pc' \in [Workers -> Locations] /\ client' \in [Workers -> Ids \cup {NoId}]
  BY <1>1, <1>3 DEF ThreadsOK
<1>5. PlacesOK'
  BY <1>1, <1>3 DEF ThreadsOK, PlacesOK
<1> QED
  BY <1>2, <1>4, <1>5 DEF ThreadsOK

\* The first action of a batch, and what follows it.
LEMMA BatchFacts ==
  ASSUME TypeOK, NEW w \in Workers, actions[w] # <<>>
  PROVE  /\ Head(actions[w]) \in Actions /\ Tail(actions[w]) \in Seq(Actions)
         /\ Len(actions[w]) # 1 => Tail(actions[w]) # <<>>
         /\ Head(actions[w]).item \in Items
<1>1. actions[w] \in Seq(Actions)
  BY DEF TypeOK
<1>2. /\ Head(actions[w]) \in Actions /\ Tail(actions[w]) \in Seq(Actions)
      /\ Len(Tail(actions[w])) = Len(actions[w]) - 1 /\ Len(actions[w]) \in Nat
  BY <1>1, HeadTailProperties, LenProperties
<1>3. Len(actions[w]) # 1 => Tail(actions[w]) # <<>>
  <2> SUFFICES ASSUME Tail(actions[w]) = <<>> PROVE Len(actions[w]) = 1
    OBVIOUS
  <2>1. Len(Tail(actions[w])) = 0
    BY EmptySeq
  <2> QED
    BY <1>2, <2>1
<1> QED
  BY <1>2, <1>3 DEF Actions

LEMMA StepTypeOK == TypeOK /\ [Next]_vars => TypeOK'
<1> SUFFICES ASSUME TypeOK, [Next]_vars PROVE TypeOK'
  OBVIOUS
<1>p. ThreadsOK /\ PlacesOK /\ SharedOK
  BY TypeParts
<1>l. /\ NoLease \in Leases /\ Expire(lease) \in Leases
      /\ Renew(lease) \in Leases /\ LeaseTick(lease) \in Leases
      /\ \A id \in Agents \cup Humans : Grant(id) \in Leases
  BY <1>p, LeaseFacts, GrantFacts DEF SharedOK, Ids
<1> USE DEF state, thread
<1>1. ASSUME NEW a \in Agents, AgentClaims(a) PROVE TypeOK'
  BY <1>1, <1>p, <1>l, NextTypeParts DEF AgentClaims, ThreadsOK, PlacesOK, SharedOK
<1>2. ASSUME NEW h \in Humans, HumanReleases(h) PROVE TypeOK'
  BY <1>2, <1>p, <1>l, NextTypeParts DEF HumanReleases, ThreadsOK, PlacesOK, SharedOK
<1>3. ASSUME Time PROVE TypeOK'
  BY <1>3, <1>p, <1>l, NextTypeParts DEF Time, ThreadsOK, PlacesOK, SharedOK
<1>4. ASSUME NEW w \in Workers, NEW a \in Agents, AgentReleases(w, a) PROVE TypeOK'
  <2>1. /\ pc[w] = "idle" /\ UNCHANGED <<actions, gen, proc, script, todo, victim>>
        /\ \/ UNCHANGED <<pc, client>>
           \/ Goto(w, "bump") /\ client' = [client EXCEPT ![w] = a]
    BY <1>4 DEF AgentReleases
  <2>2. "bump" \in Locations \ Batch /\ a \in Ids
    BY DEF Locations, Preempt, Batch, Ids
  <2>3. client' \in [Workers -> Ids \cup {NoId}]
    BY <2>1, <2>2, <1>p DEF ThreadsOK
  <2>4. pc' \in [Workers -> Locations] /\ PlacesOK'
    BY <2>1, <2>2, <1>p, GotoFacts DEF ThreadsOK, PlacesOK
  <2>5. ThreadsOK'
    BY <2>1, <2>3, <2>4, <1>p DEF ThreadsOK
  <2> QED
    BY <1>4, <1>p, <1>l, <2>4, <2>5, NextTypeParts DEF AgentReleases, SharedOK
<1>5. ASSUME NEW w \in Workers, NEW a \in Agents, NEW b \in Batches, Input(w, a, b)
      PROVE  TypeOK'
  <2>1. b \in Seq(Actions) /\ b # <<>>
    BY BatchesAssumption
  <2>2. ThreadsOK' /\ PlacesOK'
    <3>1. /\ pc[w] = "idle" /\ UNCHANGED <<gen, proc, script, todo, victim>>
          /\ \/ UNCHANGED <<pc, client, actions>>
             \/ /\ Goto(w, "generation") /\ client' = [client EXCEPT ![w] = a]
                /\ actions' = [actions EXCEPT ![w] = b]
      BY <1>5 DEF Input
    <3>2. "generation" \in Locations
      BY DEF Locations, Batch
    <3>3. ThreadsOK'
      <4>1. pc' \in [Workers -> Locations]
        <5>1. CASE UNCHANGED pc
          BY <5>1, <1>p DEF ThreadsOK
        <5>2. CASE pc' = [pc EXCEPT ![w] = "generation"]
          BY <5>2, <3>2, <1>p DEF ThreadsOK
        <5> QED
          BY <3>1, <5>1, <5>2 DEF Goto
      <4>3. client' \in [Workers -> Ids \cup {NoId}]
        <5>1. a \in Ids
          BY DEF Ids
        <5>2. CASE UNCHANGED client
          BY <5>2, <1>p DEF ThreadsOK
        <5>3. CASE client' = [client EXCEPT ![w] = a]
          BY <5>1, <5>3, <1>p DEF ThreadsOK
        <5> QED
          BY <3>1, <5>2, <5>3
      <4>2. actions' \in [Workers -> Seq(Actions)]
        BY <3>1, <2>1, <1>p DEF ThreadsOK
      <4> QED
        BY <3>1, <4>1, <4>2, <4>3, <1>p DEF ThreadsOK
    <3>4. PlacesOK'
      BY <3>1, <2>1, <1>p DEF Goto, ThreadsOK, PlacesOK
    <3> QED
      BY <3>3, <3>4
  <2> QED
    BY <1>5, <1>p, <1>l, <2>2, NextTypeParts DEF Input, SharedOK
<1>6. ASSUME NEW w \in Workers, NEW h \in Humans, HumanClaims(w, h) PROVE TypeOK'
  <2>1. ThreadsOK' /\ PlacesOK'
    BY <1>6, <1>p DEF HumanClaims, Goto, ThreadsOK, PlacesOK, Locations, Preempt, Batch, Ids
  <2> QED
    BY <1>6, <1>p, <1>l, <2>1, NextTypeParts DEF HumanClaims, SharedOK
<1>7. ASSUME NEW w \in Workers,
             \/ ReadGeneration(w) \/ CheckActive(w) \/ SpawnCancelled(w)
             \/ PickVictim(w) \/ StopVictim(w) \/ Return(w) \/ ProcessExits(w)
             \/ ProcessFails(w)
      PROVE  TypeOK'
  <2>1. UNCHANGED <<state, crossed, lost, script, todo>>
    BY <1>7 DEF ReadGeneration, CheckActive, SpawnCancelled, PickVictim, StopVictim, Return,
       ProcessExits, ProcessFails
  <2>2. CASE ReadGeneration(w) \/ SpawnCancelled(w) \/ PickVictim(w)
    <3>1. PICK l \in {"extend", "failed", "stop"} :
            /\ Goto(w, l) /\ pc[w] \in {"generation", "spawn", "cancel"}
            /\ (l # "stop" => pc[w] \in Batch) /\ UNCHANGED <<client, actions, proc>>
      BY <2>2 DEF ReadGeneration, SpawnCancelled, PickVictim, Batch
    <3>2. l \in Locations \ {"wait", "reap"} /\ "stop" \notin Batch
      BY DEF Locations, Batch, Preempt
    <3>3. pc' \in [Workers -> Locations] /\ PlacesOK'
      <4>1. l \in Batch => actions[w] # <<>>
        BY <3>1, <3>2, <1>p DEF PlacesOK
      <4> QED
        BY <3>1, <3>2, <4>1, <1>p, GotoFacts
    <3>4. gen' \in [Workers -> Nat] /\ victim' \in [Workers -> Workers \cup {NoWorker}]
      BY <2>2, <1>p DEF ReadGeneration, SpawnCancelled, PickVictim, ThreadsOK, SharedOK
    <3> QED
      BY <2>1, <3>1, <3>3, <3>4, <1>p, NextTypeParts DEF ThreadsOK, SharedOK
  <2>3. CASE CheckActive(w) \/ Return(w)
    <3>1. \/ Answer(w)
          \/ Goto(w, "mark") /\ pc[w] = "check" /\ UNCHANGED <<client, actions>>
      BY <2>3 DEF CheckActive, Return
    <3>2. /\ UNCHANGED <<gen, proc, script, todo, victim>>
          /\ pc[w] \notin {"wait", "reap"} /\ (pc[w] = "check" \/ pc[w] = "clean")
      BY <2>3 DEF CheckActive, Return
    <3>3. "mark" \in Locations /\ "check" \in Batch
      BY DEF Locations, Batch
    <3>4. ThreadsOK' /\ PlacesOK'
      <4>1. CASE Answer(w)
        BY <3>2, <4>1, <1>p, AnswerFacts
      <4>2. CASE Goto(w, "mark") /\ pc[w] = "check" /\ UNCHANGED <<client, actions>>
        <5>1. pc' \in [Workers -> Locations] /\ PlacesOK'
          BY <3>2, <3>3, <4>2, <1>p, GotoFacts DEF PlacesOK
        <5> QED
          BY <3>2, <4>2, <5>1, <1>p DEF ThreadsOK
      <4> QED
        BY <3>1, <4>1, <4>2
    <3> QED
      BY <2>1, <3>4, <1>p, NextTypeParts DEF SharedOK
  <2>4. CASE StopVictim(w)
    <3>1. /\ Goto(w, "sweep") /\ pc[w] = "stop" /\ UNCHANGED <<client, actions, gen, script, todo>>
          /\ victim' = [victim EXCEPT ![w] = NoWorker]
          /\ proc' = [x \in Workers |->
                        IF x = victim[w] /\ proc[x] = "running" THEN "died" ELSE proc[x]]
      BY <2>4 DEF StopVictim
    <3>2. \A x \in Workers : proc'[x] = "none" <=> proc[x] = "none"
      BY <3>1
    <3>3. pc' \in [Workers -> Locations]
      BY <3>1, <1>p DEF Goto, ThreadsOK, Locations, Preempt
    <3>4. PlacesOK'
      BY <3>1, <3>2, <1>p DEF Goto, PlacesOK, ThreadsOK, Batch
    <3>5. ThreadsOK'
      BY <3>1, <3>3, <1>p DEF ThreadsOK
    <3> QED
      BY <2>1, <3>4, <3>5, <1>p, NextTypeParts DEF SharedOK
  <2>5. CASE ProcessExits(w) \/ ProcessFails(w)
    <3>1. /\ UNCHANGED <<pc, client, actions, gen, script, todo, victim>>
          /\ proc[w] = "running"
          /\ \/ proc' = [proc EXCEPT ![w] = "exited"]
             \/ proc' = [proc EXCEPT ![w] = "died"]
      BY <2>5 DEF ProcessExits, ProcessFails
    <3> QED
      BY <2>1, <3>1, <1>p, NextTypeParts DEF ThreadsOK, PlacesOK, SharedOK
  <2> QED
    BY <1>7, <2>2, <2>3, <2>4, <2>5
<1>8. ASSUME NEW w \in Workers, ExtendLease(w) PROVE TypeOK'
  <2>1. /\ pc[w] = "extend" /\ lease' \in Leases
        /\ UNCHANGED <<generation, held, current, pressed, gen, proc, script, todo, victim,
                       crossed, lost>>
        /\ Answer(w) \/ (Goto(w, "check") /\ UNCHANGED <<client, actions>>)
    BY <1>8, <1>l DEF ExtendLease
  <2>2. "check" \in Locations /\ "extend" \in Batch
    BY DEF Locations, Batch
  <2>3. ThreadsOK' /\ PlacesOK'
    <3>1. CASE Answer(w)
      BY <2>1, <3>1, <1>p, AnswerFacts
    <3>2. CASE Goto(w, "check") /\ UNCHANGED <<client, actions>>
      <4>1. pc' \in [Workers -> Locations] /\ PlacesOK'
        BY <2>1, <2>2, <3>2, <1>p, GotoFacts DEF PlacesOK
      <4> QED
        BY <2>1, <3>2, <4>1, <1>p DEF ThreadsOK
    <3> QED
      BY <2>1, <3>1, <3>2
  <2> QED
    BY <2>1, <2>3, <1>p, NextTypeParts DEF SharedOK
<1>9. ASSUME NEW w \in Workers, MarkHeld(w) PROVE TypeOK'
  <2>1. Head(actions[w]).item \in Items
    BY <1>9, <1>p, BatchFacts DEF MarkHeld, PlacesOK, Batch
  <2> QED
    BY <1>9, <2>1, <1>p, NextTypeParts DEF MarkHeld, Goto, Batch, Locations,
       ThreadsOK, PlacesOK, SharedOK
<1>10. ASSUME NEW w \in Workers, Spawn(w) PROVE TypeOK'
  <2>1. Head(actions[w]) \in Actions
    BY <1>10, <1>p, BatchFacts DEF Spawn, PlacesOK, Batch
  <2>2. ScriptOf(Head(actions[w])) \in Seq(XEvents)
    BY <2>1, ScriptFacts
  <2> QED
    BY <1>10, <2>2, <1>p, NextTypeParts DEF Spawn, Goto, Batch, Locations,
       ThreadsOK, PlacesOK, SharedOK
<1>11. ASSUME NEW w \in Workers, CommandReturns(w) \/ CleanupReturns(w) PROVE TypeOK'
  <2>1. /\ pc[w] \in {"wait", "reap"} /\ UNCHANGED <<held, todo>>
        /\ \E location \in {"complete", "failed", "clean"} :
             /\ Reap(w, location)
             /\ location # "clean" => pc[w] = "wait"
    BY <1>11 DEF CommandReturns, CleanupReturns
  <2>2. PICK location \in {"complete", "failed", "clean"} :
          Reap(w, location) /\ (location # "clean" => pc[w] = "wait")
    BY <2>1
  <2>3. script' \in [Workers -> Seq(XEvents)]
    BY <2>2, <1>p, EmptySeq DEF Reap, ThreadsOK
  <2>4. ThreadsOK' /\ PlacesOK'
    BY <2>1, <2>2, <2>3, <1>p DEF Reap, Goto, Batch, Sweep, Locations, ThreadsOK, PlacesOK
  <2>5. lost' \subseteq Items
    <3>1. CASE lost' = lost
      BY <3>1, <1>p DEF SharedOK
    <3>2. CASE lost' = lost \cup {Head(actions[w]).item}
      <4>1. Head(actions[w]).item \in Items
        BY <2>1, <1>p, BatchFacts DEF PlacesOK, Batch
      <4> QED
        BY <3>2, <4>1, <1>p DEF SharedOK
    <3> QED
      BY <1>11, <3>1, <3>2 DEF CommandReturns, CleanupReturns
  <2> QED
    BY <2>1, <2>2, <2>4, <2>5, <1>p, NextTypeParts DEF Reap, SharedOK
<1>12. ASSUME NEW w \in Workers, Complete(w) PROVE TypeOK'
  <2>1. /\ pc[w] = "complete" /\ held' \subseteq held
        /\ UNCHANGED <<lease, generation, current, pressed, gen, proc, script, todo, victim,
                       crossed, lost>>
        /\ \/ Answer(w)
           \/ /\ Len(actions[w]) # 1 /\ Goto(w, "extend") /\ UNCHANGED client
              /\ actions' = [actions EXCEPT ![w] = Tail(@)]
    BY <1>12 DEF Complete
  <2>2. actions[w] # <<>> /\ "extend" \in Locations
    BY <2>1, <1>p DEF PlacesOK, Batch, Locations
  <2>3. ThreadsOK' /\ PlacesOK'
    <3>1. CASE Answer(w)
      BY <2>1, <3>1, <1>p, AnswerFacts
    <3>2. CASE /\ Len(actions[w]) # 1 /\ Goto(w, "extend") /\ UNCHANGED client
               /\ actions' = [actions EXCEPT ![w] = Tail(@)]
      <4>1. Tail(actions[w]) \in Seq(Actions) /\ Tail(actions[w]) # <<>>
        BY <2>2, <3>2, BatchFacts
      <4>2. actions' \in [Workers -> Seq(Actions)] /\ actions'[w] # <<>>
        BY <3>2, <4>1, <1>p DEF ThreadsOK
      <4>3. ThreadsOK'
        BY <2>1, <2>2, <3>2, <4>2, <1>p DEF Goto, ThreadsOK
      <4>4. \A x \in Workers \ {w} : actions'[x] = actions[x]
        BY <3>2, <1>p DEF ThreadsOK
      <4>5. PlacesOK'
        BY <2>1, <3>2, <4>2, <4>4, <1>p DEF Goto, ThreadsOK, PlacesOK
      <4> QED
        BY <4>3, <4>5
    <3> QED
      BY <2>1, <3>1, <3>2
  <2> QED
    BY <2>1, <2>3, <1>p, NextTypeParts DEF SharedOK
<1>13. ASSUME NEW w \in Workers, Bump(w) PROVE TypeOK'
  BY <1>13, <1>p, NextTypeParts DEF Bump, Goto, Preempt, Batch, Locations,
     ThreadsOK, PlacesOK, SharedOK
<1>14. ASSUME NEW w \in Workers, TakeHeld(w) PROVE TypeOK'
  BY <1>14, <1>p, NextTypeParts DEF TakeHeld, Goto, Sweep, Batch, Locations,
     ThreadsOK, PlacesOK, SharedOK
<1>15. ASSUME NEW w \in Workers, NEW item \in Items, SpawnCleanup(w, item) PROVE TypeOK'
  <2> DEFINE a == [kind |-> "up", item |-> item]
  <2>1. a \in Actions /\ a.item = item
    BY DEF Actions
  <2>2. <<a>> \in Seq(Actions) /\ <<a>> # <<>>
    BY <2>1
  <2>3. CleanupScript(item) \in Seq(XEvents)
    BY <2>1, ScriptFacts, EventFacts, EmptySeq
  <2>4. actions' \in [Workers -> Seq(Actions)] /\ script' \in [Workers -> Seq(XEvents)]
    BY <1>15, <2>2, <2>3, <1>p DEF SpawnCleanup, ThreadsOK
  <2>5. ThreadsOK'
    BY <1>15, <2>4, <1>p DEF SpawnCleanup, Goto, Sweep, Locations, ThreadsOK
  <2>6. PlacesOK'
    BY <1>15, <2>2, <1>p DEF SpawnCleanup, Goto, Batch, ThreadsOK, PlacesOK
  <2>7. SharedOK'
    BY <1>15, <1>p DEF SpawnCleanup, SharedOK
  <2> QED
    BY <2>5, <2>6, <2>7, NextTypeParts
<1>16. ASSUME NEW w \in Workers, XEvent(w) PROVE TypeOK'
  <2>1. Head(script[w]) \in XEvents /\ Tail(script[w]) \in Seq(XEvents)
    BY <1>16, <1>p, HeadTailProperties DEF XEvent, ThreadsOK
  <2>2. pressed' \subseteq Items
    BY <1>16, <2>1, <1>p DEF XEvent, SharedOK, XEvents
  <2>3. script' \in [Workers -> Seq(XEvents)]
    BY <1>16, <2>1, <1>p DEF XEvent, ThreadsOK
  <2> QED
    BY <1>16, <2>2, <2>3, <1>p, NextTypeParts DEF XEvent, ThreadsOK, PlacesOK, SharedOK
<1>17. ASSUME UNCHANGED vars PROVE TypeOK'
  BY <1>17, <1>p, NextTypeParts DEF vars, ThreadsOK, PlacesOK, SharedOK
<1> QED
  BY <1>1, <1>2, <1>3, <1>4, <1>5, <1>6, <1>7, <1>8, <1>9, <1>10, <1>11, <1>12, <1>13,
     <1>14, <1>15, <1>16, <1>17 DEF Next, Client, Thread, Process

\* Lease, controller, threads and processes are well formed in every reachable
\* state: exactly the threads inside run() have a process.
THEOREM TypeCorrect == Spec => []TypeOK
BY InitTypeOK, StepTypeOK, PTL DEF Spec
-----------------------------------------------------------------------------
(* A stale command is being stopped.  As long as nothing has crossed, one  *)
(* thread at most is in an action, and the command that runs is the one in *)
(* _current: so the preemption that made it stale finds it.                *)

OneAction ==
  \A x, y \in Workers : InAction(x) /\ InAction(y) => x = y

RunsInSlot ==
  \A w \in Workers : CommandRuns(w) => current = w

BeingStopped ==
  \A w \in Workers :
    CommandRuns(w) /\ Cancelled(w) =>
      \E p \in Workers : pc[p] = "cancel" \/ (pc[p] = "stop" /\ victim[p] = w)

SlotInv == crossed \/ (OneAction /\ RunsInSlot /\ BeingStopped)

LEMMA InitSlot == Init => SlotInv
BY DEF Init, SlotInv, OneAction, RunsInSlot, BeingStopped, InAction, CommandRuns

\* A step of one thread that starts no action, and no process anywhere.
LEMMA StepElsewhere ==
  ASSUME TypeOK, OneAction, RunsInSlot, BeingStopped, NEW w \in Workers,
         UNCHANGED <<current, generation, proc, victim>>,
         \A x \in Workers \ {w} : UNCHANGED <<pc[x], gen[x]>>,
         \/ UNCHANGED <<pc[w], gen[w]>>
         \/ /\ pc[w] \notin {"cancel", "stop"}
            /\ pc'[w] \notin {"spawn", "wait", "complete"}
  PROVE  OneAction' /\ RunsInSlot' /\ BeingStopped'
<1>1. OneAction' /\ RunsInSlot'
  BY DEF OneAction, RunsInSlot, InAction, CommandRuns
<1>2. BeingStopped'
  <2> SUFFICES ASSUME NEW v \in Workers, CommandRuns(v)', Cancelled(v)'
               PROVE  \E p \in Workers :
                        pc'[p] = "cancel" \/ (pc'[p] = "stop" /\ victim'[p] = v)
    BY DEF BeingStopped
  <2>1. CommandRuns(v) /\ Cancelled(v)
    BY DEF CommandRuns, Cancelled
  <2>2. PICK p \in Workers : pc[p] = "cancel" \/ (pc[p] = "stop" /\ victim[p] = v)
    BY <2>1 DEF BeingStopped
  <2>3. pc'[p] = pc[p] /\ victim'[p] = victim[p]
    BY <2>2
  <2> QED
    BY <2>2, <2>3
<1> QED
  BY <1>1, <1>2

\* What has crossed once has crossed for good.
LEMMA CrossedForGood == crossed /\ [Next]_vars => crossed'
<1> SUFFICES ASSUME crossed, [Next]_vars PROVE crossed'
  OBVIOUS
<1>1. CASE UNCHANGED vars
  BY <1>1 DEF vars
<1>2. CASE Client \/ Time
  BY <1>2 DEF Client, Time, AgentClaims, HumanReleases, AgentReleases, Input, HumanClaims
<1>3. ASSUME NEW w \in Workers,
             \/ ReadGeneration(w) \/ ExtendLease(w) \/ CheckActive(w) \/ MarkHeld(w)
             \/ Spawn(w) \/ SpawnCancelled(w) \/ CommandReturns(w) \/ Complete(w)
      PROVE  crossed'
  BY <1>3 DEF ReadGeneration, ExtendLease, CheckActive, MarkHeld, Spawn, SpawnCancelled,
     CommandReturns, Reap, Complete
<1>4. ASSUME NEW w \in Workers,
             \/ Bump(w) \/ PickVictim(w) \/ StopVictim(w) \/ TakeHeld(w)
             \/ \E item \in Items : SpawnCleanup(w, item)
             \/ CleanupReturns(w) \/ Return(w)
      PROVE  crossed'
  BY <1>4 DEF Bump, PickVictim, StopVictim, TakeHeld, SpawnCleanup, CleanupReturns, Reap,
     Return
<1>5. ASSUME NEW w \in Workers, Process(w) \/ ProcessFails(w) PROVE crossed'
  BY <1>5 DEF Process, XEvent, ProcessExits, ProcessFails
<1> QED
  BY <1>1, <1>2, <1>3, <1>4, <1>5 DEF Next, Thread

LEMMA StepSlot == TypeOK /\ SlotInv /\ [Next]_vars => SlotInv'
<1> SUFFICES ASSUME TypeOK, SlotInv, [Next]_vars, ~crossed' PROVE SlotInv'
  BY DEF SlotInv
<1>c. ~crossed
  BY CrossedForGood
<1>n. ~crossed'
  OBVIOUS
<1>t. /\ ThreadsOK /\ PlacesOK /\ NoWorker \notin Workers /\ generation \in Nat
      /\ current \in Workers \cup {NoWorker}
  BY TypeParts, InputAssumption DEF SharedOK
<1>i. OneAction /\ RunsInSlot /\ BeingStopped
  BY <1>c DEF SlotInv
<1>g. SUFFICES OneAction' /\ RunsInSlot' /\ BeingStopped'
  BY DEF SlotInv
<1>s. ASSUME UNCHANGED <<current, generation, proc, victim, pc, gen>>
      PROVE  OneAction' /\ RunsInSlot' /\ BeingStopped'
  BY <1>s, <1>i DEF OneAction, RunsInSlot, BeingStopped, InAction, CommandRuns, Cancelled
<1>1. ASSUME \/ \E a \in Agents : AgentClaims(a)
             \/ \E h \in Humans : HumanReleases(h)
             \/ Time
             \/ \E w \in Workers : XEvent(w)
             \/ UNCHANGED vars
      PROVE  OneAction' /\ RunsInSlot' /\ BeingStopped'
  <2>1. UNCHANGED <<current, generation, proc, victim, pc, gen>>
    BY <1>1 DEF AgentClaims, HumanReleases, Time, XEvent, vars, state, thread
  <2> QED
    BY <2>1, <1>s
<1>2. ASSUME NEW w \in Workers,
             \/ \E a \in Agents : AgentReleases(w, a)
             \/ \E a \in Agents, b \in Batches : Input(w, a, b)
             \/ \E h \in Humans : HumanClaims(w, h)
             \/ ReadGeneration(w) \/ ExtendLease(w) \/ CheckActive(w) \/ SpawnCancelled(w)
             \/ Complete(w) \/ TakeHeld(w) \/ Return(w)
      PROVE  OneAction' /\ RunsInSlot' /\ BeingStopped'
  <2>1. UNCHANGED <<current, generation, proc, victim>>
    BY <1>2 DEF AgentReleases, Input, HumanClaims, ReadGeneration, ExtendLease, CheckActive,
       SpawnCancelled, Complete, TakeHeld, Return, state
  <2>2. gen' = gen \/ (pc[w] = "generation" /\ gen' = [gen EXCEPT ![w] = generation])
    BY <1>2 DEF AgentReleases, Input, HumanClaims, ReadGeneration, ExtendLease, CheckActive,
       SpawnCancelled, Complete, TakeHeld, Return
  <2>3. \/ pc' = pc /\ gen' = gen
        \/ /\ \E l \in {"bump", "generation", "extend", "check", "mark", "failed", "clean", "idle"} :
                pc' = [pc EXCEPT ![w] = l]
           /\ pc[w] \notin {"cancel", "stop"}
    BY <1>2 DEF AgentReleases, Input, HumanClaims, ReadGeneration, ExtendLease, CheckActive,
       SpawnCancelled, Complete, TakeHeld, Return, Answer, Goto
  <2>4. /\ \A x \in Workers \ {w} : UNCHANGED <<pc[x], gen[x]>>
        /\ \/ UNCHANGED <<pc[w], gen[w]>>
           \/ /\ pc[w] \notin {"cancel", "stop"}
              /\ pc'[w] \notin {"spawn", "wait", "complete"}
    BY <2>2, <2>3, <1>t DEF ThreadsOK
  <2> QED
    BY <2>1, <2>4, <1>i, StepElsewhere
<1> USE DEF OneAction, RunsInSlot, BeingStopped, InAction, CommandRuns, Cancelled,
            ThreadsOK, PlacesOK, state
<1>3. ASSUME NEW w \in Workers, MarkHeld(w) PROVE OneAction' /\ RunsInSlot' /\ BeingStopped'
  <2>1. /\ pc[w] = "mark" /\ pc' = [pc EXCEPT ![w] = "spawn"]
        /\ crossed' = (crossed \/ \E x \in Workers \ {w} : InAction(x))
        /\ UNCHANGED <<current, generation, gen, proc, victim>>
    BY <1>3 DEF MarkHeld, Goto
  <2>2. \A x \in Workers \ {w} : ~InAction(x)
    BY <2>1, <1>n
  <2>3. \A x \in Workers : pc'[x] = IF x = w THEN "spawn" ELSE pc[x]
    BY <2>1, <1>t
  <2>4. OneAction'
    BY <2>2, <2>3
  <2>5. RunsInSlot' /\ BeingStopped'
    BY <2>1, <2>2, <2>3
  <2> QED
    BY <2>4, <2>5
<1>4. ASSUME NEW w \in Workers, Spawn(w) PROVE OneAction' /\ RunsInSlot' /\ BeingStopped'
  BY <1>4, <1>t, <1>c, <1>i DEF Spawn, Goto
<1>5. ASSUME NEW w \in Workers, CommandReturns(w) PROVE OneAction' /\ RunsInSlot' /\ BeingStopped'
  BY <1>5, <1>t, <1>c, <1>i DEF CommandReturns, Reap, Goto
<1>6. ASSUME NEW w \in Workers, Bump(w) PROVE OneAction' /\ RunsInSlot' /\ BeingStopped'
  BY <1>6, <1>t, <1>c, <1>i DEF Bump, Goto
<1>7. ASSUME NEW w \in Workers, PickVictim(w) PROVE OneAction' /\ RunsInSlot' /\ BeingStopped'
  BY <1>7, <1>t, <1>c, <1>i DEF PickVictim, Goto
<1>8. ASSUME NEW w \in Workers, StopVictim(w) PROVE OneAction' /\ RunsInSlot' /\ BeingStopped'
  BY <1>8, <1>t, <1>c, <1>i DEF StopVictim, Goto
<1>9. ASSUME NEW w \in Workers, NEW item \in Items, SpawnCleanup(w, item) PROVE OneAction' /\ RunsInSlot' /\ BeingStopped'
  <2>1. /\ pc[w] = "clean" /\ pc' = [pc EXCEPT ![w] = "reap"]
        /\ proc' = [proc EXCEPT ![w] = "running"] /\ UNCHANGED <<generation, gen, victim>>
        /\ crossed' = (crossed \/ \E x \in Workers \ {w} : CommandRuns(x))
    BY <1>9 DEF SpawnCleanup, Goto
  <2>2. \A x \in Workers \ {w} : ~CommandRuns(x)
    BY <2>1, <1>n
  <2>3. \A x \in Workers : /\ pc'[x] = IF x = w THEN "reap" ELSE pc[x]
                           /\ proc'[x] = IF x = w THEN "running" ELSE proc[x]
    BY <2>1, <1>t
  <2>4. \A x \in Workers : ~(pc'[x] = "wait" /\ proc'[x] = "running")
    BY <2>2, <2>3
  <2>5. RunsInSlot' /\ BeingStopped'
    BY <2>4
  <2>6. OneAction'
    BY <2>3, <1>i
  <2> QED
    BY <2>5, <2>6
<1>10. ASSUME NEW w \in Workers, CleanupReturns(w) PROVE OneAction' /\ RunsInSlot' /\ BeingStopped'
  <2>1. /\ pc[w] = "reap" /\ pc' = [pc EXCEPT ![w] = "clean"]
        /\ proc' = [proc EXCEPT ![w] = "none"] /\ UNCHANGED <<generation, gen>>
        /\ current' = IF current = w THEN NoWorker ELSE current
        /\ victim' = [x \in Workers |-> IF victim[x] = w THEN NoWorker ELSE victim[x]]
    BY <1>10 DEF CleanupReturns, Reap, Goto
  <2>2. \A x \in Workers : /\ pc'[x] = IF x = w THEN "clean" ELSE pc[x]
                           /\ x # w => proc'[x] = proc[x]
                           /\ victim'[x] = IF victim[x] = w THEN NoWorker ELSE victim[x]
    BY <2>1, <1>t
  <2>3. OneAction'
    BY <2>2, <1>i
  <2>4. \A x \in Workers : pc'[x] = "wait" /\ proc'[x] = "running"
                             => x # w /\ pc[x] = "wait" /\ proc[x] = "running"
    BY <2>2
  <2>5. RunsInSlot'
    BY <2>1, <2>4, <1>i
  <2>6. BeingStopped'
    <3> SUFFICES ASSUME NEW v \in Workers, CommandRuns(v)', Cancelled(v)'
                 PROVE  \E p \in Workers :
                          pc'[p] = "cancel" \/ (pc'[p] = "stop" /\ victim'[p] = v)
      OBVIOUS
    <3>1. v # w /\ CommandRuns(v) /\ Cancelled(v)
      BY <2>1, <2>4
    <3>2. PICK p \in Workers : pc[p] = "cancel" \/ (pc[p] = "stop" /\ victim[p] = v)
      BY <3>1, <1>i
    <3>3. p # w /\ pc'[p] = pc[p] /\ (victim[p] = v => victim'[p] = v)
      BY <2>1, <2>2, <3>1, <3>2
    <3> QED
      BY <3>2, <3>3
  <2> QED
    BY <2>3, <2>5, <2>6
<1>11. ASSUME NEW w \in Workers, ProcessExits(w) PROVE OneAction' /\ RunsInSlot' /\ BeingStopped'
  BY <1>11, <1>t, <1>c, <1>i DEF ProcessExits
<1>12. ASSUME NEW w \in Workers, ProcessFails(w) PROVE OneAction' /\ RunsInSlot' /\ BeingStopped'
  BY <1>12, <1>t, <1>c, <1>i DEF ProcessFails
<1> QED
  BY <1>1, <1>2, <1>3, <1>4, <1>5, <1>6, <1>7, <1>8, <1>9, <1>10, <1>11, <1>12 DEF Next, Client, Thread, Process

\* A command of a generation that was preempted runs only while the preemption
\* is stopping it, as long as batches and sweeps have not crossed.
THEOREM StaleCommandsAreStopped == Spec => []StaleCommandIsBeingStopped
<1>1. SlotInv => StaleCommandIsBeingStopped
  BY DEF SlotInv, BeingStopped, StaleCommandIsBeingStopped
<1> QED
  BY <1>1, InitTypeOK, StepTypeOK, InitSlot, StepSlot, PTL DEF Spec
-----------------------------------------------------------------------------
(* Presses are tracked: what the X server has down for an agent is held by *)
(* the controller, or about to be released by somebody.                    *)

\* What any thread has left to do is known, whether anything has crossed or
\* not.
ScriptOK(w) ==
  /\ gen[w] <= generation
  /\ todo[w] # {} => pc[w] \in {"clean", "reap"}
  /\ pc[w] = "wait" => script[w] \in LeftOf(Head(actions[w]))
  /\ pc[w] = "reap" => script[w] \in {<<>>, <<Up(Head(actions[w]).item)>>}
  /\ proc[w] = "exited" => script[w] = <<>>

ScriptsInv == \A w \in Workers : ScriptOK(w)

\* What a command of a batch may leave pressed is held before it presses it.
HeldFirst ==
  \A w \in Workers :
    Working(w) /\ Head(actions[w]).kind \in Tracked => Head(actions[w]).item \in held

\* A command after which the controller forgets an item has released it.
LetGo ==
  \A w \in Workers :
    /\ (pc[w] = "wait" /\ script[w] = <<>>) \/ pc[w] = "complete"
    /\ Head(actions[w]).kind \in {"up", "hold"}
    => Head(actions[w]).item \notin pressed

\* A clean-up or a tap that has an event left to send will release its item.
Carries(w, item) ==
  /\ pc[w] = "reap" \/ Tapping(w)
  /\ script[w] # <<>> /\ Head(actions[w]).item = item

SomebodyHas ==
  \A item \in pressed \ Aliased :
    \/ item \in held \cup lost
    \/ \E w \in Workers : item \in todo[w] \/ Carries(w, item)

TrackInv == crossed \/ (HeldFirst /\ LetGo /\ SomebodyHas)

\* The steps of one thread, its process and its client.
Asks(w) ==
  \/ \E a \in Agents : AgentReleases(w, a)
  \/ \E a \in Agents, b \in Batches : Input(w, a, b)
  \/ \E h \in Humans : HumanClaims(w, h)

\* Those that touch no process and nothing held.
Moves(w) ==
  \/ Asks(w) \/ ReadGeneration(w) \/ ExtendLease(w) \/ CheckActive(w)
  \/ SpawnCancelled(w) \/ PickVictim(w) \/ Return(w)

\* The lease alone, or nothing at all.
Elsewhere ==
  \/ \E a \in Agents : AgentClaims(a)
  \/ \E h \in Humans : HumanReleases(h)
  \/ Time
  \/ UNCHANGED vars

LEMMA ElsewhereFacts ==
  Elsewhere => UNCHANGED <<generation, held, pressed, thread, crossed, lost>>
BY DEF Elsewhere, AgentClaims, HumanReleases, Time, vars, state

LEMMA MovesFacts ==
  ASSUME TypeOK, NEW w \in Workers, Moves(w)
  PROVE  /\ UNCHANGED <<generation, held, pressed, proc, script, todo, lost>>
         /\ pc[w] = "clean" => todo[w] = {}
         /\ pc[w] \notin {"wait", "reap", "complete"}
         /\ \/ UNCHANGED <<pc, gen, actions>>
            \/ pc'[w] \notin {"spawn", "wait", "complete", "clean", "reap"}
         /\ gen'[w] \in {gen[w], generation}
         /\ \A x \in Workers \ {w} : UNCHANGED <<pc[x], gen[x], actions[x]>>
<1>1. UNCHANGED <<generation, held, pressed, proc, script, todo, lost>>
  BY DEF Moves, Asks, AgentReleases, Input, HumanClaims, ReadGeneration, ExtendLease,
     CheckActive, SpawnCancelled, PickVictim, Return, state
<1>2. /\ pc[w] \notin {"wait", "reap", "complete"}
      /\ pc[w] = "clean" => todo[w] = {}
  BY DEF Moves, Asks, AgentReleases, Input, HumanClaims, ReadGeneration, ExtendLease,
     CheckActive, SpawnCancelled, PickVictim, Return
<1>3. /\ \/ UNCHANGED pc /\ UNCHANGED <<gen, actions>>
         \/ \E l \in {"bump", "generation", "extend", "check", "mark", "failed", "stop", "idle"} :
              pc' = [pc EXCEPT ![w] = l]
      /\ gen' = gen \/ gen' = [gen EXCEPT ![w] = generation]
      /\ \/ actions' = actions
         \/ \E b : actions' = [actions EXCEPT ![w] = b]
  <2>1. ASSUME Asks(w) PROVE <1>3!:
    BY <2>1 DEF Asks, AgentReleases, Input, HumanClaims, Goto
  <2>2. ASSUME ReadGeneration(w) \/ SpawnCancelled(w) \/ PickVictim(w) PROVE <1>3!:
    BY <2>2 DEF ReadGeneration, SpawnCancelled, PickVictim, Goto
  <2>3. ASSUME ExtendLease(w) \/ CheckActive(w) \/ Return(w) PROVE <1>3!:
    BY <2>3 DEF ExtendLease, CheckActive, Return, Answer, Goto
  <2> QED
    BY <2>1, <2>2, <2>3 DEF Moves
<1> QED
  BY <1>1, <1>2, <1>3, TypeParts DEF ThreadsOK

\* A step of one thread does no more to another than to end its process.
LEMMA OthersStay ==
  ASSUME TypeOK, NEW w \in Workers, NEW x \in Workers, x # w,
         Moves(w) \/ Thread(w) \/ Process(w) \/ ProcessFails(w)
  PROVE  /\ UNCHANGED <<pc[x], gen[x], actions[x], script[x], todo[x]>>
         /\ proc'[x] = proc[x] \/ (proc[x] = "running" /\ proc'[x] = "died")
         /\ generation' \in {generation, generation + 1}
<1> USE TypeParts DEF ThreadsOK
<1>1. CASE Moves(w)
  BY <1>1, MovesFacts
<1>2. CASE MarkHeld(w) \/ Bump(w) \/ TakeHeld(w)
  BY <1>2 DEF MarkHeld, Bump, TakeHeld, Goto
<1>3. CASE Spawn(w)
  BY <1>3 DEF Spawn, Goto
<1>4. CASE \E item \in Items : SpawnCleanup(w, item)
  BY <1>4 DEF SpawnCleanup, Goto
<1>5. CASE CommandReturns(w) \/ CleanupReturns(w)
  BY <1>5 DEF CommandReturns, CleanupReturns, Reap, Goto
<1>6. CASE Complete(w)
  BY <1>6 DEF Complete, Answer, Goto
<1>7. CASE StopVictim(w)
  BY <1>7 DEF StopVictim, Goto, state
<1>8. CASE Process(w) \/ ProcessFails(w)
  BY <1>8 DEF Process, XEvent, ProcessExits, ProcessFails, state
<1> QED
  BY <1>1, <1>2, <1>3, <1>4, <1>5, <1>6, <1>7, <1>8 DEF Thread, Moves

\* What is left of the script of a command, one event later.
LEMMA LeftFacts ==
  ASSUME NEW a \in Actions, NEW s \in LeftOf(a), s # <<>>
  PROVE  /\ Tail(s) \in LeftOf(a)
         /\ Head(s) = Down(a.item)
              => a.kind \in {"down", "hold", "tap"} /\ (Tail(s) # <<>> \/ a.kind = "down")
         /\ Head(s) \in {Down(a.item), Up(a.item)}
         /\ Head(s) = Up(a.item) => Tail(s) = <<>>
<1>1. /\ a.item \in Items /\ a.kind \in {"down", "up", "hold", "tap", "plain"}
      /\ Down(a.item) # Up(a.item)
  BY EventFacts DEF Actions
<1>2. \/ s = <<Down(a.item)>> /\ a.kind = "down"
      \/ s = <<Up(a.item)>> /\ a.kind # "down"
      \/ s = <<Down(a.item), Up(a.item)>> /\ a.kind \in {"hold", "tap"}
  BY DEF LeftOf
<1>3. CASE s = <<Down(a.item)>> /\ a.kind = "down"
  BY <1>1, <1>3, EventFacts DEF LeftOf
<1>4. CASE s = <<Up(a.item)>> /\ a.kind # "down"
  BY <1>1, <1>4, EventFacts DEF LeftOf
<1>5. CASE s = <<Down(a.item), Up(a.item)>> /\ a.kind \in {"hold", "tap"}
  BY <1>1, <1>5, EventFacts DEF LeftOf
<1> QED
  BY <1>2, <1>3, <1>4, <1>5

LEMMA InitScripts == Init => ScriptsInv
BY DEF Init, ScriptsInv, ScriptOK

LEMMA StepScripts == TypeOK /\ ScriptsInv /\ [Next]_vars => ScriptsInv'
<1> SUFFICES ASSUME TypeOK, ScriptsInv, [Next]_vars PROVE ScriptsInv'
  OBVIOUS
<1>t. /\ ThreadsOK /\ PlacesOK /\ generation \in Nat /\ \A w \in Workers : gen[w] \in Nat
      /\ \A w \in Workers : pc[w] \in Batch \cup {"reap"} => Head(actions[w]) \in Actions
  BY TypeParts, BatchFacts DEF SharedOK, ThreadsOK, PlacesOK
<1>1. CASE Elsewhere
  BY <1>1, ElsewhereFacts DEF thread, ScriptsInv, ScriptOK
<1>2. ASSUME NEW w \in Workers, Moves(w) \/ Thread(w) \/ Process(w) \/ ProcessFails(w)
      PROVE  ScriptsInv'
  <2>1. ASSUME NEW x \in Workers, x # w PROVE ScriptOK(x)'
    <3>1. /\ UNCHANGED <<pc[x], gen[x], actions[x], script[x], todo[x]>>
          /\ proc'[x] = proc[x] \/ (proc[x] = "running" /\ proc'[x] = "died")
          /\ generation' \in {generation, generation + 1}
      BY <1>2, <2>1, OthersStay
    <3>2. ScriptOK(x)
      BY DEF ScriptsInv
    <3> QED
      BY <3>1, <3>2, <1>t DEF ScriptOK
  <2>2. ScriptOK(w)'
    <3>0. ScriptOK(w)
      BY DEF ScriptsInv
    <3> USE DEF ThreadsOK, Goto
    <3>1. CASE Moves(w)
      <4>1. /\ UNCHANGED <<generation, proc, script, todo>>
            /\ gen'[w] \in {gen[w], generation}
            /\ pc[w] = "clean" => todo[w] = {}
            /\ pc[w] \notin {"wait", "reap"} /\ pc'[w] \notin {"wait", "reap"}
        BY <3>1, MovesFacts
      <4>2. todo[w] = {} /\ proc[w] = "none"
        BY <3>0, <4>1, <1>t DEF ScriptOK, PlacesOK
      <4>3. gen'[w] <= generation
        BY <3>0, <4>1, <1>t DEF ScriptOK
      <4> QED
        BY <4>1, <4>2, <4>3 DEF ScriptOK
    <3>2. CASE MarkHeld(w)
      BY <3>0, <3>2, <1>t DEF MarkHeld, ScriptOK, PlacesOK
    <3>3. CASE Bump(w)
      BY <3>0, <3>3, <1>t DEF Bump, ScriptOK, PlacesOK
    <3>4. CASE TakeHeld(w)
      BY <3>0, <3>4, <1>t DEF TakeHeld, ScriptOK, PlacesOK
    <3>5. CASE Spawn(w)
      <4>1. /\ pc[w] = "spawn" /\ pc'[w] = "wait" /\ proc'[w] = "running"
            /\ script'[w] = ScriptOf(Head(actions[w]))
            /\ UNCHANGED <<generation, gen, actions, todo>>
        BY <3>5, <1>t DEF Spawn
      <4>2. ScriptOf(Head(actions[w])) \in LeftOf(Head(actions[w]))
        BY <4>1, <1>t, ScriptFacts DEF Batch
      <4> QED
        BY <3>0, <4>1, <4>2 DEF ScriptOK
    <3>6. ASSUME NEW item \in Items, SpawnCleanup(w, item) PROVE ScriptOK(w)'
      <4> DEFINE a == [kind |-> "up", item |-> item]
      <4>1. /\ pc'[w] = "reap" /\ proc'[w] = "running"
            /\ script'[w] = CleanupScript(item) /\ actions'[w] = <<a>>
            /\ UNCHANGED <<generation, gen>>
        BY <3>6, <1>t DEF SpawnCleanup
      <4>2. Head(actions'[w]).item = item
        BY <4>1
      <4>3. CleanupScript(item) \in {<<>>, <<Up(item)>>}
        BY DEF CleanupScript, Up
      <4> QED
        BY <3>0, <4>1, <4>2, <4>3 DEF ScriptOK
    <3>7. CASE CommandReturns(w) \/ CleanupReturns(w)
      <4>1. /\ pc[w] = "wait" \/ pc'[w] = "clean"
            /\ pc'[w] \in {"complete", "failed", "clean"} /\ proc'[w] = "none"
            /\ UNCHANGED <<generation, gen, todo>>
        BY <3>7, <1>t DEF CommandReturns, CleanupReturns, Reap
      <4> QED
        BY <3>0, <4>1 DEF ScriptOK
    <3>8. CASE Complete(w)
      <4>1. /\ pc[w] = "complete" /\ pc'[w] \in {"idle", "extend"}
            /\ UNCHANGED <<generation, gen, proc, script, todo>>
        BY <3>8, <1>t DEF Complete, Answer
      <4> QED
        BY <3>0, <4>1 DEF ScriptOK
    <3>9. CASE StopVictim(w)
      <4>1. /\ pc[w] = "stop" /\ pc'[w] = "sweep" /\ proc'[w] \in {proc[w], "died"}
            /\ UNCHANGED <<generation, gen, script, todo>>
        BY <3>9, <1>t DEF StopVictim, state
      <4> QED
        BY <3>0, <4>1, <1>t DEF ScriptOK, PlacesOK
    <3>10. CASE XEvent(w)
      <4>1. /\ proc[w] = "running" /\ script[w] # <<>> /\ script'[w] = Tail(script[w])
            /\ UNCHANGED <<pc, proc, actions, generation, gen, todo>>
        BY <3>10, <1>t DEF XEvent
      <4>2. pc[w] = "wait" => Tail(script[w]) \in LeftOf(Head(actions[w]))
        BY <3>0, <4>1, <1>t, LeftFacts DEF ScriptOK, Batch
      <4>3. pc[w] = "reap" => Tail(script[w]) = <<>>
        <5>1. pc[w] = "reap" => Head(actions[w]).item \in Items
          BY <1>t DEF Actions
        <5> QED
          BY <3>0, <4>1, <5>1, EventFacts DEF ScriptOK
      <4> QED
        BY <3>0, <4>1, <4>2, <4>3 DEF ScriptOK
    <3>11. CASE ProcessExits(w) \/ ProcessFails(w)
      <4>1. /\ UNCHANGED <<pc, script, actions, generation, gen, todo>>
            /\ proc'[w] = "exited" => script[w] = <<>>
        BY <3>11, <1>t DEF ProcessExits, ProcessFails, state
      <4> QED
        BY <3>0, <4>1 DEF ScriptOK
    <3> QED
      BY <1>2, <3>1, <3>2, <3>3, <3>4, <3>5, <3>6, <3>7, <3>8, <3>9, <3>10, <3>11
         DEF Thread, Process, Moves
  <2> QED
    BY <2>1, <2>2 DEF ScriptsInv
<1> QED
  BY <1>1, <1>2 DEF Next, Client, Elsewhere, Moves, Asks

LEMMA InitTrack == Init => TrackInv
BY DEF Init, TrackInv, HeldFirst, LetGo, SomebodyHas, Working, CommandRuns

\* What a step of one thread leaves to the others.
LEMMA OthersKeep ==
  ASSUME TypeOK, ScriptsInv, NEW w \in Workers, NEW x \in Workers, x # w,
         Moves(w) \/ Thread(w) \/ Process(w) \/ ProcessFails(w)
  PROVE  /\ Working(x)' => Working(x)
         /\ \A item : Carries(x, item) => Carries(x, item)'
         /\ UNCHANGED <<pc[x], actions[x], script[x], todo[x]>>
<1>1. /\ UNCHANGED <<pc[x], gen[x], actions[x], script[x], todo[x]>>
      /\ proc'[x] = proc[x] \/ (proc[x] = "running" /\ proc'[x] = "died")
      /\ generation' \in {generation, generation + 1}
  BY OthersStay
<1>2. gen[x] <= generation /\ gen[x] \in Nat /\ generation \in Nat
  BY TypeParts DEF ScriptsInv, ScriptOK, ThreadsOK, SharedOK
<1>3. Cancelled(x) => Cancelled(x)'
  BY <1>1, <1>2 DEF Cancelled
<1>4. Working(x)' => Working(x)
  BY <1>1, <1>3 DEF Working, CommandRuns
<1>5. \A item : Carries(x, item) => Carries(x, item)'
  BY <1>1 DEF Carries, Tapping
<1> QED
  BY <1>1, <1>4, <1>5

\* An item is held before anything presses it.
LEMMA StepHeldFirst ==
  ASSUME TypeOK, ScriptsInv, OneAction, HeldFirst, ~crossed',
         NEW w \in Workers, Moves(w) \/ Thread(w) \/ Process(w) \/ ProcessFails(w)
  PROVE  HeldFirst'
<1>t. ThreadsOK /\ PlacesOK
  BY TypeParts
<1> USE DEF ThreadsOK, Goto
<1>1. CASE MarkHeld(w)
  <2>1. /\ pc'[w] = "spawn" /\ UNCHANGED actions /\ held \subseteq held'
        /\ Head(actions[w]).kind \in Tracked => Head(actions[w]).item \in held'
    BY <1>1, <1>t DEF MarkHeld
  <2> QED
    BY <2>1, OthersKeep DEF HeldFirst
<1>2. CASE ~MarkHeld(w)
  <2>1. Working(w)' => Working(w) /\ actions'[w] = actions[w]
    <3>1. CASE Moves(w)
      BY <3>1, <1>t, MovesFacts DEF Working, CommandRuns, Cancelled
    <3>2. CASE Spawn(w)
      BY <3>2, <1>t DEF Spawn, Working, Cancelled
    <3>3. CASE Process(w) \/ ProcessFails(w)
      BY <3>3, <1>t DEF Process, XEvent, ProcessExits, ProcessFails, state, Working, CommandRuns,
         Cancelled
    <3>4. CASE \/ Bump(w) \/ StopVictim(w) \/ TakeHeld(w)
               \/ \E item \in Items : SpawnCleanup(w, item)
      BY <3>4, <1>t DEF Bump, StopVictim, TakeHeld, SpawnCleanup, Working, CommandRuns
    <3>5. CASE CommandReturns(w) \/ CleanupReturns(w) \/ Complete(w)
      BY <3>5, <1>t DEF CommandReturns, CleanupReturns, Reap, Complete, Answer, Working,
         CommandRuns
    <3> QED
      BY <1>2, <3>1, <3>2, <3>3, <3>4, <3>5 DEF Thread, Moves
  <2>2. CASE held \subseteq held'
    BY <2>1, <2>2, OthersKeep DEF HeldFirst
  <2>3. CASE Complete(w)
    <3>1. pc[w] = "complete" /\ pc'[w] \notin {"spawn", "wait"}
      BY <2>3, <1>t DEF Complete, Answer
    <3>2. \A x \in Workers : ~Working(x)'
      BY <3>1, OthersKeep DEF OneAction, InAction, Working, CommandRuns
    <3> QED
      BY <3>2 DEF HeldFirst
  <2>4. CASE TakeHeld(w)
    <3>1. /\ pc'[w] \notin {"spawn", "wait"}
          /\ \A x \in Workers \ {w} : ~Working(x)
      BY <2>4, <1>t DEF TakeHeld
    <3>2. \A x \in Workers : ~Working(x)'
      BY <3>1, OthersKeep DEF Working, CommandRuns
    <3> QED
      BY <3>2 DEF HeldFirst
  <2>5. ~Complete(w) /\ ~TakeHeld(w) => held' = held
    <3>1. CASE Moves(w)
      BY <3>1, MovesFacts
    <3>2. CASE Spawn(w) \/ Bump(w) \/ StopVictim(w) \/ \E item \in Items : SpawnCleanup(w, item)
      BY <3>2 DEF Spawn, Bump, StopVictim, SpawnCleanup, state
    <3>3. CASE CommandReturns(w) \/ CleanupReturns(w) \/ Process(w) \/ ProcessFails(w)
      BY <3>3 DEF CommandReturns, CleanupReturns, Process, XEvent, ProcessExits, ProcessFails,
         state
    <3> QED
      BY <1>2, <3>1, <3>2, <3>3 DEF Thread, Moves
  <2> QED
    BY <2>2, <2>3, <2>4, <2>5
<1> QED
  BY <1>1, <1>2

\* What the events of a process are about.
LEMMA NextEvent ==
  ASSUME TypeOK, ScriptsInv, NEW w \in Workers, XEvent(w)
  PROVE  LET a == Head(actions[w])
             e == Head(script[w])
         IN  /\ a \in Actions /\ a.item \in Items
             /\ (pc[w] \in {"wait", "reap"} /\ CommandRuns(w)) \/ pc[w] = "reap"
             /\ \/ /\ e = Down(a.item) /\ pressed' = pressed \cup {a.item}
                   /\ pc[w] = "wait" /\ a.kind \in {"down", "hold", "tap"}
                   /\ script'[w] # <<>> \/ a.kind = "down"
                \/ pressed' = pressed \ {a.item}
             /\ UNCHANGED <<pc, proc, actions, held, lost, todo>>
<1> DEFINE a == Head(actions[w])
           e == Head(script[w])
<1>t. ThreadsOK /\ PlacesOK /\ ScriptOK(w)
  BY TypeParts DEF ScriptsInv
<1>1. /\ proc[w] = "running" /\ script[w] # <<>> /\ script'[w] = Tail(script[w])
      /\ pressed' = IF e.press THEN pressed \cup {e.item} ELSE pressed \ {e.item}
      /\ UNCHANGED <<pc, proc, actions, held, lost, todo>>
  BY <1>t DEF XEvent, ThreadsOK
<1>2. pc[w] \in {"wait", "reap"}
  BY <1>1, <1>t DEF PlacesOK
<1>3. a \in Actions /\ a.item \in Items
  BY <1>2, <1>t, BatchFacts DEF PlacesOK, Batch
<1>4. CASE pc[w] = "wait"
  <2>1. script[w] \in LeftOf(a)
    BY <1>4, <1>t DEF ScriptOK
  <2>2. /\ e \in {Down(a.item), Up(a.item)}
        /\ e = Down(a.item)
             => a.kind \in {"down", "hold", "tap"} /\ (Tail(script[w]) # <<>> \/ a.kind = "down")
    BY <1>1, <1>3, <2>1, LeftFacts
  <2> QED
    BY <1>1, <1>2, <1>3, <1>4, <2>2, EventFacts DEF CommandRuns
<1>5. CASE pc[w] = "reap"
  <2>1. e = Up(a.item)
    BY <1>1, <1>3, <1>5, <1>t, EventFacts DEF ScriptOK
  <2> QED
    BY <1>1, <1>2, <1>3, <1>5, <2>1, EventFacts
<1> QED
  BY <1>2, <1>4, <1>5

\* An item that a command let go of is pressed by nobody until it is forgotten.
LEMMA StepLetGo ==
  ASSUME TypeOK, ScriptsInv, OneAction, LetGo,
         NEW w \in Workers, Moves(w) \/ Thread(w) \/ Process(w) \/ ProcessFails(w)
  PROVE  LetGo'
<1>t. ThreadsOK /\ PlacesOK /\ ScriptOK(w)
  BY TypeParts DEF ScriptsInv
<1> USE DEF ThreadsOK, Goto
<1>1. CASE XEvent(w)
  <2> DEFINE a == Head(actions[w])
  <2>1. /\ a \in Actions /\ a.item \in Items /\ UNCHANGED <<pc, proc, actions>>
        /\ pc[w] \in {"wait", "reap"}
        /\ \/ /\ pressed' = pressed \cup {a.item}
              /\ pc[w] = "wait" /\ a.kind \in {"down", "hold", "tap"}
              /\ script'[w] # <<>> \/ a.kind = "down"
           \/ pressed' = pressed \ {a.item}
    BY <1>1, NextEvent
  <2>2. ASSUME NEW x \in Workers, x # w,
               (pc[x] = "wait" /\ script'[x] = <<>>) \/ pc[x] = "complete",
               Head(actions[x]).kind \in {"up", "hold"}
        PROVE  Head(actions[x]).item \notin pressed'
    <3>1. script'[x] = script[x]
      BY <1>1, <2>2, OthersKeep DEF Process
    <3>2. Head(actions[x]).item \notin pressed
      BY <2>2, <3>1 DEF LetGo
    <3>3. pc[w] # "wait"
      BY <2>2 DEF OneAction, InAction
    <3> QED
      BY <2>1, <3>2, <3>3
  <2>3. ASSUME (pc[w] = "wait" /\ script'[w] = <<>>) \/ pc[w] = "complete",
               a.kind \in {"up", "hold"}
        PROVE  a.item \notin pressed'
    BY <2>1, <2>3
  <2> QED
    BY <2>1, <2>2, <2>3 DEF LetGo
<1>2. CASE ~XEvent(w)
  <2>1. pressed' = pressed
    <3>1. CASE Moves(w)
      BY <3>1, MovesFacts
    <3>2. CASE \/ MarkHeld(w) \/ Spawn(w) \/ Bump(w) \/ StopVictim(w) \/ TakeHeld(w)
               \/ \E item \in Items : SpawnCleanup(w, item)
      BY <3>2 DEF MarkHeld, Spawn, Bump, StopVictim, TakeHeld, SpawnCleanup, state
    <3>3. CASE \/ CommandReturns(w) \/ CleanupReturns(w) \/ Complete(w)
               \/ ProcessExits(w) \/ ProcessFails(w)
      BY <3>3 DEF CommandReturns, CleanupReturns, Reap, Complete, ProcessExits, ProcessFails, state
    <3> QED
      BY <1>2, <3>1, <3>2, <3>3 DEF Thread, Process, Moves
  <2>2. ASSUME NEW x \in Workers, x # w,
               (pc'[x] = "wait" /\ script'[x] = <<>>) \/ pc'[x] = "complete",
               Head(actions'[x]).kind \in {"up", "hold"}
        PROVE  Head(actions'[x]).item \notin pressed
    BY <2>2, OthersKeep DEF LetGo
  <2>3. ASSUME (pc'[w] = "wait" /\ script'[w] = <<>>) \/ pc'[w] = "complete",
               Head(actions'[w]).kind \in {"up", "hold"}
        PROVE  Head(actions'[w]).item \notin pressed
    <3>1. CASE Spawn(w)
      <4>1. /\ pc[w] = "spawn" /\ pc'[w] = "wait" /\ actions' = actions
            /\ script'[w] = ScriptOf(Head(actions[w]))
        BY <3>1, <1>t DEF Spawn
      <4>2. Head(actions[w]) \in Actions
        BY <4>1, <1>t, BatchFacts DEF PlacesOK, Batch
      <4> QED
        BY <2>3, <4>1, <4>2, ScriptFacts
    <3>2. CASE ~Spawn(w)
      <4>1. /\ (pc[w] = "wait" /\ script[w] = <<>>) \/ pc[w] = "complete"
            /\ actions'[w] = actions[w]
        <5>1. CASE Moves(w)
          BY <2>3, <5>1, MovesFacts
        <5>2. CASE ProcessExits(w) \/ ProcessFails(w)
          BY <2>3, <5>2 DEF ProcessExits, ProcessFails
        <5>3. CASE CommandReturns(w)
          BY <2>3, <5>3, <1>t DEF CommandReturns, Reap, ScriptOK
        <5>4. CASE CleanupReturns(w) \/ Complete(w)
          BY <2>3, <5>4, <1>t DEF CleanupReturns, Reap, Complete, Answer
        <5>5. CASE \/ MarkHeld(w) \/ Bump(w) \/ StopVictim(w) \/ TakeHeld(w)
                   \/ \E item \in Items : SpawnCleanup(w, item)
          BY <2>3, <5>5, <1>t DEF MarkHeld, Bump, StopVictim, TakeHeld, SpawnCleanup
        <5> QED
          BY <1>2, <3>2, <5>1, <5>2, <5>3, <5>4, <5>5 DEF Thread, Process, Moves
      <4> QED
        BY <2>3, <4>1 DEF LetGo
    <3> QED
      BY <3>1, <3>2
  <2> QED
    BY <2>1, <2>2, <2>3 DEF LetGo
<1> QED
  BY <1>1, <1>2

\* No step makes the last one who knows of a pressed item forget it.
LEMMA StepSomebodyHas ==
  ASSUME TypeOK, ScriptsInv, HeldFirst, LetGo, SomebodyHas,
         NEW w \in Workers, Moves(w) \/ Thread(w) \/ Process(w) \/ ProcessFails(w)
  PROVE  SomebodyHas'
<1>t. ThreadsOK /\ PlacesOK /\ ScriptOK(w)
  BY TypeParts DEF ScriptsInv
<1> USE DEF ThreadsOK, Goto
<1> SUFFICES ASSUME NEW item \in pressed' \ Aliased
             PROVE  \/ item \in held' \cup lost'
                    \/ \E x \in Workers : item \in todo'[x] \/ Carries(x, item)'
  BY DEF SomebodyHas
<1>o. ASSUME NEW x \in Workers, x # w, item \in todo[x] \/ Carries(x, item)
      PROVE  item \in todo'[x] \/ Carries(x, item)'
  BY <1>o, OthersKeep
<1>i. item \in pressed => item \in held \cup lost \/ \E x \in Workers : item \in todo[x] \/ Carries(x, item)
  BY DEF SomebodyHas
\* All that remains is what the thread itself knew.
<1>r. SUFFICES /\ item \in pressed /\ item \in held \cup lost
                    => item \in held' \cup lost' \/ item \in todo'[w]
               /\ item \in pressed /\ (item \in todo[w] \/ Carries(w, item))
                    => item \in held' \cup lost' \cup todo'[w] \/ Carries(w, item)'
               /\ item \notin pressed => item \in held' \/ Carries(w, item)'
  BY <1>o, <1>i
<1>1. CASE XEvent(w)
  <2> DEFINE a == Head(actions[w])
  <2>1. /\ a \in Actions /\ a.item \in Items
        /\ UNCHANGED <<pc, proc, actions, held, lost, todo>>
        /\ CommandRuns(w) \/ pc[w] = "reap"
        /\ \/ /\ pressed' = pressed \cup {a.item}
              /\ pc[w] = "wait" /\ a.kind \in {"down", "hold", "tap"}
              /\ script'[w] # <<>> \/ a.kind = "down"
           \/ pressed' = pressed \ {a.item}
    BY <1>1, NextEvent
  <2>2. CASE pressed' = pressed \ {a.item}
    BY <2>1, <2>2 DEF Carries
  <2>3. CASE /\ pressed' = pressed \cup {a.item}
             /\ pc[w] = "wait" /\ a.kind \in {"down", "hold", "tap"}
             /\ script'[w] # <<>> \/ a.kind = "down"
    <3>1. a.kind \in {"down", "hold"} => a.item \in held
      BY <2>1, <2>3 DEF HeldFirst, Working, Tracked
    <3>2. a.kind = "tap" => Carries(w, a.item)'
      BY <2>1, <2>3 DEF Carries, Tapping
    <3>3. Carries(w, item) => item = a.item /\ a.kind = "tap"
      BY <2>3 DEF Carries, Tapping
    <3> QED
      BY <2>1, <2>3, <3>1, <3>2, <3>3
  <2> QED
    BY <2>1, <2>2, <2>3
<1>2. CASE Moves(w)
  BY <1>2, MovesFacts DEF Carries, Tapping
<1>3. CASE MarkHeld(w) \/ Spawn(w) \/ Bump(w) \/ StopVictim(w)
  BY <1>3, <1>t DEF MarkHeld, Spawn, Bump, StopVictim, state, Carries, Tapping
<1>4. CASE TakeHeld(w)
  <2>1. /\ pc[w] \in {"sweep", "failed"} /\ todo'[w] = held
        /\ UNCHANGED <<lost, pressed>>
    BY <1>4, <1>t DEF TakeHeld
  <2>2. todo[w] = {} /\ ~Carries(w, item)
    BY <2>1, <1>t DEF ScriptOK, Carries, Tapping
  <2> QED
    BY <2>1, <2>2
<1>5. CASE \E i \in Items : SpawnCleanup(w, i)
  <2> PICK i \in Items : SpawnCleanup(w, i)
    BY <1>5
  <2> DEFINE a == [kind |-> "up", item |-> i]
  <2>1. /\ pc[w] = "clean" /\ pc'[w] = "reap" /\ todo'[w] = todo[w] \ {i}
        /\ script'[w] = CleanupScript(i) /\ actions'[w] = <<a>>
        /\ UNCHANGED <<held, lost, pressed>>
    BY <1>t DEF SpawnCleanup
  <2>2. ~Carries(w, item)
    BY <2>1 DEF Carries, Tapping
  <2>3. item = i => Carries(w, item)'
    <3>1. Head(actions'[w]).item = i
      BY <2>1
    <3>2. item = i => script'[w] = <<Up(i)>>
      BY <2>1 DEF CleanupScript, Up
    <3> QED
      BY <2>1, <3>1, <3>2, EventFacts DEF Carries
  <2> QED
    BY <2>1, <2>2, <2>3
<1>6. CASE CommandReturns(w) \/ CleanupReturns(w)
  <2>1. /\ UNCHANGED <<held, pressed, todo>> /\ lost \subseteq lost'
        /\ proc[w] \in {"exited", "died"}
        /\ proc[w] = "died" /\ (pc[w] = "reap" \/ Tapping(w))
             => Head(actions[w]).item \in lost'
    BY <1>6, <1>t DEF CommandReturns, CleanupReturns, Reap, Tapping
  <2>2. Carries(w, item) => item \in lost'
    BY <2>1, <1>t DEF Carries, ScriptOK
  <2> QED
    BY <2>1, <2>2
<1>7. CASE Complete(w)
  <2> DEFINE a == Head(actions[w])
  <2>1. /\ pc[w] = "complete" /\ UNCHANGED <<lost, pressed, todo>>
        /\ held' = IF a.kind \in {"up", "hold"} THEN held \ {a.item} ELSE held
    BY <1>7 DEF Complete
  <2>2. a.kind \in {"up", "hold"} => item # a.item
    BY <2>1 DEF LetGo
  <2>3. ~Carries(w, item)
    BY <2>1 DEF Carries, Tapping
  <2> QED
    BY <2>1, <2>2, <2>3
<1>8. CASE ProcessExits(w) \/ ProcessFails(w)
  BY <1>8 DEF ProcessExits, ProcessFails, state, Carries, Tapping
<1> QED
  BY <1>1, <1>2, <1>3, <1>4, <1>5, <1>6, <1>7, <1>8 DEF Thread, Process, Moves

LEMMA StepTrack == TypeOK /\ ScriptsInv /\ SlotInv /\ TrackInv /\ [Next]_vars => TrackInv'
<1> SUFFICES ASSUME TypeOK, ScriptsInv, SlotInv, TrackInv, [Next]_vars, ~crossed'
             PROVE  HeldFirst' /\ LetGo' /\ SomebodyHas'
  BY DEF TrackInv
<1>1. ~crossed
  BY CrossedForGood
<1>2. OneAction /\ HeldFirst /\ LetGo /\ SomebodyHas
  BY <1>1 DEF SlotInv, TrackInv
<1>3. CASE Elsewhere
  BY <1>2, <1>3, ElsewhereFacts DEF thread, HeldFirst, LetGo, SomebodyHas, Working,
     CommandRuns, Cancelled, Carries, Tapping
<1>4. ASSUME NEW w \in Workers, Moves(w) \/ Thread(w) \/ Process(w) \/ ProcessFails(w)
      PROVE  HeldFirst' /\ LetGo' /\ SomebodyHas'
  BY <1>2, <1>4, StepHeldFirst, StepLetGo, StepSomebodyHas
<1> QED
  BY <1>3, <1>4 DEF Next, Client, Elsewhere, Moves, Asks

\* The controller never forgets a key or button that an agent left down, for
\* any number of threads, keys and preemptions, as long as batches and sweeps
\* have not crossed.
THEOREM PressesStayTracked == Spec => []PressesAreTracked
<1>1. TrackInv => PressesAreTracked
  <2> DEFINE swept == UNION {todo[w] : w \in Workers}
             carried == {Head(actions[w]).item :
                           w \in {x \in Workers : pc[x] = "reap" \/ Tapping(x)}}
  <2> SUFFICES ASSUME SomebodyHas
               PROVE  pressed \ Aliased \subseteq held \cup lost \cup swept \cup carried
    BY DEF TrackInv, PressesAreTracked
  <2>1. \A x \in Workers : todo[x] \subseteq swept
    OBVIOUS
  <2>2. \A x \in Workers : \A item : Carries(x, item) => item \in carried
    BY DEF Carries
  <2> HIDE DEF swept, carried
  <2> QED
    BY <2>1, <2>2 DEF SomebodyHas
<1> QED
  BY <1>1, InitTypeOK, StepTypeOK, InitSlot, StepSlot, InitScripts, StepScripts, InitTrack,
     StepTrack, PTL DEF Spec
-----------------------------------------------------------------------------
(* One operator and one browser.  Each waits for its answers, so one thread *)
(* at most works for each; and since leases do not lapse, the browser holds *)
(* the desktop until its take-over was answered, in which no batch that was *)
(* admitted before goes on and none is admitted.                            *)

OnePair ==
  /\ \A a, b \in Agents : a = b
  /\ \A h, k \in Humans : h = k
  /\ ~Retries /\ "time" \notin Requests

Stopping(w) == client[w] \in Humans /\ pc[w] \in {"cancel", "stop", "sweep"} \cup Sweep

Admitted(w) == pc[w] \in {"check", "mark"} \/ InAction(w)

Placed ==
  \A w \in Workers :
    /\ pc[w] # "idle" => client[w] \in Ids
    /\ pc[w] \in Batch => client[w] \in Agents

OneEach ==
  \A x, y \in Workers :
    pc[x] # "idle" /\ pc[y] # "idle" /\ client[x] = client[y] => x = y

HumanHas ==
  \A w \in Workers : pc[w] # "idle" /\ client[w] \in Humans => Names(lease, client[w])

StoppedAll ==
  \A w, x \in Workers : Stopping(w) /\ Admitted(x) => Cancelled(x)

Lives == Expire(lease) = lease

PairParts == Placed /\ OneEach /\ Lives /\ HumanHas /\ StoppedAll

PairInv == ~crossed /\ PairParts

LEMMA IdFacts ==
  /\ \A a \in Agents : a \in Ids /\ a \notin Humans /\ a # NoId /\ ActorOf(a) = "agent"
  /\ \A h \in Humans : h \in Ids /\ h \notin Agents /\ h # NoId /\ ActorOf(h) = "human"
BY IdAssumption DEF Ids, ActorOf

\* A lease never turns up that a look at it would drop.
LEMMA LivingLeases ==
  /\ Expire(NoLease) = NoLease
  /\ \A id \in Ids : Expire(Grant(id)) = Grant(id) /\ Names(Grant(id), id)
  /\ \A l \in Leases : Expire(Renew(l)) = Renew(l)
<1>1. \A actor : TTL(actor) # 0
  BY TTLAssumption DEF TTL
<1> QED
  BY <1>1 DEF Expire, NoLease, Grant, Names, Renew, Leases

LEMMA InitPair == Init => PairInv
BY LivingLeases DEF Init, PairInv, PairParts, Placed, OneEach, Lives, HumanHas, StoppedAll,
   Stopping, Sweep, Batch

\* What a step of a thread does to the request it handles.
LEMMA RequestFacts ==
  ASSUME TypeOK, NEW w \in Workers, Thread(w) \/ Process(w) \/ ProcessFails(w)
  PROVE  /\ pc[w] # "idle"
         /\ pc'[w] = "idle" \/ client'[w] = client[w]
         /\ \A x \in Workers \ {w} : UNCHANGED <<pc[x], client[x], gen[x]>>
         /\ pc'[w] \in Batch => pc[w] \in Batch
         /\ Admitted(w)' => /\ gen'[w] = gen[w]
                            /\ Admitted(w) \/ (pc[w] = "extend" /\ MayExtend(lease, client[w]))
         /\ pc'[w] \in {"cancel", "stop", "sweep"} \cup Sweep =>
              \/ pc[w] \in {"cancel", "stop", "sweep", "failed"} \cup Sweep
              \/ pc[w] = "bump" /\ generation' = generation + 1
         /\ \/ lease' \in {lease, Expire(lease)}
            \/ pc[w] = "extend" /\ MayExtend(lease, client[w]) /\ lease' = Renew(lease)
         /\ generation' \in {generation, generation + 1}
<1> USE TypeParts DEF ThreadsOK, Batch, Sweep, Admitted, InAction, Goto
<1>1. CASE ReadGeneration(w)
  BY <1>1 DEF ReadGeneration, state
<1>2. CASE ExtendLease(w)
  BY <1>2 DEF ExtendLease, Answer
<1>3. CASE CheckActive(w)
  BY <1>3 DEF CheckActive, Answer, state
<1>4. CASE MarkHeld(w)
  BY <1>4 DEF MarkHeld
<1>5. CASE Spawn(w)
  BY <1>5 DEF Spawn
<1>6. CASE SpawnCancelled(w)
  BY <1>6 DEF SpawnCancelled, state
<1>7. CASE CommandReturns(w)
  BY <1>7 DEF CommandReturns, Reap
<1>8. CASE Complete(w)
  BY <1>8 DEF Complete, Answer
<1>9. CASE Bump(w)
  BY <1>9 DEF Bump
<1>10. CASE PickVictim(w)
  BY <1>10 DEF PickVictim, state
<1>11. CASE StopVictim(w)
  BY <1>11 DEF StopVictim, state
<1>12. CASE TakeHeld(w)
  BY <1>12 DEF TakeHeld
<1>13. CASE \E item \in Items : SpawnCleanup(w, item)
  BY <1>13 DEF SpawnCleanup
<1>14. CASE CleanupReturns(w)
  BY <1>14 DEF CleanupReturns, Reap
<1>15. CASE Return(w)
  BY <1>15 DEF Return, Answer, state
<1>16. CASE Process(w) \/ ProcessFails(w)
  <2>1. proc[w] = "running" /\ UNCHANGED <<lease, generation, pc, client, gen>>
    BY <1>16 DEF Process, XEvent, ProcessExits, ProcessFails, state
  <2>2. pc[w] # "idle"
    BY <2>1 DEF PlacesOK
  <2> QED
    BY <2>1, <2>2
<1> QED
  BY <1>1, <1>2, <1>3, <1>4, <1>5, <1>6, <1>7, <1>8, <1>9, <1>10, <1>11, <1>12, <1>13,
     <1>14, <1>15, <1>16 DEF Thread

\* While a take-over sweeps, no command of a batch runs and none may start.
LEMMA SweepsAlone ==
  ASSUME OnePair, TypeOK, SlotInv, PairInv, NEW w \in Workers, NEW x \in Workers, x # w,
         pc[w] \in {"sweep", "failed", "clean"}
  PROVE  ~Working(x) /\ ~CommandRuns(x)
<1> SUFFICES ASSUME Working(x) \/ CommandRuns(x) PROVE FALSE
  OBVIOUS
<1>1. pc[x] \in {"spawn", "wait"} /\ client[x] \in Agents /\ Admitted(x)
  BY DEF Working, CommandRuns, PairInv, PairParts, Placed, Batch, Admitted, InAction
<1>2. client[w] \in Humans
  <2>1. client[w] \notin Agents
    BY <1>1 DEF PairInv, PairParts, OneEach, OnePair
  <2> QED
    BY <2>1 DEF PairInv, PairParts, Placed, Ids
<1>3. Stopping(w) /\ pc[w] # "failed"
  BY <1>2, IdFacts DEF PairInv, PairParts, Placed, Batch, Stopping, Sweep
<1>4. Cancelled(x) /\ CommandRuns(x)
  BY <1>1, <1>3 DEF PairInv, PairParts, StoppedAll, Working
<1>5. PICK p \in Workers : pc[p] \in {"cancel", "stop"}
  BY <1>4 DEF SlotInv, PairInv, PairParts, BeingStopped
<1>6. p # w /\ p # x
  BY <1>1, <1>5
<1>7. client[p] \in Ids /\ client[p] # client[w] /\ client[p] # client[x]
  BY <1>1, <1>5, <1>6 DEF PairInv, PairParts, Placed, OneEach
<1> QED
  BY <1>1, <1>2, <1>7 DEF OnePair, Ids

LEMMA StaysUncrossed ==
  ASSUME OnePair, TypeOK, SlotInv, PairInv, [Next]_vars
  PROVE  ~crossed'
<1>u. ~crossed
  BY DEF PairInv, PairParts
<1>1. CASE UNCHANGED vars
  BY <1>1, <1>u DEF vars
<1>2. CASE Client \/ Time
  BY <1>2, <1>u DEF Client, Time, AgentClaims, HumanReleases, AgentReleases, Input, HumanClaims
<1>3. ASSUME NEW w \in Workers, MarkHeld(w) PROVE ~crossed'
  <2>1. \A x \in Workers : InAction(x) \/ x = w => client[x] \in Agents /\ pc[x] # "idle"
    BY <1>3 DEF MarkHeld, InAction, PairInv, PairParts, Placed, Batch
  <2>2. \A x \in Workers \ {w} : ~InAction(x)
    BY <2>1 DEF PairInv, PairParts, OneEach, OnePair
  <2> QED
    BY <1>3, <1>u, <2>2 DEF MarkHeld
<1>4. ASSUME NEW w \in Workers, TakeHeld(w) PROVE ~crossed'
  <2>1. \A x \in Workers \ {w} : ~Working(x)
    BY <1>4, SweepsAlone DEF TakeHeld
  <2> QED
    BY <1>4, <1>u, <2>1 DEF TakeHeld
<1>5. ASSUME NEW w \in Workers, NEW item \in Items, SpawnCleanup(w, item) PROVE ~crossed'
  <2>1. \A x \in Workers \ {w} : ~CommandRuns(x)
    BY <1>5, SweepsAlone DEF SpawnCleanup
  <2> QED
    BY <1>5, <1>u, <2>1 DEF SpawnCleanup
<1>6. ASSUME NEW w \in Workers,
             \/ ReadGeneration(w) \/ ExtendLease(w) \/ CheckActive(w) \/ Spawn(w)
             \/ SpawnCancelled(w) \/ CommandReturns(w) \/ Complete(w) \/ Bump(w)
             \/ PickVictim(w) \/ StopVictim(w) \/ CleanupReturns(w) \/ Return(w)
      PROVE  ~crossed'
  BY <1>6, <1>u DEF ReadGeneration, ExtendLease, CheckActive, Spawn, SpawnCancelled,
     CommandReturns, Reap, Complete, Bump, PickVictim, StopVictim, CleanupReturns, Return
<1>7. ASSUME NEW w \in Workers, Process(w) \/ ProcessFails(w) PROVE ~crossed'
  BY <1>7, <1>u DEF Process, XEvent, ProcessExits, ProcessFails
<1> QED
  BY <1>1, <1>2, <1>3, <1>4, <1>5, <1>6, <1>7 DEF Next, Thread
\* Only the lease changes hands: nobody who waits for an answer is involved.
LEMMA PairAsks ==
  ASSUME OnePair, TypeOK, PairInv, NEW id \in Ids, ~Waiting(id),
         UNCHANGED <<generation, gen>>,
         \/ UNCHANGED <<pc, client>>
         \/ /\ Holds(lease, id) \/ id \in Humans
            /\ \E w \in Workers :
                 /\ pc[w] = "idle" /\ client' = [client EXCEPT ![w] = id]
                 /\ \/ pc' = [pc EXCEPT ![w] = "generation"] /\ id \in Agents
                    \/ pc' = [pc EXCEPT ![w] = "bump"],
         \/ lease' = lease
         \/ lease' = NoLease /\ Names(lease, id) /\ id \in Agents
         \/ lease' = NoLease /\ id \in Humans /\ UNCHANGED <<pc, client>>
         \/ lease' = Grant(id) /\ MayClaim(lease, id),
         pc' # pc /\ id \in Humans => lease' = Grant(id)
  PROVE  PairParts'
<1> USE TypeParts DEF ThreadsOK
<1>i. Placed /\ OneEach /\ Lives /\ HumanHas /\ StoppedAll
  BY DEF PairInv, PairParts
<1>1. Lives'
  BY <1>i, LivingLeases DEF Lives
<1>2. \A x \in Workers : pc[x] # "idle" => /\ client[x] # id /\ pc'[x] = pc[x]
                                            /\ client'[x] = client[x]
  BY DEF Waiting
<1>3. \A x, y \in Workers : pc'[x] # "idle" /\ pc[x] = "idle" /\ pc'[y] # "idle" /\ pc[y] = "idle"
                              => x = y
  OBVIOUS
<1>4. \A x \in Workers : pc'[x] # "idle" /\ pc[x] = "idle" =>
        /\ client'[x] = id /\ ~Admitted(x)' /\ ~Stopping(x)'
        /\ pc'[x] \in Batch => id \in Agents
        /\ id \in Humans => lease' = Grant(id)
  BY DEF Admitted, Stopping, InAction, Sweep, Batch
<1>5. Placed'
  BY <1>2, <1>4, <1>i DEF Placed, Batch
<1>6. OneEach'
  <2> SUFFICES ASSUME NEW x \in Workers, NEW y \in Workers, pc'[x] # "idle", pc'[y] # "idle",
                      client'[x] = client'[y]
               PROVE  x = y
    BY DEF OneEach
  <2> QED
    BY <1>2, <1>3, <1>4, <1>i DEF OneEach
<1>7. StoppedAll'
  <2> SUFFICES ASSUME NEW w \in Workers, NEW x \in Workers, Stopping(w)', Admitted(x)'
               PROVE  Cancelled(x)'
    BY DEF StoppedAll
  <2>1. pc'[w] # "idle" /\ pc'[x] # "idle"
    BY DEF Stopping, Admitted, InAction, Sweep
  <2>2. pc[w] # "idle" /\ pc[x] # "idle"
    BY <1>4, <2>1
  <2>3. Stopping(w) /\ Admitted(x)
    BY <1>2, <2>2 DEF Stopping, Admitted, InAction
  <2> QED
    BY <2>3, <1>i DEF StoppedAll, Cancelled
<1>8. HumanHas'
  <2> SUFFICES ASSUME NEW w \in Workers, pc'[w] # "idle", client'[w] \in Humans
               PROVE  Names(lease', client'[w])
    BY DEF HumanHas
  <2>1. CASE pc[w] = "idle"
    BY <1>4, <2>1, LivingLeases
  <2>2. CASE pc[w] # "idle"
    <3>1. client'[w] = client[w] /\ client[w] # id /\ Names(lease, client[w])
      BY <1>2, <1>i, <2>2 DEF HumanHas
    <3>2. id \in Agents
      BY <3>1 DEF OnePair, Ids
    <3>3. ~Names(lease, id) /\ ~MayClaim(lease, id)
      BY <1>i, <3>1, <3>2, IdFacts DEF Names, MayClaim, Holds, Lives
    <3>4. lease' = lease
      BY <3>2, <3>3, IdFacts
    <3> QED
      BY <3>1, <3>4
  <2> QED
    BY <2>1, <2>2
<1> QED
  BY <1>1, <1>5, <1>6, <1>7, <1>8 DEF PairParts

LEMMA PairWorks ==
  ASSUME OnePair, TypeOK, ScriptsInv, PairInv, NEW w \in Workers,
         Thread(w) \/ Process(w) \/ ProcessFails(w)
  PROVE  PairParts'
<1>i. Placed /\ OneEach /\ Lives /\ HumanHas /\ StoppedAll
  BY DEF PairInv, PairParts
<1>f. /\ pc[w] # "idle"
      /\ pc'[w] = "idle" \/ client'[w] = client[w]
      /\ \A x \in Workers \ {w} : UNCHANGED <<pc[x], client[x], gen[x]>>
      /\ pc'[w] \in Batch => pc[w] \in Batch
      /\ generation' \in {generation, generation + 1}
  BY RequestFacts
<1>1. lease' = lease \/ (pc[w] = "extend" /\ MayExtend(lease, client[w]) /\ lease' = Renew(lease))
  BY <1>i, RequestFacts DEF Lives
<1>2. Lives'
  BY <1>1, <1>i, LivingLeases, TypeParts DEF Lives, SharedOK
<1>3. \A x \in Workers : pc'[x] # "idle" => pc[x] # "idle" /\ client'[x] = client[x]
  BY <1>f
<1>4. Placed' /\ OneEach'
  <2>1. \A x \in Workers : pc'[x] \in Batch => pc[x] \in Batch /\ client'[x] = client[x]
    BY <1>f, <1>3 DEF Batch
  <2>2. Placed'
    BY <1>3, <2>1, <1>i DEF Placed
  <2>3. OneEach'
    BY <1>3, <1>i DEF OneEach
  <2> QED
    BY <2>2, <2>3
<1>5. ASSUME NEW x \in Workers, pc[x] # "idle", client[x] \in Humans, pc[w] = "extend"
      PROVE  ~MayExtend(lease, client[w])
  <2>1. Names(lease, client[x]) /\ client[w] \in Agents
    BY <1>i, <1>5 DEF HumanHas, Placed, Batch
  <2>2. lease.owner = "human"
    BY <1>5, <2>1, IdFacts DEF Names
  <2> QED
    BY <1>i, <2>1, <2>2, IdFacts DEF MayExtend, Holds, Names, Lives
<1>6. HumanHas'
  BY <1>1, <1>3, <1>5, <1>i DEF HumanHas
<1>7. StoppedAll'
  <2> SUFFICES ASSUME NEW v \in Workers, NEW x \in Workers, Stopping(v)', Admitted(x)'
               PROVE  Cancelled(x)'
    BY DEF StoppedAll
  <2>1. gen[x] \in Nat /\ generation \in Nat /\ gen[x] <= generation
    BY TypeParts DEF ThreadsOK, SharedOK, ScriptsInv, ScriptOK
  <2>2. pc'[v] # "idle" /\ client'[v] = client[v] /\ client[v] \in Humans /\ pc[v] # "idle"
    BY <1>3 DEF Stopping, Sweep
  <2>3. Admitted(x) /\ gen'[x] = gen[x]
    <3>1. CASE x = w
      BY <1>5, <2>2, <3>1, RequestFacts
    <3>2. CASE x # w
      BY <1>f, <3>2 DEF Admitted, InAction
    <3> QED
      BY <3>1, <3>2
  <2>4. CASE Stopping(v)
    <3>1. Cancelled(x)
      BY <1>i, <2>3, <2>4 DEF StoppedAll
    <3> QED
      BY <1>f, <2>1, <2>3, <3>1 DEF Cancelled
  <2>5. CASE ~Stopping(v)
    <3>1. v = w
      BY <1>f, <2>2, <2>5 DEF Stopping
    <3>2. pc[w] # "failed"
      BY <1>i, <2>2, <3>1, IdFacts DEF Placed, Batch
    <3>3. generation' = generation + 1
      BY <2>2, <2>5, <3>1, <3>2, RequestFacts DEF Stopping
    <3> QED
      BY <2>1, <2>3, <3>3 DEF Cancelled
  <2> QED
    BY <2>4, <2>5
<1> QED
  BY <1>2, <1>4, <1>6, <1>7 DEF PairParts

LEMMA StepPair ==
  OnePair /\ TypeOK /\ SlotInv /\ ScriptsInv /\ PairInv /\ [Next]_vars => PairInv'
<1> SUFFICES ASSUME OnePair, TypeOK, SlotInv, ScriptsInv, PairInv, [Next]_vars PROVE PairInv'
  OBVIOUS
<1>c. ~crossed'
  BY StaysUncrossed
<1>i. Placed /\ OneEach /\ Lives /\ HumanHas /\ StoppedAll
  BY DEF PairInv, PairParts
<1>l. Expire(lease) = lease /\ \A id : Holds(lease, id) <=> Names(lease, id)
  BY <1>i DEF Lives, Holds
<1>g. SUFFICES PairParts'
  BY <1>c DEF PairInv, PairParts
<1>m. ASSUME NEW id, NEW request, MayAsk(id, request)
      PROVE  ~Waiting(id) /\ request \in Requests
  BY <1>m DEF OnePair, MayAsk
<1>t. pc \in [Workers -> Locations] /\ "bump" # "idle"
  BY TypeParts DEF ThreadsOK
<1>1. ASSUME NEW a \in Agents, AgentClaims(a) PROVE PairParts'
  <2>1. ~Waiting(a) /\ UNCHANGED <<generation, pc, client, gen>> /\ a \in Ids
        /\ lease' = IF MayClaim(lease, a) THEN Grant(a) ELSE lease
    BY <1>1, <1>m, <1>l, IdFacts DEF AgentClaims, thread
  <2> QED
    BY <2>1, PairAsks
<1>2. ASSUME NEW h \in Humans, HumanReleases(h) PROVE PairParts'
  <2>1. ~Waiting(h) /\ UNCHANGED <<generation, pc, client, gen>> /\ h \in Ids
        /\ lease' \in {NoLease, lease}
    BY <1>2, <1>m, <1>l, IdFacts DEF HumanReleases, thread
  <2> QED
    BY <2>1, PairAsks
<1>3. CASE Time
  BY <1>3 DEF Time, OnePair
<1>4. ASSUME NEW w \in Workers, NEW a \in Agents, AgentReleases(w, a) PROVE PairParts'
  <2>1. /\ ~Waiting(a) /\ UNCHANGED <<generation, gen>> /\ a \in Ids /\ a \notin Humans
        /\ pc[w] = "idle"
        /\ \/ /\ Names(lease, a) /\ lease' = NoLease /\ pc' = [pc EXCEPT ![w] = "bump"]
              /\ client' = [client EXCEPT ![w] = a]
           \/ lease' = lease /\ UNCHANGED <<pc, client>>
    BY <1>4, <1>m, <1>l, IdFacts DEF AgentReleases, Goto
  <2> QED
    BY <2>1, <1>l, PairAsks
<1>5. ASSUME NEW w \in Workers, NEW a \in Agents, NEW b \in Batches, Input(w, a, b) PROVE PairParts'
  <2>1. /\ ~Waiting(a) /\ UNCHANGED <<generation, gen, lease>> /\ a \in Ids /\ a \notin Humans
        /\ pc[w] = "idle"
        /\ \/ /\ Names(lease, a) /\ pc' = [pc EXCEPT ![w] = "generation"]
              /\ client' = [client EXCEPT ![w] = a]
           \/ UNCHANGED <<pc, client>>
    BY <1>5, <1>m, <1>l, IdFacts DEF Input, Goto
  <2> QED
    BY <2>1, <1>l, PairAsks
<1>6. ASSUME NEW w \in Workers, NEW h \in Humans, HumanClaims(w, h) PROVE PairParts'
  <2>1. /\ ~Waiting(h) /\ UNCHANGED <<generation, gen>> /\ h \in Ids
        /\ pc[w] = "idle" /\ lease' = Grant(h) /\ MayClaim(lease, h)
        /\ pc' = [pc EXCEPT ![w] = "bump"] /\ client' = [client EXCEPT ![w] = h]
    BY <1>6, <1>m, IdFacts DEF HumanClaims, Goto, MayClaim
  <2> QED
    BY <2>1, PairAsks
<1>7. ASSUME NEW w \in Workers, Thread(w) \/ Process(w) \/ ProcessFails(w) PROVE PairParts'
  BY <1>7, PairWorks
<1>8. CASE UNCHANGED vars
  BY <1>8, <1>i DEF vars, state, thread, PairParts, Placed, OneEach, Lives, HumanHas,
     StoppedAll, Stopping, Admitted, InAction, Cancelled
<1> QED
  BY <1>1, <1>2, <1>3, <1>4, <1>5, <1>6, <1>7, <1>8 DEF Next, Client

\* With one operator and one browser that wait for their answers and whose leases
\* do not lapse meanwhile, no two batches and no batch and sweep ever work at the
\* same time, so that what is proved above holds without its reservation.
THEOREM OnePairNeverCrosses ==
  ASSUME OnePair
  PROVE  Spec => []NeverCrossed
<1>1. PairInv => NeverCrossed
  BY DEF PairInv, PairParts, NeverCrossed
<1>2. Init => TypeOK /\ SlotInv /\ ScriptsInv /\ PairInv
  BY InitTypeOK, InitSlot, InitScripts, InitPair
<1>3. TypeOK /\ SlotInv /\ ScriptsInv /\ PairInv /\ [Next]_vars
        => (TypeOK /\ SlotInv /\ ScriptsInv /\ PairInv)'
  BY StepTypeOK, StepSlot, StepScripts, StepPair
<1> QED
  BY <1>1, <1>2, <1>3, PTL DEF Spec
=============================================================================
