-------------------------- MODULE InstallBrokerProofs --------------------------
(***************************************************************************)
(* Theorems about InstallBroker, for any plans, any number of approvals,   *)
(* any finite number of handler threads and any faults.                    *)
(***************************************************************************)
EXTENDS InstallBroker, FiniteSetTheorems, SequenceTheorems, TLAPS

-----------------------------------------------------------------------------
(* Plans.                                                                  *)

LEMMA PlanFacts ==
  /\ NoPlan \notin Plans
  /\ \A p \in Plans : \/ p.kind = "apt"
                      \/ p.kind = "deb" /\ p.name \in Paths
<1>1. ASSUME NEW p \in Plans
      PROVE  p.kind = "apt" \/ (p.kind = "deb" /\ p.name \in Paths)
  <2>1. CASE \E q \in AptPlans : p = Apt(q)
    BY <2>1 DEF Apt
  <2>2. CASE \E path \in Paths, d \in Digests : p = Deb(path, d)
    BY <2>2 DEF Deb
  <2> QED
    BY <2>1, <2>2 DEF Plans
<1>2. NoPlan.kind = "none"
  BY DEF NoPlan
<1> QED
  BY <1>1, <1>2

LEMMA NormalFacts ==
  ASSUME TypeOK, NEW name \in Names
  PROVE  Normal(name) \in Plans \cup {NoPlan}
<1>1. CASE name \in AptPlans
  BY <1>1 DEF Normal, Plans
<1>2. CASE name \notin AptPlans
  BY <1>2 DEF Normal, Names, Plans, TypeOK
<1> QED
  BY <1>1, <1>2

LEMMA EffectFacts ==
  ASSUME TypeOK, NEW p \in Plans
  PROVE  Effect(p) \in Plans \cup {NoPlan}
BY PlanFacts, NormalFacts DEF Effect, Names

\* A package is installed under the name of its plan.
LEMMA EffectName ==
  ASSUME NEW p \in Plans, Effect(p) # NoPlan
  PROVE  Effect(p).name = p.name
<1>1. CASE p.kind = "apt"
  BY <1>1 DEF Effect
<1>2. CASE p.kind # "apt"
  <2>1. Effect(p) = Normal(p.name)
    BY <1>2 DEF Effect
  <2>2. Effect(p) \in {Apt(p.name), Deb(p.name, files[p.name])}
    BY <2>1 DEF Normal
  <2> QED
    BY <2>2 DEF Apt, Deb
<1> QED
  BY <1>1, <1>2

LEMMA BusyFacts ==
  ASSUME TypeOK, NEW w \in Workers, pc[w] # "idle"
  PROVE  plan[w] \in Plans
BY PlanFacts DEF TypeOK
-----------------------------------------------------------------------------
(* TypeOK is inductive.  Its parts: the store, the threads, the rest.      *)

StoreOK ==
  /\ DOMAIN approvals \subseteq Approvals
  /\ \A id \in DOMAIN approvals : approvals[id] \in Plans
  /\ DOMAIN issued \subseteq Approvals /\ DOMAIN approvals \subseteq DOMAIN issued
  /\ stale \subseteq DOMAIN approvals
  /\ spent \in [Approvals -> Nat]

ThreadsOK ==
  /\ pc \in [Workers -> Locations]
  /\ plan \in [Workers -> Plans \cup {NoPlan}]
  /\ \A w \in Workers : plan[w] = NoPlan <=> pc[w] = "idle"
  /\ lock \in Workers \cup {NoThread}
  /\ \A w \in Workers : lock = w <=> pc[w] \in Locations \ {"idle", "lock"}
  /\ swapped \subseteq {w \in Workers : pc[w] \in {"lock", "update", "install"}}

RestOK ==
  /\ files \in [Paths -> Digests \cup {NoFile}]
  /\ manifest \in Seq(Plans)
  /\ installed \subseteq Plans
  /\ answered \subseteq Plans
  /\ boot \in {Up} \cup Nat
  /\ gaveUp \in BOOLEAN

LEMMA TypeParts == TypeOK <=> StoreOK /\ ThreadsOK /\ RestOK
BY DEF TypeOK, StoreOK, ThreadsOK, RestOK

LEMMA NextTypeParts == TypeOK' <=> StoreOK' /\ ThreadsOK' /\ RestOK'
BY DEF TypeOK, StoreOK, ThreadsOK, RestOK

LEMMA InitTypeOK == Init => TypeOK
<1> SUFFICES ASSUME Init PROVE TypeOK
  OBVIOUS
<1>1. StoreOK
  BY DEF Init, StoreOK
<1>2. ThreadsOK
  BY BrokerAssumption DEF Init, ThreadsOK, Locations
<1>3. files \in [Paths -> Digests \cup {NoFile}] /\ boot \in {Up} \cup Nat
  BY DEF Init
<1>4. RestOK
  BY <1>3, EmptySeq DEF Init, RestOK
<1> QED
  BY <1>1, <1>2, <1>4, TypeParts

LEMMA LeaveFacts ==
  ASSUME ThreadsOK, NEW w \in Workers, lock = w, Leave(w)
  PROVE  ThreadsOK'
BY BrokerAssumption DEF ThreadsOK, Leave, Locations

LEMMA GotoFacts ==
  ASSUME ThreadsOK, NEW w \in Workers, pc[w] \in Locations \ {"idle", "lock"},
         NEW l \in Locations \ {"idle", "lock"}, Goto(w, l), UNCHANGED <<plan, lock>>,
         \/ l = "install" /\ swapped' = swapped
         \/ swapped' = swapped \ {w}
  PROVE  ThreadsOK'
BY DEF ThreadsOK, Goto, Locations

LEMMA ForgetFacts ==
  ASSUME StoreOK, ThreadsOK, Forget, UNCHANGED <<issued, spent>>
  PROVE  StoreOK' /\ ThreadsOK'
BY BrokerAssumption DEF StoreOK, ThreadsOK, Forget, Locations

LEMMA StepTypeOK == TypeOK /\ [Next]_vars => TypeOK'
<1> SUFFICES ASSUME TypeOK, [Next]_vars PROVE TypeOK'
  OBVIOUS
<1>p. StoreOK /\ ThreadsOK /\ RestOK
  BY TypeParts
<1>1. ASSUME NEW id \in Approvals, NEW name \in Names, Approve(id, name) PROVE TypeOK'
  <2>1. Normal(name) \in Plans
    BY <1>1, NormalFacts DEF Approve
  <2>2. /\ DOMAIN approvals' = DOMAIN approvals \cup {id}
        /\ DOMAIN issued' = DOMAIN issued \cup {id}
        /\ \A i \in DOMAIN approvals' :
             approvals'[i] = IF i = id THEN Normal(name) ELSE approvals[i]
    BY <1>1 DEF Approve, With
  <2>3. StoreOK'
    BY <1>1, <1>p, <2>1, <2>2 DEF Approve, StoreOK
  <2> QED
    BY <1>1, <1>p, <2>3, NextTypeParts DEF Approve, memory, ThreadsOK, RestOK
<1>2. ASSUME NEW id \in Approvals, Lapse(id) PROVE TypeOK'
  BY <1>2, <1>p, NextTypeParts DEF Lapse, memory, StoreOK, ThreadsOK, RestOK
<1>3. ASSUME NEW w \in Workers, NEW id \in Approvals, NEW name \in Names,
             Install(w, id, name)
      PROVE  TypeOK'
  <2>1. Normal(name) \in Plans /\ pc[w] = "idle" /\ lock # w
    BY <1>3, <1>p, NormalFacts DEF Install, ThreadsOK
  <2>2. /\ DOMAIN approvals' = DOMAIN approvals \ {id} /\ stale' = stale \ {id}
        /\ \A i \in DOMAIN approvals' : approvals'[i] = approvals[i]
        /\ issued' = issued
    BY <1>3 DEF Install, Pop
  <2>3. spent' \in [Approvals -> Nat]
    BY <1>3, <1>p DEF Install, Start, StoreOK
  <2>4. StoreOK'
    BY <1>p, <2>2, <2>3 DEF StoreOK
  <2>5. ThreadsOK'
    BY <1>3, <1>p, <2>1, PlanFacts DEF Install, Start, ThreadsOK, Locations
  <2> QED
    BY <1>3, <1>p, <2>4, <2>5, NextTypeParts DEF Install, RestOK
<1>4. ASSUME NEW w \in Workers, Thread(w) PROVE TypeOK'
  <2>1. StoreOK'
    BY <1>4, <1>p DEF Thread, Acquire, AptUpdate, AptInstall, AptFails, Record, RecordFails,
       Succeed, store, StoreOK
  <2>2. CASE Acquire(w)
    <3>1. ThreadsOK'
      BY <2>2, <1>p, BrokerAssumption DEF Acquire, Goto, ThreadsOK, Locations
    <3> QED
      BY <2>1, <2>2, <1>p, <3>1, NextTypeParts DEF Acquire, RestOK
  <2>3. CASE AptUpdate(w)
    <3>1. ThreadsOK'
      BY <2>3, <1>p, GotoFacts DEF AptUpdate, Locations
    <3> QED
      BY <2>1, <2>3, <1>p, <3>1, NextTypeParts DEF AptUpdate, RestOK
  <2>4. CASE AptInstall(w)
    <3>1. ThreadsOK'
      BY <2>4, <1>p, GotoFacts DEF AptInstall, Locations
    <3>2. Effect(plan[w]) \in Plans
      BY <2>4, BusyFacts, EffectFacts DEF AptInstall
    <3> QED
      BY <2>1, <2>4, <1>p, <3>1, <3>2, NextTypeParts DEF AptInstall, RestOK
  <2>5. CASE AptFails(w)
    <3>1. lock = w
      BY <2>5, <1>p DEF AptFails, ThreadsOK, Locations
    <3>2. ThreadsOK'
      BY <2>5, <1>p, <3>1, LeaveFacts DEF AptFails
    <3> QED
      BY <2>1, <2>5, <1>p, <3>2, NextTypeParts DEF AptFails, RestOK
  <2>6. CASE Record(w)
    <3>1. ThreadsOK'
      <4>1. w \notin swapped
        BY <2>6, <1>p DEF Record, ThreadsOK
      <4> QED
        BY <2>6, <1>p, <4>1, GotoFacts DEF Record, Locations
    <3>2. manifest' \in Seq(Plans)
      BY <2>6, <1>p, BusyFacts, AppendProperties DEF Record, RestOK
    <3> QED
      BY <2>1, <2>6, <1>p, <3>1, <3>2, NextTypeParts DEF Record, RestOK
  <2>7. CASE Succeed(w)
    <3>1. lock = w /\ plan[w] \in Plans
      BY <2>7, <1>p, BusyFacts DEF Succeed, ThreadsOK, Locations
    <3>2. ThreadsOK'
      BY <2>7, <1>p, <3>1, LeaveFacts DEF Succeed
    <3> QED
      BY <2>1, <2>7, <1>p, <3>1, <3>2, NextTypeParts DEF Succeed, RestOK
  <2>8. CASE RecordFails(w)
    <3>1. lock = w
      BY <2>8, <1>p DEF RecordFails, ThreadsOK, Locations
    <3>2. ThreadsOK'
      BY <2>8, <1>p, <3>1, LeaveFacts DEF RecordFails
    <3> QED
      BY <2>1, <2>8, <1>p, <3>2, NextTypeParts DEF RecordFails, RestOK
  <2> QED
    BY <1>4, <2>2, <2>3, <2>4, <2>5, <2>6, <2>7, <2>8 DEF Thread
<1>5. ASSUME NEW path \in Paths, NEW content \in Digests \cup {NoFile},
             EditFile(path, content)
      PROVE  TypeOK'
  BY <1>5, <1>p, NextTypeParts DEF EditFile, store, memory, StoreOK, ThreadsOK, RestOK
<1>6. ASSUME BrokerCrash PROVE TypeOK'
  <2>1. StoreOK' /\ ThreadsOK'
    BY <1>6, <1>p, ForgetFacts DEF BrokerCrash
  <2>2. \A w \in {x \in Workers : pc[x] = "install"} : Effect(plan[w]) \in Plans \cup {NoPlan}
    BY BusyFacts, EffectFacts
  <2>3. installed' \subseteq Plans
    BY <1>6, <1>p, <2>2 DEF BrokerCrash, RestOK
  <2> QED
    BY <1>6, <1>p, <2>1, <2>3, NextTypeParts DEF BrokerCrash, RestOK
<1>7. ASSUME Recreate PROVE TypeOK'
  <2>1. StoreOK' /\ ThreadsOK'
    BY <1>7, <1>p, ForgetFacts DEF Recreate
  <2>2. /\ boot' \in {Up} \cup Nat /\ gaveUp' \in BOOLEAN
        /\ installed' = {} /\ UNCHANGED <<files, manifest, answered>>
    <3>1. \/ boot' = 0 /\ gaveUp' = FALSE
          \/ boot' = Up /\ gaveUp' = TRUE
      BY <1>7 DEF Recreate
    <3>2. gaveUp' \in BOOLEAN
      BY <3>1, Zenon
    <3>3. boot' \in {Up} \cup Nat
      BY <3>1
    <3> QED
      BY <1>7, <3>2, <3>3 DEF Recreate
  <2> QED
    BY <1>p, <2>1, <2>2, NextTypeParts DEF RestOK
<1>8. ASSUME Entrypoint PROVE TypeOK'
  <2>1. boot \in Nat /\ UNCHANGED <<files, store, memory, manifest, answered>>
    BY <1>8, <1>p DEF Entrypoint, Replay, ReplayDone, ReplayStops, RestOK
  <2>2. installed' \subseteq Plans
    <3>1. CASE Replay
      <4>1. manifest[boot + 1] \in Plans
        BY <3>1, <2>1, <1>p, ElementOfSeq, LenProperties DEF Replay, RestOK
      <4> QED
        BY <3>1, <4>1, <1>p DEF Replay, RestOK
    <3> QED
      BY <1>8, <3>1, <1>p DEF Entrypoint, ReplayDone, ReplayStops, RestOK
  <2>3. boot' \in {Up} \cup Nat /\ gaveUp' \in BOOLEAN
    <3>1. /\ boot' = boot + 1 \/ boot' = Up
          /\ gaveUp' = gaveUp \/ gaveUp' = TRUE
      BY <1>8 DEF Entrypoint, Replay, ReplayDone, ReplayStops
    <3>2. gaveUp' \in BOOLEAN
      BY <3>1, <1>p, Zenon DEF RestOK
    <3>3. boot' \in {Up} \cup Nat
      BY <3>1, <2>1
    <3> QED
      BY <3>2, <3>3
  <2> QED
    BY <2>1, <2>2, <2>3, <1>p, NextTypeParts DEF store, memory, StoreOK, ThreadsOK, RestOK
<1>9. ASSUME UNCHANGED vars PROVE TypeOK'
  BY <1>9, <1>p, NextTypeParts DEF vars, StoreOK, ThreadsOK, RestOK
<1> QED
  BY <1>1, <1>2, <1>3, <1>4, <1>5, <1>6, <1>7, <1>8, <1>9 DEF Next

\* Store, threads, lock and manifest are well formed in every reachable state: the
\* lock is held by exactly the thread that is inside the installer.
THEOREM TypeCorrect == Spec => []TypeOK
BY InitTypeOK, StepTypeOK, PTL DEF Spec
-----------------------------------------------------------------------------
(* An approval starts at most one install because the store has an id only *)
(* until it is spent.  That no plan is being installed more often than it  *)
(* was approved needs both to be counted: a thread that starts adds one to *)
(* each side, and a thread that ends, however it ends, takes one from the  *)
(* left.                                                                   *)

Installing(p) == {w \in Workers : plan[w] = p}

SpentOn(p) == {id \in DOMAIN issued : issued[id] = p /\ spent[id] = 1}

ApprovalInv ==
  /\ IsFiniteSet(DOMAIN issued)
  /\ \A id \in Approvals : spent[id] <= 1
  /\ \A id \in Approvals \ DOMAIN issued : spent[id] = 0
  /\ \A id \in DOMAIN approvals : spent[id] = 0 /\ approvals[id] = issued[id]
  /\ \A p \in Plans : Cardinality(Installing(p)) <= Cardinality(SpentOn(p))

LEMMA FiniteFacts ==
  ASSUME ApprovalInv, NEW p
  PROVE  /\ IsFiniteSet(Installing(p)) /\ Cardinality(Installing(p)) \in Nat
         /\ IsFiniteSet(SpentOn(p)) /\ Cardinality(SpentOn(p)) \in Nat
<1>1. Installing(p) \subseteq Workers /\ SpentOn(p) \subseteq DOMAIN issued
  BY DEF Installing, SpentOn
<1>2. IsFiniteSet(Workers) /\ IsFiniteSet(DOMAIN issued)
  BY BrokerAssumption DEF ApprovalInv
<1> QED
  BY <1>1, <1>2, FS_Subset, FS_CardinalityType

LEMMA InitApprovals == TypeOK /\ Init => ApprovalInv
<1> SUFFICES ASSUME TypeOK, Init PROVE ApprovalInv
  OBVIOUS
<1>1. DOMAIN issued = {} /\ DOMAIN approvals = {}
  BY DEF Init
<1>2. \A p \in Plans : Installing(p) = {} /\ SpentOn(p) = {}
  BY <1>1, PlanFacts DEF Init, Installing, SpentOn
<1>3. \A p \in Plans : Cardinality(Installing(p)) = 0 /\ Cardinality(SpentOn(p)) = 0
  BY <1>2, FS_EmptySet
<1>4. \A id \in Approvals : spent[id] = 0
  BY DEF Init
<1>5. IsFiniteSet(DOMAIN issued)
  BY <1>1, FS_EmptySet
<1> QED
  BY <1>1, <1>3, <1>4, <1>5 DEF ApprovalInv

\* A step that spends nothing, drops approvals or keeps them, and ends installs or
\* keeps them.
LEMMA NothingSpent ==
  ASSUME TypeOK, ApprovalInv, UNCHANGED <<issued, spent>>,
         DOMAIN approvals' \subseteq DOMAIN approvals,
         \A id \in DOMAIN approvals' : approvals'[id] = approvals[id],
         \A w \in Workers : plan'[w] \in {plan[w], NoPlan}
  PROVE  ApprovalInv'
<1>1. ASSUME NEW p \in Plans
      PROVE  Cardinality(Installing(p)') <= Cardinality(SpentOn(p)')
  <2>1. Installing(p)' \in SUBSET Installing(p)
    BY PlanFacts DEF Installing
  <2>2. /\ IsFiniteSet(Installing(p)) /\ Cardinality(Installing(p)) \in Nat
        /\ Cardinality(SpentOn(p)) \in Nat
    BY FiniteFacts
  <2>3. IsFiniteSet(Installing(p)') /\ Cardinality(Installing(p)') <= Cardinality(Installing(p))
    BY <2>1, <2>2, FS_Subset
  <2>4. Cardinality(Installing(p)') \in Nat
    BY <2>3, FS_CardinalityType
  <2>5. SpentOn(p)' = SpentOn(p)
    BY DEF SpentOn
  <2>6. Cardinality(Installing(p)) <= Cardinality(SpentOn(p))
    BY DEF ApprovalInv
  <2> QED
    BY <2>2, <2>3, <2>4, <2>5, <2>6
<1> QED
  BY <1>1 DEF ApprovalInv

LEMMA StepApprovals == TypeOK /\ TypeOK' /\ ApprovalInv /\ [Next]_vars => ApprovalInv'
<1> SUFFICES ASSUME TypeOK, TypeOK', ApprovalInv, [Next]_vars PROVE ApprovalInv'
  OBVIOUS
<1>1. ASSUME NEW i \in Approvals, NEW name \in Names, Approve(i, name)
      PROVE  ApprovalInv'
  <2>1. /\ i \notin DOMAIN issued /\ UNCHANGED <<spent, plan>>
        /\ DOMAIN issued' = DOMAIN issued \cup {i}
        /\ DOMAIN approvals' = DOMAIN approvals \cup {i}
        /\ \A id \in DOMAIN issued' :
             issued'[id] = IF id = i THEN Normal(name) ELSE issued[id]
        /\ \A id \in DOMAIN approvals' :
             approvals'[id] = IF id = i THEN Normal(name) ELSE approvals[id]
    BY <1>1 DEF Approve, With, memory
  <2>2. spent[i] = 0
    BY <2>1 DEF ApprovalInv
  <2>3. ASSUME NEW p \in Plans
        PROVE  Installing(p)' = Installing(p) /\ SpentOn(p)' = SpentOn(p)
    BY <2>1, <2>2 DEF Installing, SpentOn
  <2>4. IsFiniteSet(DOMAIN issued')
    BY <2>1, FS_AddElement DEF ApprovalInv
  <2>5. \A id \in DOMAIN approvals' : spent'[id] = 0 /\ approvals'[id] = issued'[id]
    BY <2>1, <2>2 DEF ApprovalInv, TypeOK
  <2>6. \A p \in Plans : Cardinality(Installing(p)') <= Cardinality(SpentOn(p)')
    BY <2>3 DEF ApprovalInv
  <2> QED
    BY <2>1, <2>4, <2>5, <2>6 DEF ApprovalInv
<1>2. ASSUME NEW w \in Workers, NEW i \in Approvals, NEW name \in Names,
             Install(w, i, name)
      PROVE  ApprovalInv'
  <2> DEFINE q == Normal(name)
  <2>1. /\ issued' = issued /\ i \in DOMAIN approvals /\ pc[w] = "idle"
        /\ DOMAIN approvals' = DOMAIN approvals \ {i}
        /\ \A id \in DOMAIN approvals' : approvals'[id] = approvals[id]
    BY <1>2 DEF Install, Pop
  <2>2. CASE i \notin stale /\ approvals[i] = q
    <3>1. plan' = [plan EXCEPT ![w] = q] /\ spent' = [spent EXCEPT ![i] = @ + 1]
      BY <1>2, <2>2 DEF Install, Start
    <3>2. /\ spent[i] = 0 /\ issued[i] = q /\ q \in Plans
          /\ i \in DOMAIN issued /\ plan[w] = NoPlan
      BY <2>1, <2>2 DEF ApprovalInv, TypeOK
    <3>3. spent'[i] = 1 /\ \A id \in Approvals \ {i} : spent'[id] = spent[id]
      BY <3>1, <3>2 DEF TypeOK
    <3>4. ASSUME NEW p \in Plans
          PROVE  Cardinality(Installing(p)') <= Cardinality(SpentOn(p)')
      <4>1. /\ IsFiniteSet(Installing(p)) /\ Cardinality(Installing(p)) \in Nat
            /\ IsFiniteSet(SpentOn(p)) /\ Cardinality(SpentOn(p)) \in Nat
            /\ Cardinality(Installing(p)) <= Cardinality(SpentOn(p))
        BY FiniteFacts DEF ApprovalInv
      <4>2. CASE p = q
        <5>1. w \notin Installing(p) /\ i \notin SpentOn(p)
          BY <3>2, PlanFacts DEF Installing, SpentOn
        <5>2. Installing(p)' = Installing(p) \cup {w}
          BY <3>1, <3>2, <4>2 DEF Installing, TypeOK
        <5>3. SpentOn(p)' = SpentOn(p) \cup {i}
          BY <2>1, <3>2, <3>3, <4>2 DEF SpentOn, TypeOK
        <5>4. /\ Cardinality(Installing(p)') = Cardinality(Installing(p)) + 1
              /\ Cardinality(SpentOn(p)') = Cardinality(SpentOn(p)) + 1
          BY <4>1, <5>1, <5>2, <5>3, FS_AddElement
        <5> QED
          BY <4>1, <5>4
      <4>3. CASE p # q
        <5>1. Installing(p)' = Installing(p)
          BY <3>1, <3>2, <4>3, PlanFacts DEF Installing, TypeOK
        <5>2. SpentOn(p)' = SpentOn(p)
          BY <2>1, <3>2, <3>3, <4>3 DEF SpentOn, TypeOK
        <5> QED
          BY <4>1, <5>1, <5>2
      <4> QED
        BY <4>2, <4>3
    <3>5. DOMAIN approvals \subseteq Approvals /\ DOMAIN issued \subseteq Approvals
      BY DEF TypeOK
    <3> QED
      BY <2>1, <3>2, <3>3, <3>4, <3>5 DEF ApprovalInv
  <2>3. CASE ~(i \notin stale /\ approvals[i] = q)
    <3>1. UNCHANGED <<plan, spent>>
      BY <1>2, <2>3 DEF Install
    <3> QED
      BY <2>1, <3>1, NothingSpent
  <2> QED
    BY <2>2, <2>3
<1>3. ASSUME \/ \E id \in Approvals : Lapse(id)
             \/ \E path \in Paths, content \in Digests \cup {NoFile} : EditFile(path, content)
             \/ Entrypoint
             \/ UNCHANGED vars
      PROVE  ApprovalInv'
  <2>1. UNCHANGED <<approvals, issued, spent, plan>>
    BY <1>3 DEF Lapse, EditFile, Entrypoint, Replay, ReplayDone, ReplayStops, vars,
       store, memory
  <2> QED
    BY <2>1, NothingSpent
<1>4. ASSUME NEW w \in Workers, Thread(w) PROVE ApprovalInv'
  <2>1. UNCHANGED <<approvals, issued, spent>>
    BY <1>4 DEF Thread, Acquire, AptUpdate, AptInstall, AptFails, Record, RecordFails,
       Succeed, store
  <2>2. \A x \in Workers : plan'[x] \in {plan[x], NoPlan}
    BY <1>4 DEF Thread, Acquire, AptUpdate, AptInstall, AptFails, Record, RecordFails,
       Succeed, Leave, TypeOK
  <2> QED
    BY <2>1, <2>2, NothingSpent
<1>5. ASSUME BrokerCrash \/ Recreate PROVE ApprovalInv'
  <2>1. /\ UNCHANGED <<issued, spent>> /\ DOMAIN approvals' = {}
        /\ \A w \in Workers : plan'[w] = NoPlan
    BY <1>5 DEF BrokerCrash, Recreate, Forget
  <2> QED
    BY <2>1, NothingSpent
<1> QED
  BY <1>1, <1>2, <1>3, <1>4, <1>5 DEF Next

-----------------------------------------------------------------------------
(* Approvals are exact.  A plan is approved once its thread has spent the  *)
(* approval, and stays so; the thread's file is the one it hashed until    *)
(* somebody replaces it; and the replay compares before it installs.       *)

\* A thread whose package is not in yet.
Waits(w) == pc[w] \in {"lock", "update", "install"}

ExactInv ==
  /\ \A w \in Workers : pc[w] # "idle" => plan[w] \in Approved
  /\ \A w \in Workers : Waits(w) /\ w \notin swapped /\ plan[w].kind = "deb"
                         => files[plan[w].name] = plan[w].sha
  /\ \A i \in 1..Len(manifest) : manifest[i] \in Approved

\* Nothing an approval was spent on is forgotten.
LEMMA ApprovedStays ==
  ASSUME TypeOK, ApprovalInv, [Next]_vars
  PROVE  Approved \subseteq Approved'
<1>1. ASSUME NEW id \in DOMAIN issued, spent[id] = 1
      PROVE  id \in DOMAIN issued' /\ issued'[id] = issued[id] /\ spent'[id] = 1
  <2>1. id \notin DOMAIN approvals /\ id \in Approvals /\ spent \in [Approvals -> Nat]
    BY <1>1 DEF ApprovalInv, TypeOK
  <2>2. CASE \E i \in Approvals, name \in Names : Approve(i, name)
    <3>1. PICK i \in Approvals, name \in Names : Approve(i, name)
      BY <2>2
    <3>2. i # id /\ spent' = spent /\ issued' = With(issued, i, Normal(name))
      BY <3>1 DEF Approve
    <3> QED
      BY <1>1, <3>2 DEF With
  <2>3. CASE \E i \in Approvals, w \in Workers, name \in Names : Install(w, i, name)
    <3>1. PICK i \in Approvals, w \in Workers, name \in Names : Install(w, i, name)
      BY <2>3
    <3>2. issued' = issued /\ i # id
      BY <2>1, <3>1 DEF Install
    <3>3. spent' = spent \/ spent' = [spent EXCEPT ![i] = @ + 1]
      BY <3>1 DEF Install, Start
    <3> QED
      BY <1>1, <2>1, <3>2, <3>3
  <2>4. CASE UNCHANGED <<issued, spent>>
    BY <1>1, <2>4
  <2> QED
    BY <2>2, <2>3, <2>4 DEF Next, Lapse, Thread, Acquire, AptUpdate, AptInstall, AptFails,
       Record, RecordFails, Succeed, EditFile, BrokerCrash, Recreate, Entrypoint, Replay,
       ReplayDone, ReplayStops, store, vars
<1> QED
  BY <1>1 DEF Approved

\* apt takes what was hashed, unless the file was replaced.
LEMMA ExactEffect ==
  ASSUME TypeOK, ExactInv, NEW w \in Workers, pc[w] = "install", w \notin swapped
  PROVE  Effect(plan[w]) \in {plan[w], NoPlan}
<1>1. plan[w] \in Plans
  BY BusyFacts
<1>2. CASE \E q \in AptPlans : plan[w] = Apt(q)
  BY <1>2 DEF Effect, Apt
<1>3. CASE \E path \in Paths, d \in Digests : plan[w] = Deb(path, d)
  <2>1. PICK path \in Paths, d \in Digests : plan[w] = Deb(path, d)
    BY <1>3
  <2>2. /\ plan[w].kind = "deb" /\ plan[w].name = path /\ plan[w].sha = d
        /\ path \notin AptPlans
    BY <2>1, BrokerAssumption DEF Deb
  <2>3. files[path] = d
    BY <2>2 DEF ExactInv, Waits
  <2> QED
    BY <2>1, <2>2, <2>3 DEF Effect, Normal
<1> QED
  BY <1>1, <1>2, <1>3 DEF Plans

\* What a thread's apt puts in is approved, or comes from a replaced file.
LEMMA ExactThread ==
  ASSUME TypeOK, ExactInv, NEW w \in Workers, pc[w] = "install",
         Effect(plan[w]) # NoPlan
  PROVE  \/ Effect(plan[w]) \in Approved
         \/ w \in swapped /\ plan[w].name = Effect(plan[w]).name
<1>1. CASE w \in swapped
  BY <1>1, BusyFacts, EffectName
<1>2. CASE w \notin swapped
  BY <1>2, ExactEffect DEF ExactInv
<1> QED
  BY <1>1, <1>2

Listed(p) == \E i \in 1..Len(manifest) : manifest[i] = p

LEMMA RecordFacts ==
  ASSUME TypeOK, NEW w \in Workers, Record(w)
  PROVE  /\ Len(manifest) \in Nat /\ Len(manifest') \in Nat /\ Len(manifest) <= Len(manifest')
         /\ \A i \in 1..Len(manifest) : manifest'[i] = manifest[i]
         /\ \A i \in 1..Len(manifest') : i \in 1..Len(manifest) \/ manifest'[i] = plan[w]
         /\ Listed(plan[w])'
<1>1. manifest \in Seq(Plans) /\ Len(manifest) \in Nat /\ plan[w] \in Plans
  BY BusyFacts, LenProperties DEF Record, TypeOK
<1>2. CASE plan[w] \in ToSet(manifest)
  <2>1. manifest' = manifest
    BY <1>2 DEF Record
  <2>2. \E i \in 1..Len(manifest) : manifest[i] = plan[w]
    BY <1>1, <1>2, LenProperties DEF ToSet
  <2>3. plan' = plan
    BY DEF Record
  <2> QED
    BY <1>1, <2>1, <2>2, <2>3 DEF Listed
<1>3. CASE plan[w] \notin ToSet(manifest)
  <2>1. manifest' = Append(manifest, plan[w]) /\ plan' = plan
    BY <1>3 DEF Record
  <2>2. /\ Len(manifest') = Len(manifest) + 1
        /\ \A i \in 1..Len(manifest) : manifest'[i] = manifest[i]
        /\ manifest'[Len(manifest) + 1] = plan[w]
    BY <1>1, <2>1, AppendProperties
  <2>3. Listed(plan[w])'
    BY <1>1, <2>1, <2>2 DEF Listed
  <2> QED
    BY <1>1, <2>2, <2>3
<1> QED
  BY <1>2, <1>3

LEMMA InitExact == Init => ExactInv
<1> SUFFICES ASSUME Init PROVE ExactInv
  OBVIOUS
<1>1. Len(manifest) = 0 /\ \A w \in Workers : pc[w] = "idle"
  BY DEF Init
<1> QED
  BY <1>1 DEF ExactInv, Waits

\* Threads that get no further than their plan allows, files and manifest alone.
LEMMA QuietExact ==
  ASSUME TypeOK, ApprovalInv, ExactInv, [Next]_vars, UNCHANGED <<files, manifest>>,
         \A w \in Workers : pc'[w] # "idle" => pc[w] # "idle" /\ plan'[w] = plan[w],
         \A w \in Workers : Waits(w)' /\ w \notin swapped' => Waits(w) /\ w \notin swapped
  PROVE  ExactInv'
<1>1. \A w \in Workers : pc'[w] # "idle" => plan'[w] \in Approved'
  BY ApprovedStays DEF ExactInv
<1>2. \A i \in 1..Len(manifest') : manifest'[i] \in Approved'
  BY ApprovedStays DEF ExactInv
<1>3. \A w \in Workers : Waits(w)' /\ w \notin swapped' /\ plan'[w].kind = "deb"
                         => files'[plan'[w].name] = plan'[w].sha
  <2> SUFFICES ASSUME NEW w \in Workers, Waits(w)', w \notin swapped', plan'[w].kind = "deb"
               PROVE  files'[plan'[w].name] = plan'[w].sha
    OBVIOUS
  <2>1. pc'[w] # "idle"
    BY DEF Waits
  <2>2. plan'[w] = plan[w] /\ Waits(w) /\ w \notin swapped /\ files' = files
    BY <2>1
  <2> QED
    BY <2>2 DEF ExactInv
<1> QED
  BY <1>1, <1>2, <1>3 DEF ExactInv

LEMMA StepExact ==
  TypeOK /\ TypeOK' /\ ApprovalInv /\ ExactInv /\ [Next]_vars => ExactInv'
<1> SUFFICES ASSUME TypeOK, TypeOK', ApprovalInv, ExactInv, [Next]_vars PROVE ExactInv'
  OBVIOUS
<1>t. /\ pc \in [Workers -> Locations] /\ plan \in [Workers -> Plans \cup {NoPlan}]
      /\ swapped \subseteq {w \in Workers : pc[w] \in {"lock", "update", "install"}}
  BY DEF TypeOK
<1>1. ASSUME UNCHANGED <<files, manifest, pc, plan, swapped>> PROVE ExactInv'
  BY <1>1, QuietExact DEF Waits
<1>2. ASSUME NEW w \in Workers, NEW id \in Approvals, NEW name \in Names,
             Install(w, id, name)
      PROVE  ExactInv'
  <2>1. CASE id \notin stale /\ approvals[id] = Normal(name)
    <3>1. /\ pc[w] = "idle" /\ id \in DOMAIN approvals /\ w \notin swapped'
          /\ Normal(name) # NoPlan
          /\ UNCHANGED <<files, issued, manifest, swapped>>
          /\ pc' = [pc EXCEPT ![w] = "lock"] /\ plan' = [plan EXCEPT ![w] = Normal(name)]
          /\ spent' = [spent EXCEPT ![id] = @ + 1]
      BY <1>2, <1>t, <2>1 DEF Install, Start
    <3>2. Normal(name) \in Approved'
      <4>1. spent[id] = 0 /\ issued[id] = Normal(name) /\ id \in DOMAIN issued
        BY <2>1, <3>1 DEF ApprovalInv, TypeOK
      <4>2. spent'[id] = 1 /\ issued'[id] = Normal(name) /\ id \in DOMAIN issued'
        BY <3>1, <4>1 DEF TypeOK
      <4> QED
        BY <4>2 DEF Approved
    <3>3. /\ plan'[w] = Normal(name) /\ pc'[w] = "lock"
          /\ \A x \in Workers \ {w} : pc'[x] = pc[x] /\ plan'[x] = plan[x]
      BY <3>1, <1>t
    <3>4. \A x \in Workers : pc'[x] # "idle" => plan'[x] \in Approved'
      BY <3>2, <3>3, ApprovedStays DEF ExactInv
    <3>5. Normal(name).kind = "deb" => files[Normal(name).name] = Normal(name).sha
      BY <3>1 DEF Normal, Apt, Deb
    <3>6. \A x \in Workers : Waits(x)' /\ x \notin swapped' /\ plan'[x].kind = "deb"
                             => files'[plan'[x].name] = plan'[x].sha
      <4> SUFFICES ASSUME NEW x \in Workers, Waits(x)', x \notin swapped',
                          plan'[x].kind = "deb"
                   PROVE  files'[plan'[x].name] = plan'[x].sha
        OBVIOUS
      <4>1. CASE x = w
        BY <3>1, <3>3, <3>5, <4>1
      <4>2. CASE x # w
        <5>1. Waits(x) /\ x \notin swapped /\ plan'[x] = plan[x] /\ files' = files
          BY <3>1, <3>3, <4>2 DEF Waits
        <5> QED
          BY <5>1 DEF ExactInv
      <4> QED
        BY <4>1, <4>2
    <3>7. \A i \in 1..Len(manifest') : manifest'[i] \in Approved'
      BY <3>1, ApprovedStays DEF ExactInv
    <3> QED
      BY <3>4, <3>6, <3>7 DEF ExactInv
  <2>2. CASE ~(id \notin stale /\ approvals[id] = Normal(name))
    BY <1>1, <1>2, <2>2 DEF Install
  <2> QED
    BY <2>1, <2>2
<1>3. ASSUME NEW w \in Workers,
             \/ Acquire(w) \/ AptUpdate(w) \/ AptInstall(w) \/ AptFails(w)
             \/ RecordFails(w) \/ Succeed(w)
      PROVE  ExactInv'
  <2>1. UNCHANGED <<files, manifest>> /\ \A x \in Workers \ {w} : x \in swapped' <=> x \in swapped
    BY <1>3 DEF Acquire, AptUpdate, AptInstall, AptFails, RecordFails, Succeed, Leave
  <2>2. \A x \in Workers \ {w} : pc'[x] = pc[x] /\ plan'[x] = plan[x]
    BY <1>3, <1>t DEF Acquire, AptUpdate, AptInstall, AptFails, RecordFails, Succeed, Leave,
       Goto
  <2>3. \/ pc'[w] = "idle"
        \/ pc'[w] = "record" /\ pc[w] = "install" /\ plan'[w] = plan[w]
        \/ /\ pc'[w] \in {"update", "install"} /\ pc[w] \in {"lock", "update"}
           /\ plan' = plan /\ swapped' = swapped
    BY <1>3, <1>t DEF Acquire, AptUpdate, AptInstall, AptFails, RecordFails, Succeed, Leave,
       Goto
  <2> QED
    BY <2>1, <2>2, <2>3, QuietExact DEF Waits
<1>4. ASSUME NEW w \in Workers, Record(w) PROVE ExactInv'
  <2>1. /\ pc[w] = "record" /\ UNCHANGED <<files, plan, swapped, issued, spent>>
        /\ \A x \in Workers : pc'[x] = IF x = w THEN "unlock" ELSE pc[x]
    BY <1>4, <1>t DEF Record, Goto, store
  <2>2. /\ Len(manifest) \in Nat /\ Len(manifest') \in Nat
        /\ \A i \in 1..Len(manifest) : manifest'[i] = manifest[i]
        /\ \A i \in 1..Len(manifest') : i \in 1..Len(manifest) \/ manifest'[i] = plan[w]
    BY <1>4, RecordFacts
  <2>3. plan[w] \in Approved /\ \A i \in 1..Len(manifest) : manifest[i] \in Approved
    BY <2>1 DEF ExactInv
  <2>4. \A i \in 1..Len(manifest') : manifest'[i] \in Approved
    BY <2>2, <2>3
  <2>5. \A x \in Workers : pc'[x] # "idle" => plan[x] \in Approved
    BY <2>1 DEF ExactInv
  <2>6. \A x \in Workers : Waits(x)' => Waits(x)
    BY <2>1 DEF Waits
  <2>7. Approved' = Approved
    BY <2>1 DEF Approved
  <2>8. \A x \in Workers : Waits(x)' /\ x \notin swapped' /\ plan'[x].kind = "deb"
                           => files'[plan'[x].name] = plan'[x].sha
    BY <2>1, <2>6 DEF ExactInv
  <2> QED
    BY <2>1, <2>4, <2>5, <2>7, <2>8 DEF ExactInv
<1>5. ASSUME NEW path \in Paths, NEW content \in Digests \cup {NoFile},
             EditFile(path, content)
      PROVE  ExactInv'
  <2>1. /\ UNCHANGED <<issued, spent, pc, plan, manifest>>
        /\ files' = [files EXCEPT ![path] = content]
        /\ swapped' = swapped \cup {w \in Workers : /\ pc[w] \in {"lock", "update", "install"}
                                                  /\ plan[w].name = path}
    BY <1>5 DEF EditFile, store
  <2>2. ASSUME NEW w \in Workers, Waits(w), w \notin swapped', plan[w].kind = "deb"
        PROVE  files'[plan[w].name] = plan[w].sha
    <3>1. plan[w].name # path /\ w \notin swapped
      BY <2>1, <2>2 DEF Waits
    <3>2. plan[w].name \in Paths
      <4>1. plan[w] \in Plans
        BY <2>2, BusyFacts DEF Waits
      <4> QED
        BY <2>2, <4>1, PlanFacts
    <3> QED
      BY <2>1, <2>2, <3>1, <3>2 DEF ExactInv, TypeOK
  <2>3. Approved' = Approved /\ swapped \subseteq swapped' /\ pc' = pc
    BY <2>1 DEF Approved
  <2> QED
    BY <2>1, <2>2, <2>3 DEF ExactInv, Waits
<1>6. ASSUME BrokerCrash \/ Recreate PROVE ExactInv'
  <2>1. UNCHANGED <<files, manifest>> /\ \A w \in Workers : pc'[w] = "idle"
    BY <1>6 DEF BrokerCrash, Recreate, Forget
  <2> QED
    BY <2>1, QuietExact DEF Waits
<1>7. ASSUME \/ \E id \in Approvals :
                  \/ \E name \in Names : Approve(id, name)
                  \/ Lapse(id)
             \/ Entrypoint \/ UNCHANGED vars
      PROVE  ExactInv'
  <2>1. UNCHANGED <<files, manifest, pc, plan, swapped>>
    BY <1>7 DEF Approve, Lapse, Entrypoint, Replay, ReplayDone, ReplayStops, memory, vars
  <2> QED
    BY <1>1, <2>1
<1> QED
  BY <1>2, <1>3, <1>4, <1>5, <1>6, <1>7 DEF Next, Thread

\* Only apt and the replay install anything.
LEMMA InstallsAreApproved ==
  ASSUME TypeOK, ExactInv, [Next]_vars, NEW q \in installed' \ installed
  PROVE  q \in Approved \/ \E w \in swapped : pc[w] = "install" /\ plan[w].name = q.name
<1>1. ASSUME NEW w \in Workers, AptInstall(w)
      PROVE  q \in Approved \/ \E x \in swapped : pc[x] = "install" /\ plan[x].name = q.name
  BY <1>1, ExactThread DEF AptInstall
<1>2. CASE BrokerCrash
  <2>1. PICK w \in Workers : pc[w] = "install" /\ Effect(plan[w]) = q /\ q # NoPlan
    BY <1>2 DEF BrokerCrash
  <2> QED
    BY <2>1, ExactThread
<1>3. CASE Replay
  <2>1. boot + 1 \in 1..Len(manifest) /\ q = manifest[boot + 1]
    BY <1>3, LenProperties DEF Replay, TypeOK, Up
  <2> QED
    BY <2>1 DEF ExactInv
<1>4. CASE installed' = installed \/ installed' = {}
  BY <1>4
<1> QED
  BY <1>1, <1>2, <1>3, <1>4 DEF Next, Approve, Lapse, Install, Thread, Acquire, AptUpdate,
     AptFails, Record, RecordFails, Succeed, EditFile, Recreate, Entrypoint, ReplayDone,
     ReplayStops, vars

\* Approvals are exact and single-use, however many threads ask for installs,
\* whatever fails, and however often broker and container start again: nothing
\* gets into the container that was not approved with its digest, but for a
\* file that was replaced while its install was waiting.
THEOREM ApprovalsCount == Spec => ApprovalsAreExactAndSingleUse
<1>1. Init => TypeOK /\ ApprovalInv /\ ExactInv
  BY InitTypeOK, InitApprovals, InitExact
<1>2. TypeOK /\ ApprovalInv /\ ExactInv /\ [Next]_vars
        => TypeOK' /\ ApprovalInv' /\ ExactInv'
  BY StepTypeOK, StepApprovals, StepExact
<1>3. TypeOK /\ ApprovalInv /\ ExactInv /\ [Next]_vars
        => [ /\ SingleUse'
             /\ \A q \in installed' \ installed :
                  \/ q \in Approved
                  \/ \E w \in swapped : pc[w] = "install" /\ plan[w].name = q.name ]_vars
  <2> SUFFICES ASSUME TypeOK, ApprovalInv, ExactInv, [Next]_vars
               PROVE  /\ SingleUse'
                      /\ \A q \in installed' \ installed :
                           \/ q \in Approved
                           \/ \E w \in swapped : /\ pc[w] = "install"
                                                 /\ plan[w].name = q.name
    OBVIOUS
  <2>1. SingleUse'
    BY <1>2 DEF ApprovalInv, SingleUse, Installing, SpentOn
  <2> QED
    BY <2>1, InstallsAreApproved
<1> QED
  BY <1>1, <1>2, <1>3, PTL DEF Spec, ApprovalsAreExactAndSingleUse
-----------------------------------------------------------------------------
(* Answered installs survive.  An install is answered after its plan is in *)
(* the manifest, which only grows, and the desktop is up again only after  *)
(* the whole manifest was replayed or the replay gave up.                  *)

Present(p) == \E q \in installed : q.name = p.name

\* A thread in the last two steps of an install has put its package in, and
\* then its plan into the manifest.
ThreadsKeepUp ==
  \A w \in Workers :
    /\ pc[w] \in {"record", "unlock"} => Present(plan[w])
    /\ pc[w] = "unlock" => Listed(plan[w])

\* Nobody installs anything while the manifest is being replayed.
Replayed ==
  IF boot = Up
    THEN ~gaveUp => \A i \in 1..Len(manifest) : Present(manifest[i])
    ELSE /\ ~gaveUp /\ boot \in 0..Len(manifest)
         /\ \A i \in 1..boot : Present(manifest[i])
         /\ \A w \in Workers : pc[w] = "idle"

SurvivalInv ==
  /\ \A p \in answered : Listed(p)
  /\ ThreadsKeepUp
  /\ Replayed

LEMMA InitSurvival == Init => SurvivalInv
<1> SUFFICES ASSUME Init PROVE SurvivalInv
  OBVIOUS
<1>1. Len(manifest) = 0 /\ answered = {} /\ boot = Up /\ \A w \in Workers : pc[w] = "idle"
  BY DEF Init
<1> QED
  BY <1>1 DEF SurvivalInv, ThreadsKeepUp, Replayed

\* What is installed stays so, and what is in the manifest.
LEMMA OnlyMore ==
  ASSUME installed \subseteq installed', manifest' = manifest
  PROVE  /\ \A p : Present(p) => Present(p)'
         /\ \A p : Listed(p) => Listed(p)'
BY DEF Present, Listed

LEMMA StepSurvival == TypeOK /\ SurvivalInv /\ [Next]_vars => SurvivalInv'
<1> SUFFICES ASSUME TypeOK, SurvivalInv, [Next]_vars PROVE SurvivalInv'
  OBVIOUS
<1>t. /\ pc \in [Workers -> Locations] /\ plan \in [Workers -> Plans \cup {NoPlan}]
      /\ Len(manifest) \in Nat /\ boot \in {Up} \cup Nat
  BY LenProperties DEF TypeOK
<1>i. (\A p \in answered : Listed(p)) /\ ThreadsKeepUp /\ Replayed
  BY DEF SurvivalInv
\* No thread gets further, and nothing is installed or forgotten.
<1>1. ASSUME UNCHANGED <<installed, manifest, answered, boot, gaveUp>>,
             \A w \in Workers : \/ UNCHANGED <<pc[w], plan[w]>>
                                \/ pc'[w] \in {"idle", "update", "install"}
                                \/ pc'[w] = "lock" /\ boot = Up,
             boot # Up => UNCHANGED pc
      PROVE  SurvivalInv'
  <2>1. /\ \A p : Present(p) => Present(p)'
        /\ \A p : Listed(p) => Listed(p)'
    BY <1>1, OnlyMore
  <2>2. ThreadsKeepUp'
    BY <1>1, <1>i, <2>1 DEF ThreadsKeepUp
  <2>3. Replayed'
    BY <1>1, <1>i, <2>1 DEF Replayed
  <2> QED
    BY <1>1, <1>i, <2>1, <2>2, <2>3 DEF SurvivalInv
<1>2. ASSUME \/ \E id \in Approvals :
                  \/ \E name \in Names : Approve(id, name)
                  \/ Lapse(id)
             \/ \E path \in Paths, content \in Digests \cup {NoFile} : EditFile(path, content)
             \/ UNCHANGED vars
      PROVE  SurvivalInv'
  <2>1. UNCHANGED <<installed, manifest, answered, boot, gaveUp, pc, plan>>
    BY <1>2 DEF Approve, Lapse, EditFile, vars, memory
  <2> QED
    BY <1>1, <2>1
<1>3. ASSUME NEW w \in Workers, NEW id \in Approvals, NEW name \in Names,
             Install(w, id, name)
      PROVE  SurvivalInv'
  <2>1. /\ UNCHANGED <<installed, manifest, answered, boot, gaveUp>> /\ boot = Up
        /\ \A x \in Workers : UNCHANGED <<pc[x], plan[x]>> \/ pc'[x] = "lock"
    BY <1>3, <1>t DEF Install, Start
  <2> QED
    BY <1>1, <2>1
<1>4. ASSUME NEW w \in Workers,
             Acquire(w) \/ AptUpdate(w) \/ AptFails(w) \/ RecordFails(w)
      PROVE  SurvivalInv'
  <2>1. /\ UNCHANGED <<installed, manifest, answered, boot, gaveUp>> /\ pc[w] # "idle"
        /\ \A x \in Workers : \/ UNCHANGED <<pc[x], plan[x]>>
                              \/ pc'[x] \in {"idle", "update", "install"}
    BY <1>4, <1>t DEF Acquire, AptUpdate, AptFails, RecordFails, Leave, Goto
  <2>2. boot = Up
    BY <1>i, <2>1 DEF Replayed
  <2> QED
    BY <1>1, <2>1, <2>2
<1>5. ASSUME NEW w \in Workers, AptInstall(w) PROVE SurvivalInv'
  <2>1. /\ pc[w] = "install" /\ Effect(plan[w]) # NoPlan
        /\ installed' = installed \cup {Effect(plan[w])}
        /\ UNCHANGED <<plan, manifest, answered, boot, gaveUp>>
        /\ \A x \in Workers : pc'[x] = IF x = w THEN "record" ELSE pc[x]
    BY <1>5, <1>t DEF AptInstall, Goto
  <2>2. Present(plan[w])'
    BY <2>1, BusyFacts, EffectName DEF Present
  <2>3. /\ \A p : Present(p) => Present(p)'
        /\ \A p : Listed(p) => Listed(p)'
    BY <2>1, OnlyMore
  <2>4. boot = Up
    BY <1>i, <2>1 DEF Replayed
  <2>5. ThreadsKeepUp'
    BY <1>i, <2>1, <2>2, <2>3 DEF ThreadsKeepUp
  <2> QED
    BY <1>i, <2>1, <2>3, <2>4, <2>5 DEF SurvivalInv, Replayed
<1>6. ASSUME NEW w \in Workers, Record(w) PROVE SurvivalInv'
  <2>1. /\ pc[w] = "record" /\ UNCHANGED <<plan, installed, answered, boot, gaveUp>>
        /\ \A x \in Workers : pc'[x] = IF x = w THEN "unlock" ELSE pc[x]
    BY <1>6, <1>t DEF Record, Goto
  <2>2. boot = Up /\ Present(plan[w])
    BY <1>i, <2>1 DEF Replayed, ThreadsKeepUp
  <2>3. /\ Len(manifest') \in Nat /\ Len(manifest) <= Len(manifest')
        /\ \A i \in 1..Len(manifest) : manifest'[i] = manifest[i]
        /\ \A i \in 1..Len(manifest') : i \in 1..Len(manifest) \/ manifest'[i] = plan[w]
        /\ Listed(plan[w])'
    BY <1>6, RecordFacts
  <2>4. \A p : Listed(p) => Listed(p)'
    BY <1>t, <2>3 DEF Listed
  <2>5. \A p : Present(p)' <=> Present(p)
    BY <2>1 DEF Present
  <2>6. ThreadsKeepUp'
    BY <1>i, <2>1, <2>2, <2>3, <2>4, <2>5 DEF ThreadsKeepUp
  <2>7. Replayed'
    BY <1>i, <2>1, <2>2, <2>3, <2>5 DEF Replayed
  <2> QED
    BY <1>i, <2>1, <2>4, <2>6, <2>7 DEF SurvivalInv
<1>7. ASSUME NEW w \in Workers, Succeed(w) PROVE SurvivalInv'
  <2>1. /\ pc[w] = "unlock" /\ answered' = answered \cup {plan[w]}
        /\ UNCHANGED <<installed, manifest, boot, gaveUp>>
        /\ \A x \in Workers \ {w} : UNCHANGED <<pc[x], plan[x]>>
        /\ pc'[w] = "idle"
    BY <1>7, <1>t DEF Succeed, Leave
  <2>2. boot = Up /\ Listed(plan[w])
    BY <1>i, <2>1 DEF Replayed, ThreadsKeepUp
  <2>3. /\ \A p : Present(p) => Present(p)'
        /\ \A p : Listed(p) => Listed(p)'
    BY <2>1, OnlyMore
  <2>4. ThreadsKeepUp'
    BY <1>i, <2>1, <2>3 DEF ThreadsKeepUp
  <2>5. Replayed'
    BY <1>i, <2>1, <2>2, <2>3 DEF Replayed
  <2> QED
    BY <1>i, <2>1, <2>2, <2>3, <2>4, <2>5 DEF SurvivalInv
<1>8. ASSUME BrokerCrash PROVE SurvivalInv'
  <2>1. /\ installed \subseteq installed' /\ UNCHANGED <<manifest, answered, boot, gaveUp>>
        /\ \A x \in Workers : pc'[x] = "idle"
    BY <1>8 DEF BrokerCrash, Forget
  <2>2. /\ \A p : Present(p) => Present(p)'
        /\ \A p : Listed(p) => Listed(p)'
    BY <2>1, OnlyMore
  <2> QED
    BY <1>i, <2>1, <2>2 DEF SurvivalInv, ThreadsKeepUp, Replayed
<1>9. ASSUME Recreate PROVE SurvivalInv'
  <2>1. /\ \/ boot' = 0 /\ gaveUp' = FALSE
           \/ boot' = Up /\ gaveUp' = TRUE
        /\ UNCHANGED <<manifest, answered>>
        /\ \A x \in Workers : pc'[x] = "idle"
    BY <1>9 DEF Recreate, Forget
  <2>2. \A p : Listed(p) => Listed(p)'
    BY <2>1 DEF Listed
  <2>3. 0 # Up /\ 0 \in 0..Len(manifest)
    BY <1>t DEF Up
  <2> QED
    BY <1>i, <2>1, <2>2, <2>3 DEF SurvivalInv, ThreadsKeepUp, Replayed
<1>10. ASSUME Entrypoint PROVE SurvivalInv'
  <2>1. /\ boot # Up /\ UNCHANGED <<manifest, answered, pc, plan>>
        /\ installed \subseteq installed'
    BY <1>10 DEF Entrypoint, Replay, ReplayDone, ReplayStops, memory
  <2>2. /\ \A p : Present(p) => Present(p)'
        /\ \A p : Listed(p) => Listed(p)'
    BY <2>1, OnlyMore
  <2>3. /\ ~gaveUp /\ boot \in 0..Len(manifest)
        /\ \A i \in 1..boot : Present(manifest[i])
        /\ \A w \in Workers : pc[w] = "idle"
    BY <1>i, <2>1 DEF Replayed
  <2>4. Replayed'
    <3>1. CASE Replay
      <4>1. /\ boot' = boot + 1 /\ boot < Len(manifest) /\ gaveUp' = gaveUp
            /\ manifest[boot + 1] \in installed'
        BY <3>1 DEF Replay
      <4>2. \A i : i = boot + 1 => Present(manifest[i])'
        BY <2>1, <4>1 DEF Present
      <4>3. boot' # Up /\ boot' \in 0..Len(manifest)
        BY <1>t, <2>3, <4>1 DEF Up
      <4>4. \A i \in 1..boot' : i \in 1..boot \/ i = boot + 1
        BY <2>3, <4>1
      <4> QED
        BY <2>1, <2>2, <2>3, <4>1, <4>2, <4>3, <4>4 DEF Replayed
    <3>2. CASE ReplayDone
      BY <3>2, <2>1, <2>2, <2>3 DEF ReplayDone, Replayed
    <3>3. CASE ReplayStops
      BY <3>3 DEF ReplayStops, Replayed
    <3> QED
      BY <1>10, <3>1, <3>2, <3>3 DEF Entrypoint
  <2>5. ThreadsKeepUp'
    BY <2>1, <2>3 DEF ThreadsKeepUp
  <2> QED
    BY <1>i, <2>1, <2>2, <2>4, <2>5 DEF SurvivalInv
<1> QED
  BY <1>2, <1>3, <1>4, <1>5, <1>6, <1>7, <1>8, <1>9, <1>10 DEF Next, Thread

\* What a client was told is installed is there whenever the desktop is up,
\* unless the replay gave up.
THEOREM InstallsSurvive == Spec => []AnsweredInstallsSurvive
<1>1. SurvivalInv => AnsweredInstallsSurvive
  BY DEF SurvivalInv, Replayed, Present, Listed, AnsweredInstallsSurvive
<1> QED
  BY <1>1, InitTypeOK, StepTypeOK, InitSurvival, StepSurvival, PTL DEF Spec
=============================================================================
