----------------------------- MODULE ControlProofs -----------------------------
(***************************************************************************)
(* Theorems about what the handler threads of the control API share (the   *)
(* lease and the event log of control/api.py): about ControlLease for every *)
(* set of clients, every TTL and every batch length, and about EventLog    *)
(* for every capacity and number of streams.                               *)
(***************************************************************************)
EXTENDS ControlLease, EventLog, SequenceTheorems, TLAPS

-----------------------------------------------------------------------------
(* The control lease.                                                      *)

\* The invariant that carries the proofs: types, and the lease belonging to
\* the last successful claim.
IInv == TypeOK /\ AcceptedOnlyAfterLastClaim

\* An id names one actor, and a granted lease is live.
LEMMA GrantFacts ==
  ASSUME NEW id \in Ids
  PROVE  /\ Grant(id) \in Leases
         /\ Grant(id).owner = ActorOf(id)
         /\ Grant(id).id = id
         /\ Grant(id).remaining = TTL(ActorOf(id))
         /\ Grant(id).remaining \in Nat \ {0}
         /\ id # NoId
         /\ ActorOf(id) \in {"agent", "human"}
BY TTLAssumption, IdAssumption DEF Grant, Leases, Ids, ActorOf, TTL

\* What the expiry check can return.
LEMMA ExpireFacts ==
  ASSUME NEW l \in Leases
  PROVE  /\ Expire(l) \in Leases
         /\ Expire(l) = l \/ Expire(l) = NoLease
         /\ l.remaining = 0 => Expire(l) = NoLease
         /\ l.remaining # 0 => Expire(l) = l
         /\ Expire(Expire(l)) = Expire(l)
BY DEF Expire, NoLease, Leases, Ids

\* A renewed lease keeps its owner and is live for a full TTL.
LEMMA RenewFacts ==
  ASSUME NEW l \in Leases
  PROVE  /\ Renew(l) \in Leases
         /\ Renew(l).owner = l.owner
         /\ Renew(l).id = l.id
         /\ Renew(l).remaining = TTL(l.owner)
         /\ Renew(l).remaining \in Nat \ {0}
BY TTLAssumption DEF Renew, Leases, TTL

\* Time only shortens a lease.
LEMMA TickFacts ==
  ASSUME NEW l \in Leases
  PROVE  /\ LeaseTick(l) \in Leases
         /\ LeaseTick(l).owner = l.owner
         /\ LeaseTick(l).id = l.id
         /\ LeaseTick(l).remaining <= l.remaining
BY DEF LeaseTick, Leases

LEMMA NoLeaseFacts ==
  /\ NoLease \in Leases
  /\ NoLease.id = NoId /\ NoLease.owner = "none" /\ NoLease.remaining = 0
  /\ NoId \notin Ids
BY IdAssumption DEF NoLease, Leases, Ids

\* Counting a batch down keeps it in range.
LEMMA BatchFacts ==
  ASSUME NEW f \in [Agents -> 0..MaxBatch], NEW a \in Agents
  PROVE  /\ \A n \in 0..MaxBatch :
                [f EXCEPT ![a] = n] \in [Agents -> 0..MaxBatch]
         /\ f[a] > 0 => f[a] - 1 \in 0..MaxBatch
         /\ 0 \in 0..MaxBatch /\ 1..MaxBatch \subseteq 0..MaxBatch
<1>1. 0 \in 0..MaxBatch /\ 1..MaxBatch \subseteq 0..MaxBatch
  BY BatchAssumption
<1>2. f[a] \in 0..MaxBatch
  OBVIOUS
<1> QED BY <1>1, <1>2, BatchAssumption

LEMMA InitIInv == Init => IInv
BY NoLeaseFacts, BatchAssumption, TTLAssumption
   DEF Init, IInv, TypeOK, AcceptedOnlyAfterLastClaim, NoAnswer, Answers, TTL

LEMMA StepIInv == IInv /\ [Next]_vars => IInv'
<1> SUFFICES ASSUME IInv, [Next]_vars PROVE IInv'
  OBVIOUS
<1> USE DEF IInv, TypeOK, AcceptedOnlyAfterLastClaim
<1>a. /\ Expire(lease) \in Leases
      /\ Expire(lease) = lease \/ Expire(lease) = NoLease
      /\ TTL("none") \in Nat
  BY ExpireFacts, TTLAssumption DEF TTL
<1>b. ASSUME NEW id \in Ids, NEW op \in Ops, Refuse(id, op),
             UNCHANGED silent, batch' \in [Agents -> 0..MaxBatch]
      PROVE  IInv'
  BY <1>a, <1>b, NoLeaseFacts DEF Refuse, Reply, Answers
<1>c. Agents \subseteq Ids
  BY DEF Ids
<1>1. CASE GetState
  BY <1>1, <1>a, NoLeaseFacts DEF GetState, NoAnswer, Answers
<1>2. CASE Tick
  <2>1. lease'.remaining <= TTL(lease'.owner)
    BY <1>2, TickFacts, TTLAssumption DEF Tick, TTL, Leases
  <2> QED
    BY <2>1, <1>2, TickFacts DEF Tick, NoAnswer, Answers
<1>3. ASSUME NEW id \in Ids, Claim(id) PROVE IInv'
  <2>1. CASE MayClaim(lease, id)
    <3>1. lease' = Grant(id) /\ granted' = id /\ Reply(id, "claim", TRUE)
      BY <1>3, <2>1 DEF Claim, Refuse
    <3>2. lease'.remaining <= TTL(lease'.owner)
      BY <3>1, GrantFacts
    <3> QED
      BY <1>3, <3>1, <3>2, GrantFacts DEF Claim, Reply, Answers, Ops
  <2>2. CASE ~MayClaim(lease, id)
    BY <1>3, <1>b, <2>2 DEF Claim, Ops
  <2> QED BY <2>1, <2>2
<1>4. ASSUME NEW id \in Ids, Heartbeat(id) PROVE IInv'
  <2>1. CASE Holds(lease, id)
    <3>1. lease.id = id /\ lease.id # NoId
      BY <2>1, <1>a, NoLeaseFacts DEF Holds, Names
    <3>2. /\ lease' = Renew(lease) /\ UNCHANGED granted
          /\ Reply(id, "heartbeat", TRUE)
      BY <1>4, <2>1 DEF Heartbeat
    <3>3. lease'.remaining <= TTL(lease'.owner)
      BY <3>2, RenewFacts
    <3> QED
      BY <1>4, <3>1, <3>2, <3>3, RenewFacts DEF Heartbeat, Reply, Answers, Ops
  <2>2. CASE ~Holds(lease, id)
    BY <1>4, <1>b, <2>2 DEF Heartbeat, Ops
  <2> QED BY <2>1, <2>2
<1>5. ASSUME NEW id \in Ids, Release(id) PROVE IInv'
  <2>1. CASE Holds(lease, id)
    <3>1. /\ lease' = NoLease /\ granted' = NoId
          /\ Reply(id, "release", TRUE)
      BY <1>5, <2>1 DEF Release, Refuse
    <3> QED
      BY <1>5, <1>a, <3>1, NoLeaseFacts DEF Release, Reply, Answers, Ops
  <2>2. CASE ~Holds(lease, id)
    BY <1>5, <1>b, <2>2 DEF Release, Ops
  <2> QED BY <2>1, <2>2
<1>6. ASSUME NEW id \in Ids, GoSilent(id) PROVE IInv'
  BY <1>6 DEF GoSilent, NoAnswer, Answers
<1>7. ASSUME NEW a \in Agents, StartBatch(a) PROVE IInv'
  <2>1. CASE Holds(lease, a)
    <3>1. lease.id = a /\ lease.id # NoId /\ Expire(lease) = lease
      BY <2>1, <1>a, <1>c, NoLeaseFacts DEF Holds, Names
    <3>2. /\ lease' = lease /\ UNCHANGED granted
          /\ Reply(a, "assert", TRUE)
          /\ batch' \in [Agents -> 0..MaxBatch]
      BY <1>7, <2>1, <3>1, BatchFacts DEF StartBatch
    <3> QED
      BY <1>7, <1>c, <3>1, <3>2 DEF StartBatch, Reply, Answers, Ops
  <2>2. CASE ~Holds(lease, a)
    BY <1>7, <1>b, <1>c, <2>2 DEF StartBatch, Ops
  <2> QED BY <2>1, <2>2
<1>8. ASSUME NEW a \in Agents, BatchAction(a) PROVE IInv'
  <2>1. batch' \in [Agents -> 0..MaxBatch]
    <3>1. batch[a] - 1 \in 0..MaxBatch /\ 0 \in 0..MaxBatch
      BY <1>8, BatchFacts DEF BatchAction
    <3>2. \E n \in 0..MaxBatch : batch' = [batch EXCEPT ![a] = n]
      BY <1>8, <3>1 DEF BatchAction
    <3> QED BY <3>2, BatchFacts
  <2>2. CASE MayExtend(lease, a)
    <3>1. lease.id = a /\ lease.id # NoId
      BY <2>2, <1>a, <1>c, NoLeaseFacts DEF MayExtend, Holds, Names
    <3>2. /\ lease' = Renew(lease) /\ UNCHANGED granted
          /\ Reply(a, "extend", TRUE)
      BY <1>8, <2>2 DEF BatchAction
    <3>3. lease'.remaining <= TTL(lease'.owner)
      BY <3>2, RenewFacts
    <3> QED
      BY <1>8, <1>c, <2>1, <3>1, <3>2, <3>3, RenewFacts
         DEF BatchAction, Reply, Answers, Ops
  <2>3. CASE ~MayExtend(lease, a)
    BY <1>8, <1>b, <1>c, <2>1, <2>3 DEF BatchAction, Ops
  <2> QED BY <2>2, <2>3
<1>9. CASE UNCHANGED vars
  BY <1>9 DEF vars
<1> QED
  BY <1>1, <1>2, <1>3, <1>4, <1>5, <1>6, <1>7, <1>8, <1>9 DEF Next

-----------------------------------------------------------------------------
\* The fields of the lease, the batches and the replies always have their
\* types; no lease outlives the TTL of its owner's kind.
THEOREM TypeCorrect == Spec => []TypeOK
<1>1. IInv => TypeOK
  BY DEF IInv
<1> QED
  BY <1>1, InitIInv, StepIInv, PTL DEF Spec

\* Only the client of the last successful, unreleased claim has a heartbeat or
\* an input call accepted, whoever else claimed, lapsed or polled before.
THEOREM DisplacedClientsAreTold == Spec => []AcceptedOnlyAfterLastClaim
<1>1. IInv => AcceptedOnlyAfterLastClaim
  BY DEF IInv
<1> QED
  BY <1>1, InitIInv, StepIInv, PTL DEF Spec

-----------------------------------------------------------------------------
\* What the effective controller is, and what a rejected call does to it.
LEMMA ControllerFacts ==
  ASSUME TypeOK
  PROVE  /\ Controller(lease) = IF lease.remaining = 0 THEN NoId ELSE lease.id
         /\ Controller(Expire(lease)) = Controller(lease)
         /\ \A id \in Ids : Holds(lease, id) <=> Controller(lease) = id
         /\ Expire(lease).owner = "none" <=> Controller(lease) = NoId
<1> USE DEF TypeOK
<1>1. ASSUME NEW id \in Ids
      PROVE  Holds(lease, id) <=> Controller(lease) = id
  BY IdAssumption, ExpireFacts, NoLeaseFacts DEF Holds, Names, Controller, Expire, Leases
<1>2. Expire(lease).owner = "none" <=> Controller(lease) = NoId
  BY GrantFacts, NoLeaseFacts, ExpireFacts DEF Controller, Expire, Leases
<1> QED
  BY <1>1, <1>2, NoLeaseFacts, ExpireFacts DEF Controller, Expire, NoLease

\* One step of the lease is one step of the handoff, or none.
LEMMA StepHandoff ==
  ASSUME TypeOK, [Next]_vars
  PROVE  [H!Next]_(Controller(lease))
<1> USE DEF TypeOK
<1>a. Expire(lease) \in Leases /\ Agents \subseteq Ids /\ Humans \subseteq Ids
  BY ExpireFacts DEF Ids
<1>b. ASSUME NEW id \in Ids, NEW op \in Ops, Refuse(id, op)
      PROVE  UNCHANGED Controller(lease)
  BY <1>b, ControllerFacts DEF Refuse, Controller, Expire
<1>c. ASSUME lease' = Renew(lease), lease.id # NoId
      PROVE  Controller(lease') = lease.id
  BY <1>c, RenewFacts DEF Controller, Expire
<1>1. CASE GetState
  BY <1>1, ControllerFacts DEF GetState, Controller, Expire
<1>2. CASE Tick
  <2>1. Controller(lease') \in {Controller(lease), NoId}
    BY <1>2, TickFacts, NoLeaseFacts DEF Tick, Controller, Expire, Leases
  <2> QED
    BY <2>1 DEF H!Next, H!Leaves, Controller
<1>3. ASSUME NEW id \in Ids, Claim(id)
      PROVE  [H!Next]_(Controller(lease))
  <2>1. CASE MayClaim(lease, id)
    <3>1. lease' = Grant(id)
      BY <1>3, <2>1 DEF Claim, Refuse
    <3>2. Controller(lease') = id
      BY <3>1, GrantFacts DEF Controller, Expire
    <3>3. id \in Humans \/ Controller(lease) \in {NoId, id}
      BY <2>1, ControllerFacts DEF MayClaim
    <3>4. CASE id \in Humans
      BY <3>2, <3>4 DEF H!Next, H!HumanTakes, Controller
    <3>5. CASE id \in Agents /\ Controller(lease) \in {NoId, id}
      BY <3>2, <3>5 DEF H!Next, H!AgentTakes, Controller
    <3> QED BY <3>3, <3>4, <3>5 DEF Ids
  <2>2. CASE ~MayClaim(lease, id)
    BY <1>3, <1>b, <2>2 DEF Claim, Ops
  <2> QED BY <2>1, <2>2
<1>4. ASSUME NEW id \in Ids, Heartbeat(id)
      PROVE  UNCHANGED Controller(lease)
  <2>1. CASE Holds(lease, id)
    <3>1. Controller(lease) = id /\ lease.id = id /\ id # NoId
      BY <2>1, ControllerFacts, NoLeaseFacts
    <3>2. lease' = Renew(lease)
      BY <1>4, <2>1 DEF Heartbeat
    <3> QED BY <3>1, <3>2, <1>c DEF Controller
  <2>2. CASE ~Holds(lease, id)
    BY <1>4, <1>b, <2>2 DEF Heartbeat, Ops
  <2> QED BY <2>1, <2>2
<1>5. ASSUME NEW id \in Ids, Release(id)
      PROVE  [H!Next]_(Controller(lease))
  <2>1. CASE Holds(lease, id)
    <3>1. Controller(lease') = NoId
      BY <1>5, <2>1, NoLeaseFacts DEF Release, Refuse, Controller, Expire
    <3> QED BY <3>1 DEF H!Next, H!Leaves, Controller
  <2>2. CASE ~Holds(lease, id)
    BY <1>5, <1>b, <2>2 DEF Release, Ops
  <2> QED BY <2>1, <2>2
<1>6. ASSUME NEW id \in Ids, GoSilent(id)
      PROVE  UNCHANGED Controller(lease)
  BY <1>6 DEF GoSilent, Controller
<1>7. ASSUME NEW a \in Agents, StartBatch(a)
      PROVE  UNCHANGED Controller(lease)
  <2>1. CASE Holds(lease, a)
    <3>1. lease' = Expire(lease)
      BY <1>7, <2>1 DEF StartBatch
    <3> QED BY <3>1, ControllerFacts DEF Controller, Expire
  <2>2. CASE ~Holds(lease, a)
    BY <1>7, <1>a, <1>b, <2>2 DEF StartBatch, Ops
  <2> QED BY <2>1, <2>2
<1>8. ASSUME NEW a \in Agents, BatchAction(a)
      PROVE  [H!Next]_(Controller(lease))
  <2>1. CASE MayExtend(lease, a)
    <3>1. lease.id = a /\ a # NoId
      BY <2>1, <1>a, ControllerFacts, NoLeaseFacts DEF MayExtend, Names
    <3>2. lease' = Renew(lease)
      BY <1>8, <2>1 DEF BatchAction
    <3>3. Controller(lease') = a
      BY <3>1, <3>2, <1>c
    <3>4. Controller(lease) \in {NoId, a}
      BY <3>1, ControllerFacts
    <3> QED BY <3>3, <3>4 DEF H!Next, H!AgentTakes, Controller
  <2>2. CASE ~MayExtend(lease, a)
    BY <1>8, <1>a, <1>b, <2>2 DEF BatchAction, Ops
  <2> QED BY <2>1, <2>2
<1>9. CASE UNCHANGED vars
  BY <1>9 DEF vars, Controller
<1> QED
  BY <1>1, <1>2, <1>3, <1>4, <1>5, <1>6, <1>7, <1>8, <1>9 DEF Next

\* The lease implements the abstract handoff: with any clients, TTLs, lapses,
\* polls and revivals, an agent becomes controller only when nobody is, and a
\* human whenever one claims.
THEOREM LeaseImplementsHandoff == Spec => HandoffImplemented
<1>1. Init => H!Init
  BY NoLeaseFacts DEF Init, H!Init, Controller, Expire
<1> QED
  BY <1>1, StepHandoff, TypeCorrect, PTL DEF Spec, HandoffImplemented, H!Spec

\* While a lease is live only time, its owner's release or a human's claim
\* ends or shortens it.
THEOREM LiveLeaseIsKept == Spec => LiveLeaseKept
<1> DEFINE Kept == lease'.id = lease.id /\ lease'.remaining >= lease.remaining
           Released == answer' = [to |-> lease.id, op |-> "release", ok |-> TRUE]
           Taken == \E h \in Humans :
                       answer' = [to |-> h, op |-> "claim", ok |-> TRUE]
<1>1. ASSUME TypeOK, Next, Controller(lease) # NoId
      PROVE  Kept \/ Tick \/ Released \/ Taken
  <2> USE <1>1 DEF TypeOK
  <2>a. /\ Expire(lease) = lease /\ Controller(lease) = lease.id
        /\ lease.remaining \in Nat /\ lease.remaining > 0
        /\ Agents \subseteq Ids
    BY ExpireFacts, NoLeaseFacts, ControllerFacts DEF Controller, Leases, Ids
  <2>b. ASSUME lease' = Renew(lease) PROVE Kept
    <3>1. lease'.id = lease.id /\ lease'.remaining = TTL(lease.owner)
      BY <2>b, RenewFacts
    <3> QED BY <3>1, <2>a, TTLAssumption DEF TTL
  <2>c. ASSUME NEW id, NEW op, Refuse(id, op) PROVE Kept
    BY <2>a, <2>c DEF Refuse
  <2>1. CASE GetState
    BY <2>1, <2>a DEF GetState
  <2>2. ASSUME NEW id \in Ids, Claim(id) PROVE Kept \/ Taken
    <3>1. CASE MayClaim(lease, id)
      <4>1. lease' = Grant(id) /\ Reply(id, "claim", TRUE)
        BY <2>2, <3>1 DEF Claim, Refuse
      <4>2. CASE id \in Humans
        BY <4>1, <4>2 DEF Reply
      <4>3. CASE id \notin Humans
        <5>1. Controller(lease) = id
          BY <3>1, <4>3, ControllerFacts DEF MayClaim
        <5>2. lease.id = id /\ lease.owner = ActorOf(id)
          BY <5>1, <2>a
        <5>3. /\ lease'.id = id /\ lease'.remaining = TTL(ActorOf(id))
          BY <4>1, GrantFacts
        <5> QED BY <5>2, <5>3, <2>a, TTLAssumption DEF TTL
      <4> QED BY <4>2, <4>3
    <3>2. CASE ~MayClaim(lease, id)
      BY <2>2, <2>c, <3>2 DEF Claim
    <3> QED BY <3>1, <3>2
  <2>3. ASSUME NEW id \in Ids, Heartbeat(id) PROVE Kept
    BY <2>3, <2>b, <2>c DEF Heartbeat
  <2>4. ASSUME NEW id \in Ids, Release(id) PROVE Kept \/ Released
    <3>1. CASE Holds(lease, id)
      BY <2>4, <2>a, <3>1, ControllerFacts DEF Release, Reply
    <3>2. CASE ~Holds(lease, id)
      BY <2>4, <2>c, <3>2 DEF Release
    <3> QED BY <3>1, <3>2
  <2>5. ASSUME NEW id \in Ids, GoSilent(id) PROVE Kept
    BY <2>5, <2>a DEF GoSilent
  <2>6. ASSUME NEW a \in Agents, StartBatch(a) PROVE Kept
    <3>1. lease' = Expire(lease) \/ Refuse(a, "assert")
      BY <2>6 DEF StartBatch
    <3>2. CASE lease' = Expire(lease)
      <4>1. lease' = lease
        BY <2>a, <3>2
      <4> QED BY <4>1, <2>a
    <3> QED BY <3>1, <3>2, <2>c
  <2>7. ASSUME NEW a \in Agents, BatchAction(a) PROVE Kept
    BY <2>7, <2>b, <2>c DEF BatchAction
  <2> QED
    BY <2>1, <2>2, <2>3, <2>4, <2>5, <2>6, <2>7 DEF Next
<1>2. ASSUME TypeOK, [Next]_vars
      PROVE  [Controller(lease) # NoId => Kept \/ Tick \/ Released \/ Taken]_vars
  BY <1>1, <1>2
<1> QED
  BY <1>2, TypeCorrect, PTL DEF Spec, LiveLeaseKept

-----------------------------------------------------------------------------
(* The event log.                                                          *)

(***************************************************************************)
(* Runs of consecutive numbers.  The n events up to e are Run(e - n + 1, n).*)
(***************************************************************************)

UpTo(e, n) == Run(e - n + 1, n)

LEMMA RunFacts ==
  ASSUME NEW first \in Int, NEW n \in Nat
  PROVE  /\ Run(first, n) \in Seq(Int) /\ Len(Run(first, n)) = n
         /\ \A i \in 1..n : Run(first, n)[i] = first + i - 1
<1>1. \A i \in 1..n : first + i - 1 \in Int
  OBVIOUS
<1>2. [i \in 1..n |-> first + i - 1] \in Seq(Int)
  BY <1>1, SMT
<1> QED
  BY <1>2 DEF Run

LEMMA UpToFacts ==
  ASSUME NEW e \in Nat, NEW n \in Nat
  PROVE  /\ UpTo(e, n) \in Seq(Int) /\ Len(UpTo(e, n)) = n
         /\ \A i \in 1..n : UpTo(e, n)[i] = e - n + i
<1>1. e - n + 1 \in Int
  OBVIOUS
<1>2. \A i \in 1..n : (e - n + 1) + i - 1 = e - n + i
  OBVIOUS
<1> QED
  BY <1>1, <1>2, RunFacts DEF UpTo

LEMMA AppendToRun ==
  ASSUME NEW e \in Nat, NEW n \in Nat
  PROVE  Append(UpTo(e, n), e + 1) = UpTo(e + 1, n + 1)
<1>1. /\ UpTo(e, n) \in Seq(Int) /\ Len(UpTo(e, n)) = n
      /\ \A i \in 1..n : UpTo(e, n)[i] = e - n + i
  BY UpToFacts
<1>2. /\ UpTo(e + 1, n + 1) \in Seq(Int) /\ Len(UpTo(e + 1, n + 1)) = n + 1
      /\ \A i \in 1..(n + 1) : UpTo(e + 1, n + 1)[i] = e - n + i
  BY UpToFacts
<1>3. /\ Append(UpTo(e, n), e + 1) \in Seq(Int)
      /\ Len(Append(UpTo(e, n), e + 1)) = n + 1
      /\ \A i \in 1..n : Append(UpTo(e, n), e + 1)[i] = e - n + i
      /\ Append(UpTo(e, n), e + 1)[n + 1] = e + 1
  BY <1>1, AppendProperties
<1>4. \A i \in 1..(n + 1) : Append(UpTo(e, n), e + 1)[i] = UpTo(e + 1, n + 1)[i]
  BY <1>2, <1>3
<1>5. \A s, t \in Seq(Int) :
        Len(s) = Len(t) /\ (\A i \in 1..Len(s) : s[i] = t[i]) => s = t
  BY SeqEqual
<1> HIDE DEF UpTo
<1> QED
  BY <1>2, <1>3, <1>4, <1>5

LEMMA TailOfRun ==
  ASSUME NEW e \in Nat, NEW n \in Nat \ {0}
  PROVE  Tail(UpTo(e, n)) = UpTo(e, n - 1)
<1>1. /\ UpTo(e, n) \in Seq(Int) /\ Len(UpTo(e, n)) = n /\ UpTo(e, n) # <<>>
      /\ \A i \in 1..n : UpTo(e, n)[i] = e - n + i
  BY UpToFacts
<1>2. /\ UpTo(e, n - 1) \in Seq(Int) /\ Len(UpTo(e, n - 1)) = n - 1
      /\ \A i \in 1..(n - 1) : UpTo(e, n - 1)[i] = e - (n - 1) + i
  <2>1. n - 1 \in Nat
    OBVIOUS
  <2> QED
    BY <2>1, UpToFacts
<1>3. /\ Tail(UpTo(e, n)) \in Seq(Int) /\ Len(Tail(UpTo(e, n))) = n - 1
      /\ \A i \in 1..(n - 1) : Tail(UpTo(e, n))[i] = e - n + (i + 1)
  BY <1>1, HeadTailProperties
<1>4. \A i \in 1..(n - 1) : Tail(UpTo(e, n))[i] = UpTo(e, n - 1)[i]
  BY <1>2, <1>3
<1>5. Len(Tail(UpTo(e, n))) = Len(UpTo(e, n - 1))
  BY <1>2, <1>3
<1>6. \A s, t \in Seq(Int) :
        Len(s) = Len(t) /\ (\A i \in 1..Len(s) : s[i] = t[i]) => s = t
  BY SeqEqual
<1> HIDE DEF UpTo
<1> QED
  BY <1>2, <1>3, <1>4, <1>5, <1>6

\* A beginning of a run is a run from the same event on.
LEMMA BeginningOfRun ==
  ASSUME NEW r \in Seq(Int), NEW t \in Seq(Int), NEW first \in Int, NEW n \in Nat,
         r \o t = Run(first, n), r # <<>>
  PROVE  r = Run(r[1], Len(r))
<1>1. Len(r) \in Nat \ {0} /\ Len(t) \in Nat /\ Len(r \o t) = Len(r) + Len(t)
  BY EmptySeq, LenProperties, ConcatProperties
<1>2. \A i \in 1..Len(r) : (r \o t)[i] = r[i]
  BY <1>1, ConcatProperties
<1>3. n = Len(r \o t) /\ \A i \in 1..n : (r \o t)[i] = first + i - 1
  BY RunFacts
<1>4. \A i \in 1..Len(r) : r[i] = first + i - 1
  BY <1>1, <1>2, <1>3
<1>5. r[1] = first
  BY <1>1, <1>4
<1> QED
  BY <1>1, <1>4, <1>5, RunFacts, SeqEqual

(***************************************************************************)
(* What a stream has read, its backlog and its queue, one after the other. *)
(***************************************************************************)

\* Reading the head of what is to come leaves the whole as it is.
LEMMA ReadFacts ==
  ASSUME NEW r \in Seq(Int), NEW t \in Seq(Int), t # <<>>
  PROVE  Append(r, Head(t)) \o Tail(t) = r \o t
<1>1. /\ Head(t) \in Int /\ Tail(t) \in Seq(Int) /\ Len(Tail(t)) = Len(t) - 1
      /\ \A i \in 1..(Len(t) - 1) : Tail(t)[i] = t[i + 1]
      /\ Head(t) = t[1] /\ Len(t) \in Nat \ {0} /\ Len(r) \in Nat
  BY HeadTailProperties, EmptySeq, LenProperties
<1>2. /\ Append(r, Head(t)) \in Seq(Int)
      /\ Len(Append(r, Head(t))) = Len(r) + 1
      /\ \A i \in 1..Len(r) : Append(r, Head(t))[i] = r[i]
      /\ Append(r, Head(t))[Len(r) + 1] = t[1]
  BY <1>1, AppendProperties
<1> DEFINE left == Append(r, Head(t)) \o Tail(t)
<1>3. left \in Seq(Int) /\ Len(left) = Len(r) + Len(t)
  BY <1>1, <1>2, ConcatProperties
<1>4. r \o t \in Seq(Int) /\ Len(r \o t) = Len(r) + Len(t)
  BY <1>1, ConcatProperties
<1>5. ASSUME NEW i \in 1..(Len(r) + Len(t)) PROVE left[i] = (r \o t)[i]
  <2>1. left[i] = IF i <= Len(r) + 1 THEN Append(r, Head(t))[i]
                                     ELSE Tail(t)[i - (Len(r) + 1)]
    BY <1>1, <1>2, ConcatProperties
  <2>2. (r \o t)[i] = IF i <= Len(r) THEN r[i] ELSE t[i - Len(r)]
    BY <1>1, ConcatProperties
  <2> QED
    BY <1>1, <1>2, <2>1, <2>2
<1> QED
  BY <1>3, <1>4, <1>5, SeqEqual

LEMMA Regroup ==
  ASSUME NEW r \in Seq(Int), NEW b \in Seq(Int), NEW q \in Seq(Int)
  PROVE  r \o b \o q = r \o (b \o q)
<1> DEFINE lhs == r \o b \o q
           rhs == r \o (b \o q)
<1>1. /\ lhs \in Seq(Int) /\ Len(lhs) = Len(r) + Len(b) + Len(q)
      /\ \A i \in 1..Len(lhs) : lhs[i] = IF i <= Len(r) + Len(b) THEN (r \o b)[i]
                                         ELSE q[i - (Len(r) + Len(b))]
  BY ConcatProperties, LenProperties
<1>2. /\ rhs \in Seq(Int) /\ Len(rhs) = Len(r) + Len(b) + Len(q)
      /\ \A i \in 1..Len(rhs) : rhs[i] = IF i <= Len(r) THEN r[i]
                                         ELSE (b \o q)[i - Len(r)]
  BY ConcatProperties, LenProperties
<1>3. \A i \in 1..Len(lhs) : lhs[i] = rhs[i]
  BY <1>1, <1>2, ConcatProperties, LenProperties
<1> HIDE DEF lhs, rhs
<1>4. lhs = rhs
  BY <1>1, <1>2, <1>3, SeqEqual
<1> QED
  BY <1>4 DEF lhs, rhs

LEMMA AppendLast ==
  ASSUME NEW s \in Seq(Int), NEW q \in Seq(Int), NEW e \in Int
  PROVE  s \o Append(q, e) = Append(s \o q, e)
<1> DEFINE one == <<e>>
<1>1. one \in Seq(Int) /\ s \o q \in Seq(Int)
  BY ConcatProperties
<1>2. Append(q, e) = q \o one /\ Append(s \o q, e) = (s \o q) \o one
  BY <1>1, AppendIsConcat
<1> HIDE DEF one
<1>3. (s \o q) \o one = s \o (q \o one)
  BY <1>1, Regroup
<1> QED
  BY <1>2, <1>3

\* An event that is put into the queue is put at the end of the whole.
LEMMA QueueFacts ==
  ASSUME NEW r \in Seq(Int), NEW b \in Seq(Int), NEW q \in Seq(Int), NEW e \in Int
  PROVE  r \o b \o Append(q, e) = Append(r \o b \o q, e)
<1>1. r \o b \in Seq(Int)
  BY ConcatProperties
<1> QED
  BY <1>1, AppendLast
-----------------------------------------------------------------------------
LEMMA InitLogTypeOK == LogInit => LogTypeOK
BY CapacityAssumption DEF LogInit, LogTypeOK

LEMMA RememberFacts ==
  ASSUME LogTypeOK, NEW e \in Events
  PROVE  Remember(e) \in Seq(Events) /\ Len(Remember(e)) <= Capacity
<1>1. CASE Len(entries) = Capacity
  <2>1. entries # <<>>
    BY <1>1, CapacityAssumption
  <2>2. Tail(entries) \in Seq(Events) /\ Len(Tail(entries)) = Capacity - 1
    BY <1>1, <2>1, HeadTailProperties DEF LogTypeOK
  <2> QED
    BY <1>1, <2>2, CapacityAssumption, AppendProperties DEF Remember
<1>2. CASE Len(entries) # Capacity
  <2>1. Len(entries) + 1 <= Capacity
    BY <1>2, CapacityAssumption, LenProperties DEF LogTypeOK
  <2> QED
    BY <1>2, <2>1, AppendProperties DEF Remember, LogTypeOK
<1> QED
  BY <1>1, <1>2

LEMMA UnsubscribeLogTypeOK ==
  ASSUME LogTypeOK, NEW s \in Streams, Unsubscribe(s),
         UNCHANGED <<emitted, entries, open, received>>
  PROVE  LogTypeOK'
<1>1. /\ queue' \in [Streams -> Seq(Events)] /\ backlog' \in [Streams -> Seq(Events)]
      /\ status' \in [Streams -> {"new", "streaming", "closed"}]
  BY EmptySeq DEF LogTypeOK, Unsubscribe
<1>2. registered' = {r \in Streams : status'[r] = "streaming"}
  BY DEF LogTypeOK, Unsubscribe
<1> QED
  BY <1>1, <1>2 DEF LogTypeOK

\* A stream that ends leaves the others alone.
LEMMA OthersStay ==
  ASSUME LogTypeOK, NEW t \in Streams, Unsubscribe(t), NEW s \in Streams, s # t
  PROVE  UNCHANGED <<queue[s], backlog[s], status[s]>>
BY DEF Unsubscribe, LogTypeOK

LEMMA StepLogTypeOK == LogTypeOK /\ [LogNext]_logVars => LogTypeOK'
<1> SUFFICES ASSUME LogTypeOK, [LogNext]_logVars PROVE LogTypeOK'
  OBVIOUS
<1>1. ASSUME Emit PROVE LogTypeOK'
  <2>1. emitted + 1 \in Events /\ emitted' = emitted + 1
    BY <1>1, CapacityAssumption DEF Emit, LogTypeOK, Events
  <2>2. entries' \in Seq(Events) /\ Len(entries') <= Capacity
    BY <1>1, <2>1, RememberFacts DEF Emit
  <2>3. queue' \in [Streams -> Seq(Events)]
    BY <1>1, <2>1, AppendProperties DEF Emit, LogTypeOK
  <2> QED
    BY <1>1, <2>1, <2>2, <2>3 DEF Emit, LogTypeOK, Events
<1>2. ASSUME NEW s \in Streams, Subscribe(s) PROVE LogTypeOK'
  BY <1>2 DEF Subscribe, LogTypeOK
<1>3. ASSUME NEW s \in Streams, SendBacklog(s) PROVE LogTypeOK'
  <2>1. Head(backlog[s]) \in Events /\ Tail(backlog[s]) \in Seq(Events)
    BY <1>3, HeadTailProperties DEF SendBacklog, LogTypeOK
  <2>2. Append(received[s], Head(backlog[s])) \in Seq(Events)
    BY <2>1, AppendProperties DEF LogTypeOK
  <2>3. CASE open[s]
    <3>1. /\ received' = [received EXCEPT ![s] = Append(@, Head(backlog[s]))]
          /\ backlog' = [backlog EXCEPT ![s] = Tail(@)]
          /\ UNCHANGED <<emitted, entries, registered, queue, open, status>>
      BY <1>3, <2>3 DEF SendBacklog
    <3>2. received' \in [Streams -> Seq(Events)]
      BY <3>1, <2>2 DEF LogTypeOK
    <3>3. backlog' \in [Streams -> Seq(Events)]
      BY <3>1, <2>1 DEF LogTypeOK
    <3> QED
      BY <3>1, <3>2, <3>3 DEF LogTypeOK
  <2>4. CASE ~open[s]
    BY <1>3, <2>4, UnsubscribeLogTypeOK DEF SendBacklog
  <2> QED
    BY <2>3, <2>4
<1>4. ASSUME NEW s \in Streams, SendQueued(s) PROVE LogTypeOK'
  <2>1. Head(queue[s]) \in Events /\ Tail(queue[s]) \in Seq(Events)
    BY <1>4, HeadTailProperties DEF SendQueued, LogTypeOK
  <2>2. Append(received[s], Head(queue[s])) \in Seq(Events)
    BY <2>1, AppendProperties DEF LogTypeOK
  <2>3. CASE open[s]
    <3>1. /\ received' = [received EXCEPT ![s] = Append(@, Head(queue[s]))]
          /\ queue' = [queue EXCEPT ![s] = Tail(@)]
          /\ UNCHANGED <<emitted, entries, registered, backlog, open, status>>
      BY <1>4, <2>3 DEF SendQueued
    <3>2. received' \in [Streams -> Seq(Events)]
      BY <3>1, <2>2 DEF LogTypeOK
    <3>3. queue' \in [Streams -> Seq(Events)]
      BY <3>1, <2>1 DEF LogTypeOK
    <3> QED
      BY <3>1, <3>2, <3>3 DEF LogTypeOK
  <2>4. CASE ~open[s]
    BY <1>4, <2>4, UnsubscribeLogTypeOK DEF SendQueued
  <2> QED
    BY <2>3, <2>4
<1>5. ASSUME NEW s \in Streams, SendHeartbeat(s) PROVE LogTypeOK'
  BY <1>5, UnsubscribeLogTypeOK DEF SendHeartbeat
<1>6. ASSUME NEW s \in Streams, Leave(s) PROVE LogTypeOK'
  BY <1>6 DEF Leave, LogTypeOK
<1>7. ASSUME UNCHANGED logVars PROVE LogTypeOK'
  BY <1>7 DEF logVars, LogTypeOK
<1> QED
  BY <1>1, <1>2, <1>3, <1>4, <1>5, <1>6, <1>7 DEF LogNext, Serve

\* Ring, queues and streams are well formed in every reachable state: the ring
\* keeps no more than its capacity, and the registered queues are those of the
\* open streams.
THEOREM LogTypeCorrect == LogSpec => []LogTypeOK
BY InitLogTypeOK, StepLogTypeOK, PTL DEF LogSpec
-----------------------------------------------------------------------------
(* StreamsAreGapless speaks of what is on its way to a client.  It is      *)
(* inductive with what it says of the ring, which a new stream copies, and *)
(* of streams that have not begun or have ended.                           *)

RingIsTheEnd ==
  /\ entries = UpTo(emitted, Len(entries))
  /\ entries = <<>> => emitted = 0

Fresh(s) == received[s] = <<>> /\ backlog[s] = <<>> /\ queue[s] = <<>>

Following(s) ==
  /\ Pending(s) = UpTo(emitted, Len(Pending(s)))
  /\ Pending(s) = <<>> => emitted = 0

Ended(s) ==
  /\ backlog[s] = <<>> /\ queue[s] = <<>>
  /\ received[s] # <<>> => received[s] = Run(received[s][1], Len(received[s]))

GaplessInv ==
  /\ RingIsTheEnd
  /\ \A s \in Streams : /\ status[s] = "new" => Fresh(s)
                        /\ status[s] = "streaming" => Following(s)
                        /\ status[s] = "closed" => Ended(s)

LEMMA SequencesOfInt ==
  ASSUME LogTypeOK, NEW s \in Streams
  PROVE  /\ received[s] \in Seq(Int) /\ backlog[s] \in Seq(Int) /\ queue[s] \in Seq(Int)
         /\ emitted \in Nat /\ entries \in Seq(Int)
         /\ Pending(s) \in Seq(Int) /\ Len(Pending(s)) \in Nat
<1>1. Events \subseteq Int /\ emitted \in Nat
  BY CapacityAssumption DEF Events, LogTypeOK
<1>2. /\ received[s] \in Seq(Events) /\ backlog[s] \in Seq(Events)
      /\ queue[s] \in Seq(Events) /\ entries \in Seq(Events)
  BY DEF LogTypeOK
<1>3. \A q \in Seq(Events) : q \in Seq(Int)
  BY <1>1, SeqMonotonic
<1>4. /\ received[s] \in Seq(Int) /\ backlog[s] \in Seq(Int) /\ queue[s] \in Seq(Int)
      /\ entries \in Seq(Int)
  BY <1>2, <1>3
<1>5. received[s] \o backlog[s] \in Seq(Int)
  BY <1>4, ConcatProperties
<1>6. Pending(s) \in Seq(Int)
  BY <1>4, <1>5, ConcatProperties DEF Pending
<1> QED
  BY <1>1, <1>4, <1>6, LenProperties

LEMMA InitGapless == LogInit => GaplessInv
<1> SUFFICES ASSUME LogInit PROVE GaplessInv
  OBVIOUS
<1>1. Len(UpTo(0, 0)) = 0 /\ UpTo(0, 0) \in Seq(Int)
  BY UpToFacts
<1>2. UpTo(0, 0) = <<>> /\ Len(<<>>) = 0
  BY <1>1, EmptySeq
<1> QED
  BY <1>2 DEF LogInit, GaplessInv, RingIsTheEnd, Fresh

LEMMA GaplessSuffices ==
  ASSUME LogTypeOK, GaplessInv PROVE StreamsAreGapless
<1> SUFFICES ASSUME NEW s \in Streams
             PROVE  /\ Pending(s) # <<>> => Pending(s) = Run(Pending(s)[1], Len(Pending(s)))
                    /\ status[s] = "streaming" /\ Pending(s) # <<>>
                         => Pending(s)[Len(Pending(s))] = emitted
                    /\ status[s] = "streaming" /\ Pending(s) = <<>> => emitted = 0
  BY DEF StreamsAreGapless
<1>1. CASE status[s] = "streaming"
  <2>1. Pending(s) = UpTo(emitted, Len(Pending(s)))
    BY <1>1 DEF GaplessInv, Following
  <2>2. ASSUME Pending(s) # <<>>
        PROVE  /\ Pending(s)[1] = emitted - Len(Pending(s)) + 1
               /\ Pending(s)[Len(Pending(s))] = emitted
    <3>1. Len(Pending(s)) \in Nat \ {0} /\ emitted \in Nat
      BY <2>2, SequencesOfInt, EmptySeq
    <3>2. \A i \in 1..Len(Pending(s)) : Pending(s)[i] = emitted - Len(Pending(s)) + i
      BY <2>1, <3>1, UpToFacts
    <3> QED
      BY <3>1, <3>2
  <2> QED
    BY <1>1, <2>1, <2>2 DEF UpTo, GaplessInv, Following
<1>2. CASE status[s] = "new"
  <2>1. Pending(s) = <<>>
    BY <1>2 DEF GaplessInv, Fresh, Pending
  <2> QED
    BY <1>2, <2>1
<1>3. CASE status[s] = "closed"
  <2>1. Pending(s) = received[s] \o <<>> \o <<>>
    BY <1>3 DEF GaplessInv, Ended, Pending
  <2>2. received[s] \in Seq(Int) /\ received[s] \o <<>> = received[s]
    BY SequencesOfInt, ConcatEmptySeq
  <2>3. Pending(s) = received[s]
    BY <2>1, <2>2
  <2> QED
    BY <1>3, <2>3 DEF GaplessInv, Ended
<1> QED
  BY <1>1, <1>2, <1>3 DEF LogTypeOK

\* A stream that reads from what it has to read, or gives up, keeps its part.
LEMMA ServeFacts ==
  ASSUME LogTypeOK, GaplessInv, NEW s \in Streams, status[s] = "streaming",
         \/ /\ UNCHANGED <<status, emitted>>
            /\ Pending(s)' = Pending(s)
         \/ Unsubscribe(s) /\ UNCHANGED received
  PROVE  /\ status'[s] = "streaming" => Following(s)'
         /\ status'[s] = "closed" => Ended(s)'
         /\ status'[s] # "new"
<1>1. Following(s)
  BY DEF GaplessInv
<1>2. CASE UNCHANGED <<status, emitted>> /\ Pending(s)' = Pending(s)
  <2>1. Following(s)'
    BY <1>1, <1>2 DEF Following
  <2> QED
    BY <1>2, <2>1
<1>3. CASE Unsubscribe(s) /\ UNCHANGED received
  <2>1. /\ status'[s] = "closed" /\ queue'[s] = <<>> /\ backlog'[s] = <<>>
        /\ received' = received
    BY <1>3 DEF Unsubscribe, LogTypeOK
  <2>2. ASSUME received[s] # <<>>
        PROVE  received[s] = Run(received[s][1], Len(received[s]))
    <3>1. Pending(s) = received[s] \o (backlog[s] \o queue[s])
      <4>1. /\ received[s] \in Seq(Int) /\ backlog[s] \in Seq(Int)
            /\ queue[s] \in Seq(Int)
        BY SequencesOfInt
      <4> QED
        BY <4>1, Regroup DEF Pending
    <3>2. backlog[s] \o queue[s] \in Seq(Int)
      BY SequencesOfInt, ConcatProperties
    <3>3. PICK n \in Nat : Pending(s) = Run(emitted - n + 1, n)
      BY <1>1, SequencesOfInt DEF Following, UpTo
    <3>4. emitted - n + 1 \in Int
      BY SequencesOfInt
    <3>5. received[s] \in Seq(Int)
      BY SequencesOfInt
    <3> QED
      BY <2>2, <3>1, <3>2, <3>3, <3>4, <3>5, BeginningOfRun
  <2>3. Ended(s)'
    BY <2>1, <2>2 DEF Ended
  <2> QED
    BY <2>1, <2>3
<1> QED
  BY <1>2, <1>3

\* Only the threads of other streams and Emit may happen to a stream that does not
\* take a step itself.
LEMMA StepGapless == LogTypeOK /\ LogTypeOK' /\ GaplessInv /\ [LogNext]_logVars => GaplessInv'
<1> SUFFICES ASSUME LogTypeOK, LogTypeOK', GaplessInv, [LogNext]_logVars PROVE GaplessInv'
  OBVIOUS
<1>1. ASSUME Emit PROVE GaplessInv'
  <2>1. RingIsTheEnd'
    <3> DEFINE n == Len(entries)
    <3>1. n \in Nat /\ emitted \in Nat /\ entries = UpTo(emitted, n)
      BY CapacityAssumption, LenProperties DEF LogTypeOK, GaplessInv, RingIsTheEnd
    <3>2. PICK k \in Nat : entries' = UpTo(emitted + 1, k + 1)
      <4>1. CASE n = Capacity
        <5>1. n \in Nat \ {0} /\ n - 1 \in Nat
          BY <4>1, CapacityAssumption
        <5>2. entries' = Append(UpTo(emitted, n - 1), emitted + 1)
          BY <1>1, <3>1, <4>1, <5>1, TailOfRun DEF Emit, Remember
        <5> QED
          BY <3>1, <5>1, <5>2, AppendToRun
      <4>2. CASE n # Capacity
        <5>1. entries' = Append(UpTo(emitted, n), emitted + 1)
          BY <1>1, <3>1, <4>2 DEF Emit, Remember
        <5> QED
          BY <3>1, <5>1, AppendToRun
      <4> QED
        BY <4>1, <4>2
    <3>3. Len(entries') = k + 1 /\ entries' # <<>>
      BY <3>1, <3>2, UpToFacts, EmptySeq
    <3>4. emitted' = emitted + 1
      BY <1>1 DEF Emit
    <3> QED
      BY <3>2, <3>3, <3>4 DEF RingIsTheEnd
  <2>2. ASSUME NEW s \in Streams, status[s] = "streaming" PROVE Following(s)'
    <3> DEFINE n == Len(Pending(s))
    <3>1. /\ emitted' = emitted + 1 /\ UNCHANGED <<received, backlog>>
          /\ queue'[s] = Append(queue[s], emitted + 1)
      BY <1>1, <2>2 DEF Emit, LogTypeOK
    <3>2. n \in Nat /\ emitted \in Nat /\ Pending(s) = UpTo(emitted, n)
      BY <2>2, SequencesOfInt DEF GaplessInv, Following
    <3>3. Pending(s)' = Append(Pending(s), emitted + 1)
      <4>1. /\ received[s] \in Seq(Int) /\ backlog[s] \in Seq(Int)
            /\ queue[s] \in Seq(Int) /\ emitted + 1 \in Int
        BY <3>2, SequencesOfInt
      <4>2. received[s] \o backlog[s] \o Append(queue[s], emitted + 1)
              = Append(Pending(s), emitted + 1)
        BY <4>1, QueueFacts DEF Pending
      <4> QED
        BY <3>1, <4>2 DEF Pending
    <3>4. Pending(s)' = UpTo(emitted + 1, n + 1)
      BY <3>2, <3>3, AppendToRun
    <3>5. Len(Pending(s)') = n + 1 /\ Pending(s)' # <<>>
      BY <3>2, <3>4, UpToFacts, EmptySeq
    <3> QED
      BY <3>1, <3>4, <3>5 DEF Following
  <2>3. ASSUME NEW s \in Streams, status[s] # "streaming"
        PROVE  UNCHANGED <<received[s], backlog[s], queue[s]>>
    BY <1>1, <2>3 DEF Emit, LogTypeOK
  <2>4. status' = status
    BY <1>1 DEF Emit
  <2> QED
    BY <2>1, <2>2, <2>3, <2>4 DEF GaplessInv, Fresh, Ended
<1>2. ASSUME NEW s \in Streams, Subscribe(s) PROVE GaplessInv'
  <2>1. /\ UNCHANGED <<emitted, entries, queue, received>>
        /\ backlog'[s] = entries /\ status'[s] = "streaming"
        /\ \A r \in Streams \ {s} : UNCHANGED <<backlog[r], status[r]>>
    BY <1>2 DEF Subscribe, LogTypeOK
  <2>2. received[s] = <<>> /\ queue[s] = <<>>
    BY <1>2 DEF Subscribe, GaplessInv, Fresh
  <2>3. Pending(s)' = entries
    BY <2>1, <2>2, SequencesOfInt, ConcatEmptySeq DEF Pending
  <2>4. Following(s)'
    BY <2>1, <2>3 DEF GaplessInv, RingIsTheEnd, Following
  <2> QED
    BY <2>1, <2>4 DEF GaplessInv, RingIsTheEnd, Fresh, Following, Ended, Pending
<1>3. ASSUME NEW t \in Streams, Serve(t) PROVE GaplessInv'
  <2>1. UNCHANGED <<emitted, entries>>
    BY <1>3 DEF Serve, SendBacklog, SendQueued, SendHeartbeat
  <2>2. ASSUME NEW s \in Streams
        PROVE  /\ status'[s] = "new" => Fresh(s)'
               /\ status'[s] = "streaming" => Following(s)'
               /\ status'[s] = "closed" => Ended(s)'
    <3>1. CASE s # t
      <4>1. UNCHANGED <<emitted, received[s], backlog[s], queue[s], status[s]>>
        <5>1. CASE SendBacklog(t)
          <6>1. CASE open[t]
            BY <2>1, <3>1, <5>1, <6>1 DEF SendBacklog, LogTypeOK
          <6>2. CASE ~open[t]
            BY <2>1, <3>1, <5>1, <6>2, OthersStay DEF SendBacklog
          <6> QED
            BY <6>1, <6>2
        <5>2. CASE SendQueued(t)
          <6>1. CASE open[t]
            BY <2>1, <3>1, <5>2, <6>1 DEF SendQueued, LogTypeOK
          <6>2. CASE ~open[t]
            BY <2>1, <3>1, <5>2, <6>2, OthersStay DEF SendQueued
          <6> QED
            BY <6>1, <6>2
        <5>3. CASE SendHeartbeat(t)
          BY <2>1, <3>1, <5>3, OthersStay DEF SendHeartbeat
        <5> QED
          BY <1>3, <5>1, <5>2, <5>3 DEF Serve
      <4> QED
        BY <4>1 DEF GaplessInv, Fresh, Following, Ended, Pending
    <3>2. CASE s = t
      <4> DEFINE r == received[s]
                 b == backlog[s]
                 q == queue[s]
      <4>1. Serve(s) /\ status[s] = "streaming"
        BY <1>3, <3>2 DEF Serve, SendBacklog, SendQueued, SendHeartbeat
      <4>2. r \in Seq(Int) /\ b \in Seq(Int) /\ q \in Seq(Int)
        BY SequencesOfInt
      <4>3. CASE SendBacklog(s) /\ open[s]
        <5>1. /\ UNCHANGED <<status, emitted, queue>> /\ b # <<>>
              /\ received'[s] = Append(r, Head(b)) /\ backlog'[s] = Tail(b)
          BY <4>3 DEF SendBacklog, LogTypeOK
        <5>2. Append(r, Head(b)) \o Tail(b) = r \o b
          BY <4>2, <5>1, ReadFacts
        <5>3. Pending(s)' = Pending(s)
          BY <5>1, <5>2 DEF Pending
        <5> QED
          BY <4>1, <5>1, <5>3, ServeFacts
      <4>4. CASE SendQueued(s) /\ open[s]
        <5>1. /\ UNCHANGED <<status, emitted, backlog>> /\ b = <<>> /\ q # <<>>
              /\ received'[s] = Append(r, Head(q)) /\ queue'[s] = Tail(q)
          BY <4>4 DEF SendQueued, LogTypeOK
        <5>2. Append(r, Head(q)) \o Tail(q) = r \o q
          BY <4>2, <5>1, ReadFacts
        <5>3. Append(r, Head(q)) \in Seq(Int)
          BY <4>2, <5>1, HeadTailProperties, AppendProperties
        <5>4. r \o <<>> = r /\ Append(r, Head(q)) \o <<>> = Append(r, Head(q))
          BY <4>2, <5>3, ConcatEmptySeq
        <5>5. Pending(s)' = Pending(s)
          BY <5>1, <5>2, <5>4 DEF Pending
        <5> QED
          BY <4>1, <5>1, <5>5, ServeFacts
      <4>5. CASE ~open[s] \/ SendHeartbeat(s)
        <5>1. Unsubscribe(s) /\ UNCHANGED received
          BY <4>1, <4>5 DEF Serve, SendBacklog, SendQueued, SendHeartbeat
        <5> QED
          BY <4>1, <5>1, ServeFacts
      <4> QED
        BY <4>1, <4>3, <4>4, <4>5 DEF Serve
    <3> QED
      BY <3>1, <3>2
  <2>3. RingIsTheEnd'
    BY <2>1 DEF GaplessInv, RingIsTheEnd
  <2> QED
    BY <2>2, <2>3 DEF GaplessInv
<1>4. ASSUME NEW s \in Streams, Leave(s) PROVE GaplessInv'
  BY <1>4 DEF Leave, GaplessInv, RingIsTheEnd, Fresh, Following, Ended, Pending
<1>5. ASSUME UNCHANGED logVars PROVE GaplessInv'
  BY <1>5 DEF logVars, GaplessInv, RingIsTheEnd, Fresh, Following, Ended, Pending
<1> QED
  BY <1>1, <1>2, <1>3, <1>4, <1>5 DEF LogNext

\* What a client reads is a gapless run of the log, and what is on its way to it
\* continues that run up to the newest event, however emissions, subscriptions
\* and writes interleave.
THEOREM ClientsMissNothing == LogSpec => []StreamsAreGapless
<1>1. LogSpec => []GaplessInv
  BY InitGapless, StepGapless, LogTypeCorrect, PTL DEF LogSpec
<1> QED
  BY <1>1, LogTypeCorrect, GaplessSuffices, PTL
================================================================================
