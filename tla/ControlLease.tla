----------------------------- MODULE ControlLease -----------------------------
(***************************************************************************)
(* The shared-desktop lease and everybody who calls it: operator agents,   *)
(* browser sessions, status polls, and the /input handler threads that     *)
(* renew the lease once per action of a batch (input_controller.py).       *)
(* Clients may go silent for good; their running batches do not.           *)
(***************************************************************************)
EXTENDS Lease

CONSTANTS MaxBatch   \* actions an input batch may carry (50 in the code)

ASSUME BatchAssumption == MaxBatch \in Nat \ {0}

VARIABLES
  lease,      \* the ControlLease
  batch,      \* actions left in the batch an agent has in flight
  silent,     \* clients that stopped calling
  answer,     \* the last reply: to whom, for what, accepted or 409
  granted     \* history: the last successful claim, NoId once released

vars == <<lease, batch, silent, answer, granted>>

Ops == {"claim", "heartbeat", "release", "assert", "extend"}

NoAnswer == [to |-> NoId, op |-> "none", ok |-> FALSE]

Answers == [to : Ids, op : Ops, ok : BOOLEAN] \cup {NoAnswer}

TypeOK ==
  /\ lease \in Leases
  /\ lease.owner = IF lease.id = NoId THEN "none" ELSE ActorOf(lease.id)
  /\ lease.remaining <= TTL(lease.owner)
  /\ batch \in [Agents -> 0..MaxBatch]
  /\ silent \subseteq Ids
  /\ answer \in Answers
  /\ granted \in Ids \cup {NoId}

Init ==
  /\ lease = NoLease
  /\ batch = [a \in Agents |-> 0]
  /\ silent = {}
  /\ answer = NoAnswer
  /\ granted = NoId

Reply(id, op, ok) == answer' = [to |-> id, op |-> op, ok |-> ok]

\* Every rejected call still expired the lease before it looked.
Refuse(id, op) ==
  /\ lease' = Expire(lease)
  /\ Reply(id, op, FALSE)
  /\ UNCHANGED granted

\* GET /api/v1/control: state() expires, reports, changes nothing else.
GetState ==
  /\ lease' = Expire(lease)
  /\ answer' = NoAnswer
  /\ UNCHANGED <<batch, silent, granted>>

\* Taking the lease, or renewing one's own.
Claim(id) ==
  /\ id \notin silent
  /\ \/ /\ MayClaim(lease, id)
        /\ lease' = Grant(id)
        /\ granted' = id
        /\ Reply(id, "claim", TRUE)
     \/ ~MayClaim(lease, id) /\ Refuse(id, "claim")
  /\ UNCHANGED <<batch, silent>>

\* Fault: a heartbeat renews whatever lease there is.
HeartbeatUnchecked(id) ==
  /\ id \notin silent
  /\ lease.id # NoId
  /\ lease' = Renew(lease)
  /\ Reply(id, "heartbeat", TRUE)
  /\ UNCHANGED <<batch, silent, granted>>

\* Keeping the lease: the caller must still hold it.
Heartbeat(id) ==
  /\ id \notin silent
  /\ \/ /\ Holds(lease, id)
        /\ lease' = Renew(lease)
        /\ Reply(id, "heartbeat", TRUE)
        /\ UNCHANGED granted
     \/ ~Holds(lease, id) /\ Refuse(id, "heartbeat")
  /\ UNCHANGED <<batch, silent>>

\* Fault: anybody's release frees the desktop.
ReleaseUnchecked(id) ==
  /\ id \notin silent
  /\ lease' = NoLease
  /\ granted' = NoId
  /\ Reply(id, "release", TRUE)
  /\ UNCHANGED <<batch, silent>>

\* Giving the lease back.
Release(id) ==
  /\ id \notin silent
  /\ \/ /\ Holds(lease, id)
        /\ lease' = NoLease
        /\ granted' = NoId
        /\ Reply(id, "release", TRUE)
     \/ ~Holds(lease, id) /\ Refuse(id, "release")
  /\ UNCHANGED <<batch, silent>>

\* POST /api/v1/input: assert_owner admits a batch of 1..MaxBatch actions.
StartBatch(a) ==
  /\ a \notin silent
  /\ batch[a] = 0
  /\ \/ /\ Holds(lease, a)
        /\ lease' = Expire(lease)
        /\ \E n \in 1..MaxBatch : batch' = [batch EXCEPT ![a] = n]
        /\ Reply(a, "assert", TRUE)
        /\ UNCHANGED granted
     \/ ~Holds(lease, a) /\ Refuse(a, "assert") /\ UNCHANGED batch
  /\ UNCHANGED silent

\* Before each action the handler thread calls extend_if_owner; a 409 ends
\* the batch.  The client need not be alive any more.
BatchAction(a) ==
  /\ batch[a] > 0
  /\ \/ /\ MayExtend(lease, a)
        /\ lease' = Renew(lease)
        /\ batch' = [batch EXCEPT ![a] = @ - 1]
        /\ Reply(a, "extend", TRUE)
        /\ UNCHANGED granted
     \/ /\ ~MayExtend(lease, a)
        /\ Refuse(a, "extend")
        /\ batch' = [batch EXCEPT ![a] = 0]
  /\ UNCHANGED silent

\* The monotonic clock advances.
Tick ==
  /\ lease' = LeaseTick(lease)
  /\ answer' = NoAnswer
  /\ UNCHANGED <<batch, silent, granted>>

\* A client disappears: browser tab closed, operator process killed.
GoSilent(id) ==
  /\ silent' = silent \cup {id}
  /\ answer' = NoAnswer
  /\ UNCHANGED <<lease, batch, granted>>

Next ==
  \/ GetState
  \/ Tick
  \/ \E id \in Ids : Claim(id) \/ Heartbeat(id) \/ Release(id) \/ GoSilent(id)
  \/ \E a \in Agents : StartBatch(a) \/ BatchAction(a)

\* Only time is fair: nobody has to call, but the clock does not stop.
Spec == Init /\ [][Next]_vars /\ WF_vars(Tick)
-----------------------------------------------------------------------------
\* A call that needs the lease is accepted only from the client whose claim
\* was the last to succeed and has not been released: whoever was displaced,
\* at any distance in time, is told so by its next heartbeat or input call
\* (README.md: "A preempted agent receives HTTP 409 on its next heartbeat or
\* input request"), however many leases lapsed or were revived in between.
AcceptedOnlyAfterLastClaim ==
  /\ answer.ok /\ answer.op # "release" => answer.to = granted
  /\ lease.id # NoId => lease.id = granted

\* While a lease is live, the only ways to lose it are time, the owner's own
\* release and a human claim; in particular no poll, rejected call or batch of
\* somebody else ends or shortens it.
LiveLeaseKept ==
  [][ Controller(lease) # NoId =>
        \/ lease'.id = lease.id /\ lease'.remaining >= lease.remaining
        \/ Tick
        \/ answer' = [to |-> lease.id, op |-> "release", ok |-> TRUE]
        \/ \E h \in Humans : answer' = [to |-> h, op |-> "claim", ok |-> TRUE]
    ]_vars

\* The lease implements the abstract handoff, the controller being the owner
\* whose lease is live: an agent never takes over from a live controller, not
\* even by reviving its own lapsed lease.
H == INSTANCE Handoff WITH controller <- Controller(lease), Nobody <- NoId

HandoffImplemented == H!Spec

\* A client that goes silent stops blocking the desktop for ever, although
\* its batch goes on renewing for a while and others keep polling.
SilentClientLosesControl ==
  \A id \in Ids : id \in silent ~> [](Controller(lease) # id)
=============================================================================
