-------------------------------- MODULE Lease --------------------------------
(***************************************************************************)
(* The value of a ControlLease (control/domain.py) and what its methods do *)
(* to it, as functions of the value.  Every method runs under one RLock,   *)
(* so each is one atomic update of the value; the modules that hold a      *)
(* lease decide when.                                                      *)
(*                                                                         *)
(* `_expires_at` is an absolute monotonic time.  Only its distance to the  *)
(* clock is ever read, so the value keeps that distance: `remaining`, in   *)
(* ticks, zero once clock() >= _expires_at.  Time passing is LeaseTick.    *)
(***************************************************************************)
EXTENDS Naturals

CONSTANTS
  Agents,      \* agentId values of the operator clients
  Humans,      \* sessionId values of the browser sessions
  AgentTTL,    \* ticks an agent lease lives without renewal (12 s)
  HumanTTL,    \* ticks a human lease lives without renewal (30 s)
  NoId         \* the owner id of a free lease (None)

ASSUME TTLAssumption ==
  /\ AgentTTL \in Nat \ {0}
  /\ HumanTTL \in Nat \ {0}

ASSUME IdAssumption ==
  /\ Agents \cap Humans = {}
  /\ NoId \notin Agents \cup Humans

\* An id stands for the pair of an actor and its ownerId.
Ids == Agents \cup Humans

ActorOf(id) == IF id \in Humans THEN "human" ELSE "agent"

TTL(actor) == IF actor = "human" THEN HumanTTL ELSE AgentTTL

Leases == [owner     : {"none", "agent", "human"},
           id        : Ids \cup {NoId},
           remaining : Nat]

NoLease == [owner |-> "none", id |-> NoId, remaining |-> 0]

\* _expire: a lapsed lease is dropped when a method looks at it, not before.
Expire(l) == IF l.remaining = 0 THEN NoLease ELSE l

\* Ownership as the fields have it, before any expiry check.
Names(l, id) == l.owner = ActorOf(id) /\ l.id = id

\* assert_owner succeeds: the lease, once expired, still names the caller.
Holds(l, id) == Names(Expire(l), id)

\* Fault: every lease gets the human TTL.
GrantHumanTTL(id) ==
  [owner |-> ActorOf(id), id |-> id, remaining |-> HumanTTL]

\* _set_owner
Grant(id) ==
  [owner |-> ActorOf(id), id |-> id, remaining |-> TTL(ActorOf(id))]

\* Fault: an agent displaces any other agent.
MayClaimFromAgent(l, id) == id \in Humans \/ Expire(l).owner # "human"

\* claim_human wins over anybody; claim_agent yields to a live human and to
\* a live lease of another agent.
MayClaim(l, id) ==
  \/ id \in Humans
  \/ Expire(l).owner = "none"
  \/ Holds(l, id)

Renew(l) == [l EXCEPT !.remaining = TTL(l.owner)]

\* Fault: any agent extends the lease of any other.
MayExtendAsAgent(l, id) == l.owner = ActorOf(id)

\* extend_if_owner looks at the fields before it expires them, so a lapsed
\* lease that nobody looked at is revived.
MayExtend(l, id) == Names(l, id) \/ Holds(l, id)

LeaseTick(l) ==
  [l EXCEPT !.remaining = IF @ = 0 THEN 0 ELSE @ - 1]

\* Who really controls the desktop: a lapsed lease protects nobody.
Controller(l) == Expire(l).id
=============================================================================
