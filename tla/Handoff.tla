------------------------------- MODULE Handoff -------------------------------
(***************************************************************************)
(* What the control lease promises about one shared desktop, with no TTLs, *)
(* renewals or method calls in sight: there is at most one controller, a   *)
(* human may take the desktop from anybody, and an agent only takes a      *)
(* desktop that nobody controls.  (docs/API.md, "Human claim always        *)
(* preempts"; docs/SPEC.md, control rules.)                                *)
(***************************************************************************)
CONSTANTS Agents, Humans, Nobody

VARIABLE controller

Init == controller = Nobody

HumanTakes(h) == controller' = h

AgentTakes(a) == controller = Nobody /\ controller' = a

\* A release, or a lease that ran out.
Leaves == controller' = Nobody

Next ==
  \/ \E h \in Humans : HumanTakes(h)
  \/ \E a \in Agents : AgentTakes(a)
  \/ Leaves

Spec == Init /\ [][Next]_controller
=============================================================================
