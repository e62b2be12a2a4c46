----------------------------- MODULE InstallBroker -----------------------------
(***************************************************************************)
(* Runtime package installs: the approval store, the serialized installer  *)
(* and the manifest of the root broker (broker/install_broker.py), the     *)
(* replay of the manifest when the container is recreated                  *)
(* (broker/restore_installs.py), and what is around them: files in         *)
(* Downloads that change, apt that fails, a broker that dies and is        *)
(* restarted, a container that is recreated from its image.                *)
(*                                                                         *)
(* A plan is a set of APT packages, one value, or a local .deb: its path   *)
(* with the SHA-256 digest of what was in it.                              *)
(***************************************************************************)
EXTENDS Integers, Sequences, FiniteSets, SequencesExt

CONSTANTS
  AptPlans,      \* normalized package lists
  Paths,         \* .deb paths inside Downloads
  Digests,       \* contents a .deb can have
  Approvals,     \* approval ids the store can hand out
  Workers,       \* handler threads of the broker
  NoFile,        \* "content" of a path without a usable .deb
  NoThread,
  Faults         \* what may go wrong or change in a configuration

ASSUME BrokerAssumption ==
  /\ AptPlans \cap Paths = {}
  /\ NoFile \notin Digests
  /\ NoThread \notin Workers /\ IsFiniteSet(Workers)
  /\ Faults \subseteq {"apt", "manifest", "replay", "crash", "edit",
                 "recreate", "norestore"}

Apt(p) == [kind |-> "apt", name |-> p, sha |-> NoFile]
Deb(path, d) == [kind |-> "deb", name |-> path, sha |-> d]

Up == -1

Plans ==
  {Apt(p) : p \in AptPlans} \cup {Deb(path, d) : path \in Paths, d \in Digests}

NoPlan == [kind |-> "none", name |-> NoFile, sha |-> NoFile]

VARIABLES
  files,      \* what is in Downloads (a volume)
  approvals,  \* approval id -> plan, for the ids the store has
  stale,      \* ids whose two minutes are over
  issued,     \* history: approval id -> the plan the human saw
  spent,      \* history: how often each id let an install start
  pc,         \* per handler thread
  plan,       \* ... the plan it installs
  lock,       \* SystemInstaller._lock: the thread that has it, or none
  manifest,   \* the plans in install-manifest.json (a volume), in order
  installed,  \* what apt has put into the container's file system
  answered,   \* history: plans whose install was answered "installed"
  boot,       \* Up, or while starting the number of plans replayed so far
  gaveUp,     \* history: the last replay ended early or was switched off
  swapped     \* history: threads whose .deb was replaced after they hashed it

vars == <<files, approvals, stale, issued, spent, pc, plan, lock, manifest,
          installed, answered, boot, gaveUp, swapped>>

store  == <<approvals, stale, issued, spent>>
memory == <<pc, plan, lock, swapped>>

Locations == {"idle", "lock", "update", "install", "record", "unlock"}

TypeOK ==
  /\ files \in [Paths -> Digests \cup {NoFile}]
  /\ DOMAIN approvals \subseteq Approvals
  /\ \A id \in DOMAIN approvals : approvals[id] \in Plans
  /\ DOMAIN issued \subseteq Approvals /\ DOMAIN approvals \subseteq DOMAIN issued
  /\ stale \subseteq DOMAIN approvals
  /\ spent \in [Approvals -> Nat]
  /\ pc \in [Workers -> Locations]
  /\ plan \in [Workers -> Plans \cup {NoPlan}]
  /\ \A w \in Workers : plan[w] = NoPlan <=> pc[w] = "idle"
  /\ lock \in Workers \cup {NoThread}
  /\ \A w \in Workers : lock = w <=> pc[w] \in Locations \ {"idle", "lock"}
  /\ manifest \in Seq(Plans)
  /\ installed \subseteq Plans
  /\ answered \subseteq Plans
  /\ boot \in {Up} \cup Nat
  /\ gaveUp \in BOOLEAN
  /\ swapped \subseteq {w \in Workers : pc[w] \in {"lock", "update", "install"}}

Init ==
  /\ files \in [Paths -> Digests]
  /\ approvals = <<>>
  /\ stale = {}
  /\ issued = <<>>
  /\ spent = [id \in Approvals |-> 0]
  /\ pc = [w \in Workers |-> "idle"]
  /\ plan = [w \in Workers |-> NoPlan]
  /\ lock = NoThread
  /\ manifest = <<>>
  /\ installed = {}
  /\ answered = {}
  /\ boot = Up
  /\ gaveUp = FALSE
  /\ swapped = {}

\* normalize_plan: what a request or a manifest entry means right now.  A path
\* without a package in Downloads has no normal form.
Normal(name) ==
  IF name \in AptPlans
    THEN Apt(name)
    ELSE IF files[name] = NoFile THEN NoPlan ELSE Deb(name, files[name])

Names == AptPlans \cup Paths
-----------------------------------------------------------------------------
(* The approval store.                                                     *)

\* An entry more.
With(f, id, p) == [i \in DOMAIN f \cup {id} |-> IF i = id THEN p ELSE f[i]]

\* InstallBrokerCore.approve: ids are random and never come twice.
Approve(id, name) ==
  /\ boot = Up
  /\ id \notin DOMAIN issued
  /\ Normal(name) # NoPlan
  /\ approvals' = With(approvals, id, Normal(name))
  /\ issued' = With(issued, id, Normal(name))
  /\ UNCHANGED <<files, stale, spent, memory, manifest, installed, answered, boot,
                 gaveUp>>

\* ttl seconds have passed since the approval was created.
Lapse(id) ==
  /\ id \in DOMAIN approvals \ stale
  /\ stale' = stale \cup {id}
  /\ UNCHANGED <<files, approvals, issued, spent, memory, manifest, installed,
                 answered, boot, gaveUp>>

\* The approval goes away whatever the checks say.
Pop(id) ==
  /\ approvals' = [other \in DOMAIN approvals \ {id} |-> approvals[other]]
  /\ stale' = stale \ {id}

Start(w, id, name) ==
  /\ pc' = [pc EXCEPT ![w] = "lock"]
  /\ plan' = [plan EXCEPT ![w] = Normal(name)]
  /\ spent' = [spent EXCEPT ![id] = @ + 1]

\* Fault: the approval is matched by the package's name.
InstallByName(w, id, name) ==
  /\ boot = Up /\ pc[w] = "idle"
  /\ Normal(name) # NoPlan
  /\ id \in DOMAIN approvals
  /\ Pop(id)
  /\ IF id \notin stale /\ approvals[id].name = name
       THEN Start(w, id, name)
       ELSE UNCHANGED <<pc, plan, spent>>
  /\ UNCHANGED <<files, issued, lock, manifest, installed, answered, boot, gaveUp,
                 swapped>>

\* InstallBrokerCore.install up to the installer: normalize the submitted plan,
\* pop the approval, and go on only if it was there, fresh and the same plan.
Install(w, id, name) ==
  /\ boot = Up /\ pc[w] = "idle"
  /\ Normal(name) # NoPlan
  /\ id \in DOMAIN approvals
  /\ Pop(id)
  /\ IF id \notin stale /\ approvals[id] = Normal(name)
       THEN Start(w, id, name)
       ELSE UNCHANGED <<pc, plan, spent>>
  /\ UNCHANGED <<files, issued, lock, manifest, installed, answered, boot, gaveUp,
                 swapped>>
-----------------------------------------------------------------------------
(* SystemInstaller.install, under its lock.                                *)

Goto(w, l) == pc' = [pc EXCEPT ![w] = l]

Acquire(w) ==
  /\ pc[w] = "lock" /\ lock = NoThread
  /\ lock' = w
  /\ Goto(w, "update")
  /\ UNCHANGED <<files, store, plan, manifest, installed, answered, boot, gaveUp,
                 swapped>>

AptUpdate(w) ==
  /\ pc[w] = "update"
  /\ Goto(w, "install")
  /\ UNCHANGED <<files, store, plan, lock, manifest, installed, answered, boot, gaveUp,
                 swapped>>

\* apt installs what the path holds now.
Effect(p) == IF p.kind = "apt" THEN p ELSE Normal(p.name)

AptInstall(w) ==
  /\ pc[w] = "install"
  /\ Effect(plan[w]) # NoPlan
  /\ installed' = installed \cup {Effect(plan[w])}
  /\ Goto(w, "record")
  /\ swapped' = swapped \ {w}
  /\ UNCHANGED <<files, store, plan, lock, manifest, answered, boot, gaveUp>>

\* Leaving the with block and the handler.
Leave(w) ==
  /\ pc' = [pc EXCEPT ![w] = "idle"]
  /\ plan' = [plan EXCEPT ![w] = NoPlan]
  /\ lock' = NoThread
  /\ swapped' = swapped \ {w}

\* Fault: the lock is not released on the error path.
AptFailsLocked(w) ==
  /\ "apt" \in Faults
  /\ pc[w] \in {"update", "install"}
  /\ pc' = [pc EXCEPT ![w] = "idle"]
  /\ plan' = [plan EXCEPT ![w] = NoPlan]
  /\ swapped' = swapped \ {w}
  /\ UNCHANGED <<files, store, lock, manifest, installed, answered, boot, gaveUp>>

\* A command of the plan fails or takes longer than 900 s, or the .deb has
\* gone: the error leaves the with block and the approval stays spent.
AptFails(w) ==
  /\ \/ "apt" \in Faults /\ pc[w] \in {"update", "install"}
     \/ pc[w] = "install" /\ Effect(plan[w]) = NoPlan
  /\ Leave(w)
  /\ UNCHANGED <<files, store, manifest, installed, answered, boot, gaveUp>>

\* Fault: the manifest is rewritten from the plan alone.
RecordAlone(w) ==
  /\ pc[w] = "record"
  /\ manifest' = <<plan[w]>>
  /\ Goto(w, "unlock")
  /\ UNCHANGED <<files, store, plan, lock, installed, answered, boot, gaveUp,
                 swapped>>

\* InstallManifest.record: load, append unless present, replace atomically.
Record(w) ==
  /\ pc[w] = "record"
  /\ manifest' = IF plan[w] \in ToSet(manifest) THEN manifest
                 ELSE Append(manifest, plan[w])
  /\ Goto(w, "unlock")
  /\ UNCHANGED <<files, store, plan, lock, installed, answered, boot, gaveUp,
                 swapped>>

\* The manifest cannot be read or written: apt has installed the package, and
\* the client is told that the install failed.
RecordFails(w) ==
  /\ "manifest" \in Faults
  /\ pc[w] = "record"
  /\ Leave(w)
  /\ UNCHANGED <<files, store, manifest, installed, answered, boot, gaveUp>>

\* The lock is released and the client is told "installed".
Succeed(w) ==
  /\ pc[w] = "unlock"
  /\ answered' = answered \cup {plan[w]}
  /\ Leave(w)
  /\ UNCHANGED <<files, store, manifest, installed, boot, gaveUp>>
-----------------------------------------------------------------------------
(* The surroundings.                                                       *)

\* What is in the broker's memory is gone when it dies.
Forget ==
  /\ approvals' = <<>>
  /\ stale' = {}
  /\ pc' = [w \in Workers |-> "idle"]
  /\ plan' = [w \in Workers |-> NoPlan]
  /\ lock' = NoThread
  /\ swapped' = {}

\* The broker dies and supervisord starts it again.  An apt-get it was waiting
\* for goes on without it and may still finish.
BrokerCrash ==
  /\ "crash" \in Faults /\ boot = Up
  /\ Forget
  /\ LET running == {Effect(plan[w]) : w \in {x \in Workers : pc[x] = "install"}}
     IN  installed' \in {installed, installed \cup (running \ {NoPlan})}
  /\ UNCHANGED <<files, issued, spent, manifest, answered, boot, gaveUp>>

\* A browser, a user or an agent replaces or removes a package in Downloads.
EditFile(path, content) ==
  /\ "edit" \in Faults /\ boot = Up
  /\ files' = [files EXCEPT ![path] = content]
  /\ swapped' = swapped \cup {w \in Workers : /\ pc[w] \in {"lock", "update", "install"}
                                            /\ plan[w].name = path}
  /\ UNCHANGED <<store, pc, plan, lock, manifest, installed, answered, boot, gaveUp>>

\* The container is recreated: its file system comes from the image again,
\* the volumes stay.  entrypoint.sh replays the manifest before anything runs,
\* unless RESTORE_INSTALLS says otherwise.
Recreate ==
  /\ "recreate" \in Faults
  /\ Forget
  /\ installed' = {}
  /\ \/ boot' = 0 /\ gaveUp' = FALSE
     \/ "norestore" \in Faults /\ boot' = Up /\ gaveUp' = TRUE
  /\ UNCHANGED <<files, issued, spent, manifest, answered>>

ReplayDone ==
  /\ boot # Up
  /\ boot = Len(manifest)
  /\ boot' = Up
  /\ UNCHANGED <<files, store, memory, manifest, installed, answered, gaveUp>>

\* restore_installs.main, one iteration.
Replay ==
  /\ boot # Up
  /\ boot < Len(manifest)
  /\ LET saved == manifest[boot + 1]
     IN  /\ Normal(saved.name) = saved
         /\ installed' = installed \cup {saved}
  /\ boot' = boot + 1
  /\ UNCHANGED <<files, store, memory, manifest, answered, gaveUp>>

\* The first plan that no longer matches its source, or that apt refuses, ends
\* the replay with an exception; entrypoint.sh warns and goes on booting.
ReplayStops ==
  /\ boot # Up
  /\ boot < Len(manifest)
  /\ \/ Normal(manifest[boot + 1].name) # manifest[boot + 1]
     \/ "replay" \in Faults
  /\ boot' = Up
  /\ gaveUp' = TRUE
  /\ UNCHANGED <<files, store, memory, manifest, installed, answered>>
-----------------------------------------------------------------------------
Thread(w) ==
  \/ Acquire(w) \/ AptUpdate(w) \/ AptInstall(w) \/ AptFails(w)
  \/ Record(w) \/ RecordFails(w) \/ Succeed(w)

Entrypoint == Replay \/ ReplayDone \/ ReplayStops

Next ==
  \/ \E id \in Approvals :
       \/ \E name \in Names : Approve(id, name)
       \/ Lapse(id)
       \/ \E w \in Workers, name \in Names : Install(w, id, name)
  \/ \E w \in Workers : Thread(w)
  \/ \E path \in Paths, content \in Digests \cup {NoFile} : EditFile(path, content)
  \/ BrokerCrash \/ Recreate \/ Entrypoint

\* Threads and the entrypoint run, apt ends within its limit.
Spec ==
  /\ Init /\ [][Next]_vars
  /\ \A w \in Workers : WF_vars(Thread(w))
  /\ WF_vars(Entrypoint)
-----------------------------------------------------------------------------
\* The packages that a human saw exactly so and whose approval was used.
Approved == {issued[id] : id \in {i \in DOMAIN issued : spent[i] = 1}}

\* However many threads install, crash and retry, a plan is being installed no
\* more often than it was approved, each approval counting once.
SingleUse ==
  /\ \A id \in Approvals : spent[id] <= 1
  /\ \A p \in Plans :
       Cardinality({w \in Workers : plan[w] = p}) <=
       Cardinality({id \in DOMAIN issued : issued[id] = p /\ spent[id] = 1})

\* docs/SPEC.md: "Package approval is exact, single-use".  Whatever apt puts into
\* the container, in a thread, in a command that outlives the broker or in the
\* replay, is a package that was approved, down to its digest -- except from a
\* path whose file was replaced between the hash and apt.
ApprovalsAreExactAndSingleUse ==
  [][ /\ SingleUse'
      /\ \A q \in installed' \ installed :
           \/ q \in Approved
           \/ \E w \in swapped : pc[w] = "install" /\ plan[w].name = q.name ]_vars

\* docs/ARCHITECTURE.md: installed applications survive an ordinary container
\* recreation.  Whatever a client was told is installed, some package of that
\* name is installed whenever the desktop is up, wherever the broker or the
\* container was interrupted -- unless the replay gave up on some plan or was
\* switched off.
AnsweredInstallsSurvive ==
  boot = Up /\ ~gaveUp =>
    \A p \in answered : \E q \in installed : q.name = p.name

\* An install that was let in comes to an end: the lock is free again after
\* every failure.
InstallsEnd == \A w \in Workers : pc[w] = "lock" ~> pc[w] = "idle"
=============================================================================
