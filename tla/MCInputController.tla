---------------------------- MODULE MCInputController ---------------------------
(***************************************************************************)
(* Batches for the runs of InputController: a button that stays down at    *)
(* the end of a batch, one that comes up again, commands that press and    *)
(* release by themselves, and a plain command to be preempted in.          *)
(***************************************************************************)
EXTENDS InputController, TLC

CONSTANTS left, ctrl, esc

Do(kind, item) == [kind |-> kind, item |-> item]

\* A button that is held while a key is tapped, and released later.
PressBatches == {<<Do("down", left), Do("tap", ctrl)>>, <<Do("up", left)>>}

\* The same, and a key held under a name that is no X keysym.
OperatorBatches == PressBatches \cup {<<Do("hold", esc)>>}

AliasBatches == {<<Do("hold", esc)>>}

Symmetry == Permutations(Workers)
=============================================================================
