--------------------------------- MODULE Pacing ---------------------------------
(***************************************************************************)
(* How the computer MCP service (computer-mcp/internal/computer,           *)
(* service.go) turns a pointer target into a paced path and a text into    *)
(* short deltas.  Pure functions; one axis stands for both, so that a      *)
(* distance is an integer, and the easing is computed in exact fractions.  *)
(***************************************************************************)
EXTENDS Integers, Sequences

CONSTANTS
  StepPixels,    \* moveStepPixels (40)
  MaxMoveSteps,  \* maxMoveSteps (24)
  MaxDragSteps,  \* maxDragSteps (24)
  DeltaRunes     \* textDeltaRunes (48)

ASSUME PacingAssumption ==
  /\ StepPixels \in Nat \ {0} /\ DeltaRunes \in Nat \ {0}
  /\ MaxMoveSteps \in Nat \ {0} /\ MaxDragSteps \in Nat \ {0, 1}

Lesser(m, n) == IF m < n THEN m ELSE n

Distance(from, target) == IF from < target THEN target - from ELSE from - target

\* math.Round(n / d) for d > 0: halves go away from zero.
RoundedRatio(n, d) ==
  IF n >= 0 THEN (2 * n + d) \div (2 * d) ELSE -((2 * (-n) + d) \div (2 * d))

\* math.Ceil(distance / moveStepPixels)
FullSteps(distance) == (distance + StepPixels - 1) \div StepPixels
-----------------------------------------------------------------------------
(* Pointer paths.                                                          *)

\* Fault: the curve overshoots.
EasedTooFar(k, n) == k * k * k * (k * (6 * k - 14 * n) + 10 * n * n)

\* frictionProgress at k/n, times n^5.
Eased(k, n) == k * k * k * (k * (6 * k - 15 * n) + 10 * n * n)

Fifth(n) == n * n * n * n * n

Point(from, target, k, n) ==
  from + RoundedRatio((target - from) * Eased(k, n), Fifth(n))

Move(x) == [kind |-> "move", at |-> x]

Do(kind) == [kind |-> kind, at |-> 0]

\* Fault: the steps are counted from the start of the path.
PacedMoveFromStart(from, target, maxSteps) ==
  LET distance == Distance(from, target)
      steps    == Lesser(FullSteps(distance), maxSteps)
  IN  IF distance < 1
        THEN <<>>
        ELSE [i \in 1..(2 * steps - 1) |->
                IF i % 2 = 1 THEN Move(Point(from, target, (i - 1) \div 2, steps))
                             ELSE Do("wait")]

\* pacedMove: moves with a wait between two of them.
PacedMove(from, target, maxSteps) ==
  LET distance == Distance(from, target)
      steps    == Lesser(FullSteps(distance), maxSteps)
  IN  IF distance < 1
        THEN <<>>
        ELSE [i \in 1..(2 * steps - 1) |->
                IF i % 2 = 1 THEN Move(Point(from, target, (i + 1) \div 2, steps))
                             ELSE Do("wait")]

\* Fault: a path gets as many steps as its length asks for.
DragStepsUncapped(toStart, whileHeld) ==
  LET needed == FullSteps(toStart + whileHeld)
  IN  IF toStart >= 1 /\ whileHeld >= 1 /\ needed < 2 THEN 2 ELSE needed

\* smoothDrag: the steps of both paths together; at least one each if both
\* have a length.
DragSteps(toStart, whileHeld) ==
  LET needed == FullSteps(toStart + whileHeld)
  IN  Lesser(IF toStart >= 1 /\ whileHeld >= 1 /\ needed < 2 THEN 2 ELSE needed,
             MaxDragSteps)

\* splitDragSteps, the share of the first path.
FirstSteps(total, toStart, whileHeld) ==
  LET share == RoundedRatio(total * toStart, toStart + whileHeld)
  IN  IF total < 1 \/ toStart < 1 THEN 0
      ELSE IF whileHeld < 1 THEN total
      ELSE IF share < 1 THEN 1
      ELSE Lesser(share, total - 1)

\* smoothDrag
SmoothDrag(position, start, end) ==
  LET toStart   == Distance(position, start)
      whileHeld == Distance(start, end)
      total     == DragSteps(toStart, whileHeld)
      first     == FirstSteps(total, toStart, whileHeld)
  IN  PacedMove(position, start, first) \o <<Do("down")>> \o
      PacedMove(start, end, total - first) \o <<Do("up")>>
-----------------------------------------------------------------------------
(* Text deltas.                                                            *)

Space == " "

\* Where the delta that begins after position `start` ends: after the last
\* space within the limit, but not after a lone leading one.
DeltaEnd(text, start) ==
  LET limit  == start + DeltaRunes
      breaks == {i \in (start + 2)..limit : text[i] = Space}
  IN  IF limit >= Len(text) THEN Len(text)
      ELSE IF breaks = {} THEN limit
      ELSE CHOOSE i \in breaks : \A j \in breaks : j <= i

\* splitTextDeltas
SplitTextDeltas(text) ==
  LET from[start \in 0..Len(text)] ==
        IF start = Len(text)
          THEN <<>>
          ELSE <<SubSeq(text, start + 1, DeltaEnd(text, start))>>
               \o from[DeltaEnd(text, start)]
  IN  from[0]
=============================================================================
