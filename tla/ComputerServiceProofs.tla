------------------------- MODULE ComputerServiceProofs -------------------------
(***************************************************************************)
(* Theorems about ComputerService and the functions of Pacing, for every   *)
(* display, text, step length, number of calls and number of clients: the  *)
(* batches fit, a text arrives in order, and a path ends on its target.    *)
(*                                                                         *)
(* First what the functions compute (paths, drags, deltas), then one call  *)
(* as a value, then the invariant.                                         *)
(***************************************************************************)
EXTENDS ComputerService, FiniteSetTheorems, SequenceTheorems, WellFoundedInduction, TLAPS

-----------------------------------------------------------------------------
(* Arithmetic: quotients, rounding, the easing curve.                      *)

\* A product of naturals, for terms that the provers would multiply out.
LEMMA Products == \A m, n \in Nat : m * n \in Nat
OBVIOUS

\* The quotient is where it is.
LEMMA Quotients ==
  ASSUME NEW n \in Nat, NEW d \in Nat \ {0}
  PROVE  /\ n \div d \in Nat /\ n % d \in 0..(d - 1)
         /\ n = d * (n \div d) + (n % d)
OBVIOUS

\* ... and compares with m as the multiples of d do.
LEMMA QuotientBounds ==
  ASSUME NEW n \in Nat, NEW d \in Nat \ {0}, NEW m \in Nat
  PROVE  /\ m * d <= n => m <= n \div d
         /\ n < (m + 1) * d => n \div d <= m
OBVIOUS

\* frictionProgress(1) = 1.
LEMMA EasedAtEnd == \A n \in Nat : Eased(n, n) = Fifth(n)
BY DEF Eased, Fifth

\* frictionProgress stays between 0 and 1: k of k + d steps, both differences written
\* as sums of products.
LEMMA EasedBounds ==
  ASSUME NEW k \in Nat, NEW d \in Nat
  PROVE  /\ Eased(k, k + d) \in Nat
         /\ Fifth(k + d) - Eased(k, k + d) \in Nat
<1>1. Fifth(k + d) - Eased(k, k + d) = d * d * d * ((k + d) * (k + d) + 3 * k * (k + d) + 6 * k * k)
  BY DEF Eased, Fifth
<1>2. Eased(k, k + d) = k * k * k * (k * k + 5 * k * d + 10 * d * d)
  BY DEF Eased
<1>3. k * k * k \in Nat /\ d * d * d \in Nat
  OBVIOUS
<1>4. (k + d) * (k + d) + 3 * k * (k + d) + 6 * k * k \in Nat /\ k * k + 5 * k * d + 10 * d * d \in Nat
  OBVIOUS
<1> QED
  BY <1>1, <1>2, <1>3, <1>4, Products

\* Above zero, math.Round is the quotient of the doubled terms.
LEMMA RoundedFacts ==
  ASSUME NEW n \in Nat, NEW d \in Nat \ {0}
  PROVE  RoundedRatio(n, d) \in Nat /\ RoundedRatio(n, d) = (2 * n + d) \div (2 * d)
BY Quotients DEF RoundedRatio

\* Rounding keeps what is between 0 and a multiple there, and leaves the multiple.
LEMMA RoundedShare ==
  ASSUME NEW a \in Int, NEW f \in Nat \ {0}, NEW e \in 0..f
  PROVE  /\ a >= 0 => RoundedRatio(a * e, f) \in 0..a
         /\ a < 0 => RoundedRatio(a * e, f) \in a..0
         /\ RoundedRatio(a * f, f) = a
<1>1. ASSUME NEW b \in Nat
      PROVE  /\ b * e \in Nat /\ (2 * (b * e) + f) \div (2 * f) \in 0..b
             /\ b * f \in Nat /\ (2 * (b * f) + f) \div (2 * f) = b
  <2>1. b * e \in Nat /\ b * f \in Nat /\ b * e <= b * f
    OBVIOUS
  <2>2. 2 * (b * e) + f \in Nat /\ 2 * (b * f) + f \in Nat /\ 2 * f \in Nat \ {0}
    BY <2>1
  <2>3. b * (2 * f) = 2 * (b * f) /\ (b + 1) * (2 * f) = 2 * (b * f) + 2 * f
    OBVIOUS
  <2>4. 2 * (b * e) + f < (b + 1) * (2 * f) /\ 2 * (b * f) + f < (b + 1) * (2 * f)
        /\ b * (2 * f) <= 2 * (b * f) + f
    BY <2>1, <2>3
  <2>5. (2 * (b * e) + f) \div (2 * f) \in Nat /\ (2 * (b * f) + f) \div (2 * f) \in Nat
    BY <2>2, Quotients
  <2>6. (2 * (b * e) + f) \div (2 * f) <= b
    BY <2>2, <2>4, QuotientBounds
  <2>7. (2 * (b * f) + f) \div (2 * f) <= b /\ b <= (2 * (b * f) + f) \div (2 * f)
    BY <2>2, <2>4, QuotientBounds
  <2> QED
    BY <2>1, <2>5, <2>6, <2>7
<1>2. CASE a >= 0
  <2>1. a \in Nat
    BY <1>2
  <2>2. a * e \in Nat /\ a * f \in Nat
    BY <1>1, <2>1
  <2> QED
    BY <1>1, <1>2, <2>1, <2>2 DEF RoundedRatio
<1>3. CASE a < 0
  <2>1. -a \in Nat /\ -a # 0
    BY <1>3
  <2>2. a * e = -((-a) * e) /\ a * f = -((-a) * f)
    BY <1>3
  <2>3. PICK b \in Nat : b = -a
    BY <2>1
  <2>4. a * e = -(b * e) /\ a * f = -(b * f) /\ a = -b /\ b # 0
    BY <2>1, <2>2, <2>3
  <2>5. b * f # 0 /\ ~(-(b * f) >= 0)
    BY <2>4
  <2>6. RoundedRatio(-(b * f), f) = -b
    <3>1. -(-(b * f)) = b * f
      OBVIOUS
    <3> QED
      BY <1>1, <2>5, <3>1 DEF RoundedRatio
  <2>7. RoundedRatio(-(b * e), f) \in (-b)..0
    <3>1. CASE b * e = 0
      <4>1. RoundedRatio(0, f) = (2 * 0 + f) \div (2 * f)
        BY DEF RoundedRatio
      <4>2. (2 * 0 + f) \div (2 * f) \in Nat /\ (2 * 0 + f) \div (2 * f) <= 0
        <5>1. 2 * 0 + f \in Nat /\ 2 * f \in Nat \ {0} /\ 2 * 0 + f < (0 + 1) * (2 * f)
          OBVIOUS
        <5> QED
          BY <5>1, Quotients, QuotientBounds
      <4>3. -(b * e) = 0
        BY <3>1
      <4> QED
        BY <4>1, <4>2, <4>3
    <3>2. CASE b * e # 0
      <4>1. ~(-(b * e) >= 0) /\ -(-(b * e)) = b * e
        BY <1>1, <3>2
      <4>2. RoundedRatio(-(b * e), f) = -((2 * (b * e) + f) \div (2 * f))
        BY <4>1 DEF RoundedRatio
      <4> DEFINE q == (2 * (b * e) + f) \div (2 * f)
      <4>3. q \in 0..b
        BY <1>1
      <4> HIDE DEF q
      <4>4. -q \in (-b)..0
        BY <4>3
      <4>5. RoundedRatio(-(b * e), f) = -q
        BY <4>2 DEF q
      <4> QED
        BY <4>3, <4>4, <4>5
    <3> QED
      BY <3>1, <3>2
  <2> QED
    BY <1>3, <2>4, <2>6, <2>7
<1> QED
  BY <1>2, <1>3

\* Every point of a path lies between its ends, and the last one is the target.
LEMMA PointFacts ==
  ASSUME NEW from \in Positions, NEW target \in Positions, Width \in Nat,
         NEW n \in Nat \ {0}, NEW k \in 0..n
  PROVE  Point(from, target, k, n) \in Positions /\ Point(from, target, n, n) = target
<1> DEFINE a == target - from
           f == Fifth(n)
           e == Eased(k, n)
<1>1. a \in Int /\ from + a = target
  BY DEF Positions
<1>2. f \in Nat \ {0}
  <2>1. f \in Nat
    BY Products DEF Fifth
  <2>2. f # 0
    BY DEF Fifth
  <2> QED
    BY <2>1, <2>2
<1>3. e \in 0..f
  <2>1. n - k \in Nat /\ k + (n - k) = n
    OBVIOUS
  <2>2. Eased(k, k + (n - k)) \in Nat /\ Fifth(k + (n - k)) - Eased(k, k + (n - k)) \in Nat
    BY <2>1, EasedBounds
  <2>3. e \in Nat /\ f - e \in Nat
    BY <2>1, <2>2
  <2> HIDE DEF e, f
  <2> QED
    BY <1>2, <2>3
<1>4. Eased(n, n) = f
  BY EasedAtEnd
<1>5. Point(from, target, k, n) = from + RoundedRatio(a * e, f)
  BY DEF Point
<1>6. Point(from, target, n, n) = from + RoundedRatio(a * f, f)
  BY <1>4 DEF Point
<1> HIDE DEF e, f
<1>7. /\ a >= 0 => RoundedRatio(a * e, f) \in 0..a
      /\ a < 0 => RoundedRatio(a * e, f) \in a..0
      /\ RoundedRatio(a * f, f) = a
  BY <1>1, <1>2, <1>3, RoundedShare
<1> QED
  BY <1>1, <1>5, <1>6, <1>7 DEF Positions

-----------------------------------------------------------------------------
Action ==
  [kind : {"move", "click", "wait", "down", "up", "press"}, at : Positions]
  \cup [kind : {"text"}, delta : Seq(STRING)]

\* What the functions put into a batch is an action.
LEMMA ActionFacts ==
  /\ Width \in Nat /\ 0 \in Positions
  /\ \A x \in Positions : Move(x) \in Action /\ ClickAt(x) \in Action
  /\ \A kind \in {"wait", "down", "up", "press"} : Do(kind) \in Action
  /\ \A delta \in Seq(STRING) : Text(delta) \in Action
<1>1. Width \in Nat /\ 0 \in Positions
  BY ServiceAssumption DEF Positions
<1> QED
  BY <1>1 DEF Action, Move, ClickAt, Do, Text

\* What pacedMove returns: moves inside the display with a wait between two of them, at
\* most one per step, the last onto the target; nothing only where there is no way to go.
THEOREM PacedMoveReachesTarget ==
  ASSUME NEW from \in Positions, NEW target \in Positions, NEW max \in Nat,
         Distance(from, target) >= 1 => max >= 1
  PROVE  /\ PacedMove(from, target, max) \in Seq(Action)
         /\ Distance(from, target) < 1 => PacedMove(from, target, max) = <<>>
         /\ Distance(from, target) >= 1 => Len(PacedMove(from, target, max)) \in 1..(2 * max - 1)
         /\ \A i \in 1..Len(PacedMove(from, target, max)) :
              PacedMove(from, target, max)[i].kind \in {"move", "wait"}
         /\ PacedMove(from, target, max) # <<>> =>
              PacedMove(from, target, max)[Len(PacedMove(from, target, max))] = Move(target)
<1> DEFINE d == Distance(from, target)
           steps == Lesser(FullSteps(d), max)
           m == 2 * steps - 1
           step(i) == IF i % 2 = 1 THEN Move(Point(from, target, (i + 1) \div 2, steps)) ELSE Do("wait")
           path == [i \in 1..m |-> step(i)]
<1>1. d \in Nat
  BY ActionFacts DEF Distance, Positions
<1>2. CASE d < 1
  <2>1. PacedMove(from, target, max) = <<>>
    BY <1>2 DEF PacedMove
  <2>2. ~(d >= 1) /\ <<>> \in Seq(Action) /\ Len(<<>>) = 0 /\ 1..0 = {}
    BY <1>1, <1>2
  <2> HIDE DEF d
  <2> QED
    BY <1>2, <2>1, <2>2 DEF d
<1>3. CASE d >= 1
  <2>1. PacedMove(from, target, max) = path
    BY <1>1, <1>3 DEF PacedMove
  <2>2. FullSteps(d) \in Nat \ {0}
    <3>1. /\ d + StepPixels - 1 \in Nat /\ StepPixels \in Nat \ {0}
          /\ 1 * StepPixels <= d + StepPixels - 1
      BY <1>1, <1>3, PacingAssumption
    <3>2. 1 <= (d + StepPixels - 1) \div StepPixels /\ (d + StepPixels - 1) \div StepPixels \in Nat
      BY <3>1, Quotients, QuotientBounds
    <3> QED
      BY <3>2 DEF FullSteps
  <2> HIDE DEF d
  <2>3. steps \in 1..max
    BY <1>3, <2>2 DEF Lesser, d
  <2> HIDE DEF steps
  <2>4. m \in 1..(2 * max - 1) /\ m \in Nat /\ m + 1 = 2 * steps
    BY <2>3
  <2>5. ASSUME NEW i \in 1..m
        PROVE  step(i) \in Action /\ step(i).kind \in {"move", "wait"}
    <3>1. CASE i % 2 = 1
      <4>1. (i + 1) \div 2 \in 0..steps
        <5>1. i + 1 \in Nat /\ i + 1 < (steps + 1) * 2
          BY <2>3, <2>4
        <5>2. (i + 1) \div 2 \in Nat /\ (i + 1) \div 2 <= steps
          BY <2>3, <5>1, Quotients, QuotientBounds
        <5> QED
          BY <2>3, <5>2
      <4>2. Point(from, target, (i + 1) \div 2, steps) \in Positions
        BY <2>3, <4>1, ActionFacts, PointFacts
      <4>3. step(i) = Move(Point(from, target, (i + 1) \div 2, steps))
        BY <3>1
      <4> HIDE DEF step
      <4> QED
        BY <4>2, <4>3, ActionFacts DEF Move
    <3>2. CASE i % 2 # 1
      <4>1. step(i) = Do("wait")
        BY <3>2
      <4> HIDE DEF step
      <4> QED
        BY <4>1, ActionFacts DEF Do
    <3> QED
      BY <3>1, <3>2
  <2>6. step(m) = Move(target)
    <3>1. m % 2 = 1 /\ (m + 1) \div 2 = steps
      BY <2>3
    <3>2. Point(from, target, steps, steps) = target
      BY <2>3, ActionFacts, PointFacts
    <3> QED
      BY <3>1, <3>2
  <2> HIDE DEF step, m
  <2>7. path \in Seq(Action) /\ Len(path) = m
    <3>1. path \in [1..m -> Action]
      BY <2>5
    <3> QED
      BY <2>4, <3>1
  <2>8. \A i \in 1..m : path[i] = step(i)
    OBVIOUS
  <2>9. m \in 1..m
    BY <2>4
  <2> HIDE DEF path
  <2>10. /\ path \in Seq(Action) /\ Len(path) \in 1..(2 * max - 1)
         /\ \A i \in 1..Len(path) : path[i].kind \in {"move", "wait"}
         /\ path[Len(path)] = Move(target)
    BY <2>4, <2>5, <2>6, <2>7, <2>8, <2>9
  <2>11. ~(d < 1)
    BY <1>1, <1>3
  <2> QED
    BY <2>1, <2>10, <2>11 DEF d
<1> QED
  BY <1>1, <1>2, <1>3

\* The steps of a drag, divided: each path that has a length gets one at least.
LEMMA StepFacts ==
  ASSUME NEW m \in Nat, NEW n \in Nat
  PROVE  /\ DragSteps(m, n) \in 0..MaxDragSteps
         /\ FirstSteps(DragSteps(m, n), m, n) \in 0..DragSteps(m, n)
         /\ m >= 1 => FirstSteps(DragSteps(m, n), m, n) >= 1
         /\ n >= 1 => DragSteps(m, n) - FirstSteps(DragSteps(m, n), m, n) >= 1
<1> DEFINE total == DragSteps(m, n)
           share == RoundedRatio(total * m, m + n)
<1>1. MaxDragSteps \in Nat /\ MaxDragSteps >= 2
  BY PacingAssumption
<1>2. FullSteps(m + n) \in Nat /\ (m >= 1 \/ n >= 1 => FullSteps(m + n) >= 1)
  <2>1. m + n + StepPixels - 1 \in Nat /\ StepPixels \in Nat \ {0}
        /\ (m >= 1 \/ n >= 1 => 1 * StepPixels <= m + n + StepPixels - 1)
    BY PacingAssumption
  <2> QED
    BY <2>1, Quotients, QuotientBounds DEF FullSteps
<1>3. /\ total \in 0..MaxDragSteps
      /\ (m >= 1 \/ n >= 1 => total >= 1) /\ (m >= 1 /\ n >= 1 => total >= 2)
  BY <1>1, <1>2 DEF DragSteps, Lesser
<1> HIDE DEF total
<1>4. CASE m >= 1 /\ n >= 1
  <2>1. share \in Nat
    <3>1. total * m \in Nat /\ m + n \in Nat \ {0}
      BY <1>3, <1>4, <1>1
    <3> QED
      BY <3>1, RoundedFacts
  <2> HIDE DEF share
  <2>2. FirstSteps(total, m, n) = IF share < 1 THEN 1 ELSE Lesser(share, total - 1)
    BY <1>1, <1>3, <1>4 DEF FirstSteps, share
  <2>3. FirstSteps(total, m, n) \in 1..(total - 1)
    BY <1>1, <1>3, <1>4, <2>1, <2>2 DEF Lesser
  <2> QED
    BY <1>1, <1>3, <2>3 DEF total
<1>5. CASE m < 1
  <2>1. FirstSteps(total, m, n) = 0
    BY <1>5 DEF FirstSteps
  <2> QED
    BY <1>1, <1>3, <1>5, <2>1 DEF total
<1>6. CASE m >= 1 /\ n < 1
  <2>1. FirstSteps(total, m, n) = total
    BY <1>1, <1>3, <1>6 DEF FirstSteps
  <2> QED
    BY <1>1, <1>3, <1>6, <2>1 DEF total
<1> QED
  BY <1>4, <1>5, <1>6

-----------------------------------------------------------------------------
(* Batches: a path alone, before a click, around the ends of a drag.       *)

\* Two sequences one after the other.
LEMMA Concatenated ==
  ASSUME NEW T, NEW s \in Seq(T), NEW t \in Seq(T)
  PROVE  s \o t \in Seq(T) /\ Len(s \o t) = Len(s) + Len(t)
BY ConcatProperties

\* ... item by item.
LEMMA ConcatenatedItems ==
  ASSUME NEW T, NEW s \in Seq(T), NEW t \in Seq(T)
  PROVE  \A i \in 1..(Len(s) + Len(t)) :
           (s \o t)[i] = IF i <= Len(s) THEN s[i] ELSE t[i - Len(s)]
BY ConcatProperties, Zenon

\* A batch that the API takes, and in which a click is made where the path before
\* it ends.
WellMade(b) ==
  /\ b \in Seq(Action) /\ Len(b) \in 1..BatchLimit
  /\ \A i \in 1..Len(b) :
       b[i].kind = "click" =>
         i = Len(b) - 1 /\ (i > 1 => b[i - 1].kind = "move" /\ b[i - 1].at = b[i].at)

\* The bounds the batches are measured against.
LEMMA LimitFacts ==
  /\ MaxMoveSteps \in Nat \ {0} /\ MaxDragSteps \in Nat
  /\ BatchLimit \in Nat
  /\ 2 * MaxMoveSteps + 1 <= BatchLimit /\ 2 * MaxDragSteps + 1 <= BatchLimit
BY PacingAssumption, ServiceAssumption

\* A path alone, before a click, or around the two ends of a drag.
LEMMA MoveFacts ==
  ASSUME NEW from \in Positions, NEW target \in Positions,
         PacedMove(from, target, MaxMoveSteps) # <<>>
  PROVE  /\ WellMade(PacedMove(from, target, MaxMoveSteps))
         /\ \A i \in 1..Len(PacedMove(from, target, MaxMoveSteps)) :
              PacedMove(from, target, MaxMoveSteps)[i].kind # "text"
<1> DEFINE path == PacedMove(from, target, MaxMoveSteps)
           d == Distance(from, target)
<1>1. d \in Nat
  BY ActionFacts DEF Distance, Positions
<1>2. /\ path \in Seq(Action) /\ (d < 1 => path = <<>>)
      /\ d >= 1 => Len(path) \in 1..(2 * MaxMoveSteps - 1)
      /\ \A i \in 1..Len(path) : path[i].kind \in {"move", "wait"}
  BY LimitFacts, PacedMoveReachesTarget
<1> HIDE DEF path, d
<1>3. Len(path) \in 1..BatchLimit
  <2>1. d >= 1
    BY <1>1, <1>2 DEF path
  <2> QED
    BY <1>2, <2>1, LimitFacts
<1> QED
  BY <1>2, <1>3 DEF WellMade, path

LEMMA ClickFacts ==
  ASSUME NEW from \in Positions, NEW target \in Positions
  PROVE  /\ WellMade(PacedMove(from, target, MaxMoveSteps) \o <<ClickAt(target), Do("wait")>>)
         /\ \A i \in 1..Len(PacedMove(from, target, MaxMoveSteps) \o <<ClickAt(target), Do("wait")>>) :
              (PacedMove(from, target, MaxMoveSteps) \o <<ClickAt(target), Do("wait")>>)[i].kind # "text"
<1> DEFINE path == PacedMove(from, target, MaxMoveSteps)
           d == Distance(from, target)
           click == <<ClickAt(target), Do("wait")>>
           n == Len(path)
           b == path \o click
<1>1. d \in Nat
  BY ActionFacts DEF Distance, Positions
<1>2. /\ path \in Seq(Action) /\ (d < 1 => path = <<>>)
      /\ d >= 1 => n \in 1..(2 * MaxMoveSteps - 1)
      /\ \A i \in 1..n : path[i].kind \in {"move", "wait"}
      /\ path # <<>> => path[n] = Move(target)
  BY LimitFacts, PacedMoveReachesTarget
<1>3. /\ click \in Seq(Action) /\ Len(click) = 2
      /\ click[1] = ClickAt(target) /\ click[2] = Do("wait")
  BY ActionFacts
<1> HIDE DEF path, click, d
<1>4. n \in Nat /\ n + 2 <= BatchLimit
  <2>1. n \in Nat
    BY <1>2
  <2>2. CASE d < 1
    <3>1. n = 0
      BY <1>2, <2>2
    <3> QED
      BY <3>1, LimitFacts
  <2>3. CASE d >= 1
    BY <1>2, <2>3, LimitFacts
  <2> QED
    BY <1>1, <2>1, <2>2, <2>3
<1>5. /\ b \in Seq(Action) /\ Len(b) = n + 2
      /\ \A i \in 1..(n + 2) : b[i] = IF i <= n THEN path[i] ELSE click[i - n]
  <2>1. b \in Seq(Action) /\ Len(b) = n + Len(click)
    BY <1>2, <1>3, Concatenated
  <2>2. \A i \in 1..(n + Len(click)) : b[i] = IF i <= n THEN path[i] ELSE click[i - n]
    BY <1>2, <1>3, ConcatenatedItems
  <2> QED
    BY <1>3, <2>1, <2>2
<1>6. n > 0 => path # <<>> /\ path[n].kind = "move" /\ path[n].at = target
  BY <1>2 DEF Move
<1> HIDE DEF n, b
<1>7. /\ b[n + 1] = ClickAt(target) /\ b[n + 2] = Do("wait")
      /\ \A i \in 1..n : b[i] = path[i]
  BY <1>3, <1>4, <1>5
<1>8. b[n + 1].kind = "click" /\ b[n + 1].at = target /\ b[n + 2].kind = "wait"
  BY <1>7 DEF ClickAt, Do
<1>9. \A i \in 1..(n + 2) : i \in 1..n \/ i = n + 1 \/ i = n + 2
  BY <1>4
<1>10. ASSUME NEW i \in 1..Len(b)
       PROVE  /\ b[i].kind # "text"
              /\ b[i].kind = "click" =>
                   i = Len(b) - 1 /\ (i > 1 => b[i - 1].kind = "move" /\ b[i - 1].at = b[i].at)
  <2>1. CASE i \in 1..n
    BY <1>2, <1>7, <2>1 DEF n
  <2>2. CASE i = n + 1
    <3>1. i = Len(b) - 1 /\ i - 1 = n /\ b[i].at = target /\ b[i].kind = "click"
      BY <1>4, <1>5, <1>8, <2>2
    <3>2. i > 1 => n > 0 /\ n \in 1..n
      BY <1>4, <2>2
    <3> QED
      BY <1>6, <1>7, <3>1, <3>2
  <2>3. CASE i = n + 2
    BY <1>8, <2>3
  <2> QED
    BY <1>5, <1>9, <2>1, <2>2, <2>3
<1>11. b \in Seq(Action) /\ Len(b) \in 1..BatchLimit
  BY <1>4, <1>5, LimitFacts
<1>12. WellMade(b) /\ \A i \in 1..Len(b) : b[i].kind # "text"
  BY <1>10, <1>11 DEF WellMade
<1> QED
  BY <1>12 DEF b, path, click

Motions == {s \in Seq(Action) : \A i \in 1..Len(s) : s[i].kind \notin {"click", "text"}}

\* Motions one after the other.
LEMMA MotionsTogether ==
  ASSUME NEW s \in Motions, NEW t \in Motions
  PROVE  s \o t \in Motions /\ Len(s \o t) = Len(s) + Len(t)
<1>1. s \in Seq(Action) /\ t \in Seq(Action) /\ Len(s) \in Nat /\ Len(t) \in Nat
  BY DEF Motions
<1>2. s \o t \in Seq(Action) /\ Len(s \o t) = Len(s) + Len(t)
  BY <1>1, Concatenated
<1>3. ASSUME NEW i \in 1..(Len(s) + Len(t)) PROVE (s \o t)[i].kind \notin {"click", "text"}
  <2>1. (s \o t)[i] = IF i <= Len(s) THEN s[i] ELSE t[i - Len(s)]
    BY <1>1, ConcatenatedItems
  <2>2. CASE i <= Len(s)
    BY <1>1, <2>1, <2>2 DEF Motions
  <2>3. CASE ~(i <= Len(s))
    <3>1. i - Len(s) \in 1..Len(t)
      BY <1>1, <2>3
    <3> QED
      BY <2>1, <2>3, <3>1 DEF Motions
  <2> QED
    BY <2>2, <2>3
<1> QED
  BY <1>2, <1>3 DEF Motions

\* The two paths of a drag share the steps, and its ends are not clicks.
LEMMA DragFacts ==
  ASSUME NEW from \in Positions, NEW start \in Positions, NEW end \in Positions
  PROVE  /\ WellMade(SmoothDrag(from, start, end))
         /\ \A i \in 1..Len(SmoothDrag(from, start, end)) :
              SmoothDrag(from, start, end)[i].kind # "text"
<1> DEFINE m == Distance(from, start)
           n == Distance(start, end)
           total == DragSteps(m, n)
           first == FirstSteps(total, m, n)
           there == PacedMove(from, start, first)
           held == PacedMove(start, end, total - first)
           down == <<Do("down")>>
           up == <<Do("up")>>
<1>1. m \in Nat /\ n \in Nat
  BY ActionFacts DEF Distance, Positions
<1>2. SmoothDrag(from, start, end) = there \o down \o held \o up
  BY DEF SmoothDrag
<1>3. /\ total \in 0..MaxDragSteps /\ first \in 0..total
      /\ (m >= 1 => first >= 1) /\ (n >= 1 => total - first >= 1)
  BY <1>1, StepFacts
<1>4. /\ down \in Seq(Action) /\ Len(down) = 1 /\ down[1].kind = "down"
      /\ up \in Seq(Action) /\ Len(up) = 1 /\ up[1].kind = "up"
  BY ActionFacts DEF Do
<1> HIDE DEF total, first, down, up
<1>5. /\ there \in Seq(Action) /\ (m < 1 => there = <<>>)
      /\ m >= 1 => Len(there) \in 1..(2 * first - 1)
      /\ \A i \in 1..Len(there) : there[i].kind \in {"move", "wait"}
  <2>1. first \in Nat
    BY <1>3, LimitFacts
  <2> QED
    BY <1>3, <2>1, PacedMoveReachesTarget
<1>6. /\ held \in Seq(Action) /\ (n < 1 => held = <<>>)
      /\ n >= 1 => Len(held) \in 1..(2 * (total - first) - 1)
      /\ \A i \in 1..Len(held) : held[i].kind \in {"move", "wait"}
  <2>1. total - first \in Nat
    BY <1>3, LimitFacts
  <2> QED
    BY <1>3, <2>1, PacedMoveReachesTarget
<1> HIDE DEF there, held, m, n
<1>7. /\ Len(there) \in Nat /\ Len(held) \in Nat
      /\ Len(there) + Len(held) + 1 <= 2 * MaxDragSteps
  <2>1. Len(there) \in Nat /\ Len(held) \in Nat
    BY <1>5, <1>6
  <2>2. CASE m < 1 /\ n < 1
    <3>1. Len(there) = 0 /\ Len(held) = 0
      BY <1>5, <1>6, <2>2
    <3> QED
      BY <2>1, <3>1, PacingAssumption
  <2>3. CASE m < 1 /\ n >= 1
    <3>1. Len(there) = 0
      BY <1>5, <2>3
    <3> QED
      BY <1>3, <1>6, <2>1, <2>3, <3>1, LimitFacts
  <2>4. CASE m >= 1 /\ n < 1
    <3>1. Len(held) = 0
      BY <1>6, <2>4
    <3> QED
      BY <1>3, <1>5, <2>1, <2>4, <3>1, LimitFacts
  <2>5. CASE m >= 1 /\ n >= 1
    BY <1>3, <1>5, <1>6, <2>1, <2>5, LimitFacts
  <2> QED
    BY <1>1, <2>1, <2>2, <2>3, <2>4, <2>5
<1>8. there \in Motions /\ held \in Motions
  BY <1>5, <1>6 DEF Motions
<1>9. down \in Motions /\ up \in Motions
  <2>1. \A i \in 1..1 : i = 1
    OBVIOUS
  <2> QED
    BY <1>4, <2>1 DEF Motions
<1>10. ASSUME NEW b, b = there \o down \o held \o up
       PROVE  b \in Motions /\ Len(b) = Len(there) + 1 + Len(held) + 1
  <2>1. PICK b1 : b1 = there \o down
    OBVIOUS
  <2>2. b1 \in Motions /\ Len(b1) = Len(there) + 1
    BY <1>4, <1>8, <1>9, <2>1, MotionsTogether
  <2>3. PICK b2 : b2 = b1 \o held
    OBVIOUS
  <2>4. b2 \in Motions /\ Len(b2) = Len(b1) + Len(held)
    BY <1>8, <2>2, <2>3, MotionsTogether
  <2>5. b = b2 \o up
    BY <1>10, <2>1, <2>3
  <2>6. b \in Motions /\ Len(b) = Len(b2) + 1
    BY <1>4, <1>9, <2>4, <2>5, MotionsTogether
  <2> QED
    BY <2>2, <2>4, <2>6
<1>11. PICK b : b = there \o down \o held \o up
  OBVIOUS
<1>12. b \in Motions /\ Len(b) \in 1..BatchLimit
  <2>1. b \in Motions /\ Len(b) = Len(there) + 1 + Len(held) + 1
    BY <1>10, <1>11
  <2> QED
    BY <1>7, <2>1, LimitFacts
<1>13. WellMade(b) /\ \A i \in 1..Len(b) : b[i].kind # "text"
  BY <1>12 DEF WellMade, Motions
<1> QED
  BY <1>2, <1>11, <1>13
-----------------------------------------------------------------------------
(* Text deltas.                                                            *)

\* Induction over the naturals, for statements that name no operator.
LEMMA LeastNatural ==
  ASSUME NEW T, T \subseteq Nat, T # {}
  PROVE  \E n \in T : \A m \in T : n <= m
<1> DEFINE R == OpToRel(<, Nat)
<1>1. IsWellFoundedOn(R, Nat)
  BY NatLessThanWellFounded
<1>2. \A m, n \in Nat : m < n => <<m, n>> \in R
  BY DEF OpToRel
<1> HIDE DEF R
<1>3. PICK n \in T : \A m \in T : <<m, n>> \notin R
  BY <1>1, WFMin
<1>4. \A m \in T : ~(m < n)
  BY <1>2, <1>3
<1>5. \A m \in T : n <= m
  BY <1>4
<1> QED
  BY <1>5

Strings == Seq(STRING)

\* Every delta takes something of what is left.
LEMMA DeltaEndFacts ==
  ASSUME NEW whole \in Strings, NEW start \in 0..Len(whole), start # Len(whole)
  PROVE  DeltaEnd(whole, start) \in (start + 1)..Len(whole)
<1> DEFINE limit == start + DeltaRunes
           breaks == {i \in (start + 2)..limit : whole[i] = Space}
<1>1. Len(whole) \in Nat /\ limit \in Nat /\ limit >= start + 1 /\ start \in Nat
  BY PacingAssumption DEF Strings
<1>2. CASE limit >= Len(whole)
  BY <1>1, <1>2 DEF DeltaEnd
<1>3. CASE ~(limit >= Len(whole)) /\ breaks = {}
  BY <1>1, <1>3 DEF DeltaEnd
<1>4. CASE ~(limit >= Len(whole)) /\ breaks # {}
  <2>1. DeltaEnd(whole, start) = CHOOSE i \in breaks : \A j \in breaks : j <= i
    BY <1>4 DEF DeltaEnd
  <2>2. \A i \in breaks : i \in (start + 2)..limit
    OBVIOUS
  <2> HIDE DEF breaks, limit
  <2>3. \E i \in breaks : \A j \in breaks : j <= i
    <3> DEFINE rest == {limit - i : i \in breaks}
    <3>1. rest \subseteq Nat /\ rest # {}
      BY <1>1, <1>4, <2>2
    <3>2. PICK n \in rest : \A m \in rest : n <= m
      BY <3>1, LeastNatural
    <3>3. PICK i \in breaks : n = limit - i
      BY <3>2
    <3>4. ASSUME NEW j \in breaks PROVE j <= i
      <4>1. limit - j \in rest
        OBVIOUS
      <4>2. n <= limit - j
        BY <3>2, <4>1
      <4> QED
        BY <1>1, <2>2, <3>3, <4>2
    <3> QED
      BY <3>4
  <2>4. DeltaEnd(whole, start) \in breaks
    BY <2>1, <2>3
  <2> QED
    BY <1>1, <1>4, <2>2, <2>4
<1> QED
  BY <1>2, <1>3, <1>4

\* The function that SplitTextDeltas is defined by exists.
LEMMA SplitIsDefined ==
  ASSUME NEW whole \in Strings
  PROVE  \E from :
           /\ SplitTextDeltas(whole) = from[0]
           /\ from[Len(whole)] = <<>>
           /\ \A start \in 0..Len(whole) :
                start # Len(whole) =>
                  from[start] = <<SubSeq(whole, start + 1, DeltaEnd(whole, start))>>
                                  \o from[DeltaEnd(whole, start)]
<1> DEFINE N == Len(whole)
           next(s) == DeltaEnd(whole, s)
           rule(g, s) == IF s = N THEN <<>> ELSE <<SubSeq(whole, s + 1, next(s))>> \o g[next(s)]
           all(g) == [s \in 0..N |-> rule(g, s)]
           from == CHOOSE g : g = all(g)
           Good(g, k) == g = [s \in 0..N |-> g[s]] /\ \A s \in 0..N : s >= k => g[s] = rule(g, s)
           bad == {n \in 0..N : ~ \E g : Good(g, N - n)}
<1>1. N \in Nat
  BY DEF Strings
<1>2. \A s \in 0..N : s # N => next(s) \in (s + 1)..N
  BY DeltaEndFacts
<1>3. SplitTextDeltas(whole) = from[0]
  BY DEF SplitTextDeltas
<1> HIDE DEF N, next
<1>4. bad = {}
  <2> SUFFICES ASSUME bad # {} PROVE FALSE
    OBVIOUS
  <2>1. bad \subseteq Nat
    BY <1>1
  <2>2. PICK n \in bad : \A m \in bad : n <= m
    BY <2>1, LeastNatural
  <2>3. n \in 0..N /\ ~ \E g : Good(g, N - n)
    BY <2>2
  <2>4. n # 0
    <3> DEFINE g == [s \in 0..N |-> <<>>]
    <3>1. Good(g, N - 0)
      BY <1>1
    <3> QED
      BY <2>3, <3>1
  <2>5. n - 1 \in 0..N /\ n - 1 \notin bad /\ N - n \in 0..N /\ N - (n - 1) = (N - n) + 1
    <3>1. n - 1 \in 0..N /\ ~(n <= n - 1) /\ N - n \in 0..N /\ N - (n - 1) = (N - n) + 1
      BY <1>1, <2>3, <2>4
    <3> HIDE DEF bad
    <3> QED
      BY <2>2, <3>1
  <2>6. PICK g : Good(g, (N - n) + 1)
    BY <2>5
  <2> DEFINE k == N - n
             h == [s \in 0..N |-> IF s = k THEN rule(g, k) ELSE g[s]]
  <2>7. k \in 0..N /\ k # N
    BY <1>1, <2>3, <2>4, <2>5
  <2>8. ASSUME NEW s \in 0..N, s >= k PROVE h[s] = rule(h, s)
    <3>1. s # N => next(s) \in 0..N /\ next(s) # k
      BY <1>1, <1>2, <2>7, <2>8
    <3>2. rule(h, s) = rule(g, s)
      BY <3>1
    <3>3. CASE s = k
      BY <3>2, <3>3
    <3>4. CASE s # k
      <4>1. s >= k + 1
        BY <1>1, <2>7, <2>8, <3>4
      <4>2. g[s] = rule(g, s)
        BY <2>6, <4>1
      <4>3. h[s] = g[s]
        BY <3>4
      <4> QED
        BY <3>2, <4>2, <4>3
    <3> QED
      BY <3>3, <3>4
  <2>9. Good(h, k)
    BY <2>8
  <2> QED
    BY <2>3, <2>9
<1>5. PICK g : Good(g, 0)
  <2>1. N \in 0..N /\ N - N = 0
    BY <1>1
  <2> HIDE DEF Good
  <2>2. \E g : Good(g, N - N)
    BY <1>4, <2>1
  <2> QED
    BY <2>1, <2>2
<1>6. g = all(g)
  <2> HIDE DEF rule
  <2>1. ASSUME NEW s \in 0..N PROVE g[s] = rule(g, s)
    <3>1. s >= 0
      BY <1>1
    <3> QED
      BY <1>5, <3>1
  <2> QED
    BY <1>5, <2>1
<1>7. from = all(from)
  BY <1>6
<1> HIDE DEF from
<1>8. \A s \in 0..N : from[s] = rule(from, s)
  BY <1>7
<1>9. from[N] = <<>>
  <2>1. N \in 0..N
    BY <1>1
  <2>2. from[N] = rule(from, N)
    BY <1>8, <2>1, Zenon
  <2> QED
    BY <2>2
<1>10. \A s \in 0..N : s # N => from[s] = <<SubSeq(whole, s + 1, next(s))>> \o from[next(s)]
  BY <1>8
<1> QED
  BY <1>3, <1>9, <1>10 DEF N, next

\* The deltas are what is left of a text after position p, piece by piece.
Pieces(deltas, whole, p) ==
  /\ deltas \in Seq(Strings)
  /\ \E e \in [0..Len(deltas) -> 0..Len(whole)] :
       /\ e[0] = p /\ e[Len(deltas)] = Len(whole)
       /\ \A i \in 1..Len(deltas) :
            e[i - 1] <= e[i] /\ deltas[i] = SubSeq(whole, e[i - 1] + 1, e[i])

\* At the end of a text nothing is left to send.
LEMMA PiecesOfNothing ==
  ASSUME NEW whole \in Strings
  PROVE  Pieces(<<>>, whole, Len(whole))
<1> DEFINE e == [i \in 0..0 |-> Len(whole)]
<1>1. e \in [0..0 -> 0..Len(whole)] /\ e[0] = Len(whole)
  BY DEF Strings
<1>2. <<>> \in Seq(Strings) /\ Len(<<>>) = 0 /\ 1..0 = {}
  OBVIOUS
<1> HIDE DEF e
<1> QED
  BY <1>1, <1>2 DEF Pieces

\* The piece from p to q before the pieces from q on.
LEMMA OnePieceMore ==
  ASSUME NEW whole \in Strings, NEW p \in 0..Len(whole), NEW q \in 0..Len(whole), p <= q,
         NEW deltas, Pieces(deltas, whole, q)
  PROVE  Pieces(<<SubSeq(whole, p + 1, q)>> \o deltas, whole, p)
<1> DEFINE n == Len(deltas)
           first == SubSeq(whole, p + 1, q)
           more == <<first>> \o deltas
<1>1. n \in Nat /\ deltas \in Seq(Strings) /\ Len(whole) \in Nat
  BY DEF Pieces, Strings
<1>2. PICK e \in [0..n -> 0..Len(whole)] :
        /\ e[0] = q /\ e[n] = Len(whole)
        /\ \A i \in 1..n : e[i - 1] <= e[i] /\ deltas[i] = SubSeq(whole, e[i - 1] + 1, e[i])
  BY DEF Pieces
<1>3. first \in Strings
  BY SubSeqProperties DEF Strings
<1>4. more \in Seq(Strings) /\ Len(more) = n + 1
  <2>1. <<first>> \in Seq(Strings) /\ Len(<<first>>) = 1
    BY <1>3
  <2>2. more \in Seq(Strings) /\ Len(more) = Len(<<first>>) + n
    BY <1>1, <2>1, Concatenated
  <2> QED
    BY <1>1, <2>1, <2>2
<1>5. more[1] = first /\ \A i \in 2..(n + 1) : more[i] = deltas[i - 1]
  <2> DEFINE one == <<first>>
  <2>1. one \in Seq(Strings) /\ Len(one) = 1 /\ one[1] = first
    BY <1>3
  <2>2. more = one \o deltas
    OBVIOUS
  <2> HIDE DEF one, more
  <2>3. \A i \in 1..(Len(one) + n) : (one \o deltas)[i] = IF i <= Len(one) THEN one[i] ELSE deltas[i - Len(one)]
    BY <1>1, <2>1, ConcatenatedItems
  <2>4. \A i \in 1..(1 + n) : more[i] = IF i <= 1 THEN one[i] ELSE deltas[i - 1]
    BY <2>1, <2>2, <2>3
  <2> HIDE DEF n, first
  <2>5. 1 \in 1..(1 + n) /\ \A i \in 2..(n + 1) : i \in 1..(1 + n) /\ ~(i <= 1)
    BY <1>1
  <2> QED
    BY <2>1, <2>4, <2>5
<1> HIDE DEF more, n, first
<1> DEFINE f == [i \in 0..(n + 1) |-> IF i = 0 THEN p ELSE e[i - 1]]
<1>6. f \in [0..(n + 1) -> 0..Len(whole)]
  <2>1. \A i \in 0..(n + 1) : i # 0 => i - 1 \in 0..n
    BY <1>1
  <2> QED
    BY <2>1
<1>7. /\ f[0] = p /\ f[1] = q /\ f[n + 1] = Len(whole)
      /\ \A i \in 2..(n + 1) : f[i - 1] = e[i - 2] /\ f[i] = e[i - 1]
  <2>1. 0 \in 0..(n + 1) /\ 1 \in 0..(n + 1) /\ n + 1 \in 0..(n + 1) /\ n + 1 # 0 /\ (n + 1) - 1 = n
    BY <1>1
  <2>2. \A i \in 2..(n + 1) : i \in 0..(n + 1) /\ i - 1 \in 0..(n + 1) /\ i # 0 /\ i - 1 # 0
                             /\ (i - 1) - 1 = i - 2
    BY <1>1
  <2> QED
    BY <1>2, <2>1, <2>2
<1> HIDE DEF f
<1>8. ASSUME NEW i \in 1..(n + 1)
      PROVE  f[i - 1] <= f[i] /\ more[i] = SubSeq(whole, f[i - 1] + 1, f[i])
  <2>1. CASE i = 1
    BY <1>5, <1>7, <2>1 DEF first
  <2>2. CASE i # 1
    <3>1. i \in 2..(n + 1) /\ i - 1 \in 1..n /\ (i - 1) - 1 = i - 2
      BY <1>1, <2>2
    <3>2. e[(i - 1) - 1] <= e[i - 1] /\ deltas[i - 1] = SubSeq(whole, e[(i - 1) - 1] + 1, e[i - 1])
      BY <1>2, <3>1
    <3> QED
      BY <1>5, <1>7, <3>1, <3>2
  <2> QED
    BY <2>1, <2>2
<1>9. Pieces(more, whole, p)
  BY <1>4, <1>6, <1>7, <1>8 DEF Pieces
<1> QED
  BY <1>9 DEF more, first

\* What splitTextDeltas returns, put together again, is the text.
THEOREM DeltasMakeTheText ==
  ASSUME NEW whole \in Strings
  PROVE  Pieces(SplitTextDeltas(whole), whole, 0)
<1> DEFINE N == Len(whole)
<1>1. N \in Nat
  BY DEF Strings
<1>2. PICK from :
        /\ SplitTextDeltas(whole) = from[0]
        /\ from[N] = <<>>
        /\ \A s \in 0..N :
             s # N => from[s] = <<SubSeq(whole, s + 1, DeltaEnd(whole, s))>> \o from[DeltaEnd(whole, s)]
  BY SplitIsDefined
<1> DEFINE bad == {n \in 0..N : ~Pieces(from[N - n], whole, N - n)}
<1>3. bad = {}
  <2> SUFFICES ASSUME bad # {} PROVE FALSE
    OBVIOUS
  <2>1. bad \subseteq Nat
    BY <1>1
  <2>2. PICK n \in bad : \A m \in bad : n <= m
    BY <2>1, LeastNatural
  <2>3. n \in 0..N /\ ~Pieces(from[N - n], whole, N - n)
    BY <2>2
  <2>4. n # 0
    <3>1. N - 0 = N
      BY <1>1
    <3> QED
      BY <1>2, <2>3, <3>1, PiecesOfNothing
  <2> DEFINE p == N - n
             q == DeltaEnd(whole, p)
  <2>5. p \in 0..N /\ p # N
    BY <1>1, <2>3, <2>4
  <2>6. q \in (p + 1)..N
    BY <2>5, DeltaEndFacts
  <2>7. Pieces(from[q], whole, q)
    <3>1. N - q \in 0..N /\ ~(n <= N - q) /\ N - (N - q) = q
      BY <1>1, <2>3, <2>6
    <3>2. N - q \notin bad
      BY <2>2, <3>1
    <3> QED
      BY <3>1, <3>2
  <2>8. from[p] = <<SubSeq(whole, p + 1, q)>> \o from[q]
    BY <1>2, <2>5
  <2>9. q \in 0..N /\ p <= q
    BY <1>1, <2>5, <2>6
  <2> HIDE DEF q
  <2>10. Pieces(from[p], whole, p)
    BY <2>5, <2>7, <2>8, <2>9, OnePieceMore
  <2> QED
    BY <2>3, <2>10
<1>4. N \in 0..N /\ N - N = 0
  BY <1>1
<1>5. Pieces(from[N - N], whole, N - N)
  BY <1>3, <1>4
<1> QED
  BY <1>2, <1>4, <1>5
-----------------------------------------------------------------------------
(* The batches of a text.                                                  *)

\* The batches that send a text from position p on.
Rest(batches, whole, p) ==
  \E deltas : /\ Pieces(deltas, whole, p)
              /\ batches = [i \in 1..Len(deltas) |-> <<Text(deltas[i])>>]

Wordless(b) == \A i \in 1..Len(b) : b[i].kind # "text"

\* The batch of one delta.
LEMMA TextBatch ==
  ASSUME NEW delta \in Strings
  PROVE  <<Text(delta)>> \in Seq(Action) /\ WellMade(<<Text(delta)>>) /\ Len(<<Text(delta)>>) = 1
<1>1. Text(delta) \in Action /\ Text(delta).kind = "text"
  BY ActionFacts DEF Strings, Text
<1> DEFINE b == <<Text(delta)>>
<1>2. b \in Seq(Action) /\ Len(b) = 1 /\ b[1].kind = "text"
  BY <1>1
<1> HIDE DEF b
<1>3. 1 \in 1..BatchLimit /\ \A i \in 1..1 : i = 1
  BY LimitFacts
<1>4. WellMade(b)
  BY <1>2, <1>3 DEF WellMade
<1> QED
  BY <1>2, <1>4 DEF b

\* A sequence is the function that lists its items.
LEMMA ItemByItem ==
  ASSUME NEW S, NEW t \in Seq(S)
  PROVE  t = [i \in 1..Len(t) |-> t[i]]
OBVIOUS

\* The batches from p on: there are none at the end, and else the first takes the
\* text to some q and the others are those from q on.
LEMMA RestFacts ==
  ASSUME NEW whole \in Strings, NEW p, NEW batches, Rest(batches, whole, p)
  PROVE  /\ batches \in Seq(Seq(Action)) /\ \A i \in 1..Len(batches) : WellMade(batches[i])
         /\ batches = <<>> => p = Len(whole)
         /\ batches # <<>> =>
              \E q \in 0..Len(whole) :
                /\ p <= q /\ Head(batches) = <<Text(SubSeq(whole, p + 1, q))>>
                /\ Rest(Tail(batches), whole, q)
<1>1. PICK deltas : /\ Pieces(deltas, whole, p)
                    /\ batches = [i \in 1..Len(deltas) |-> <<Text(deltas[i])>>]
  BY DEF Rest
<1> DEFINE n == Len(deltas)
<1>2. deltas \in Seq(Strings) /\ n \in Nat
  BY <1>1 DEF Pieces
<1>3. PICK e \in [0..n -> 0..Len(whole)] :
        /\ e[0] = p /\ e[n] = Len(whole)
        /\ \A i \in 1..n : e[i - 1] <= e[i] /\ deltas[i] = SubSeq(whole, e[i - 1] + 1, e[i])
  BY <1>1 DEF Pieces
<1>4. \A i \in 1..n : deltas[i] \in Strings
  BY <1>2
<1> HIDE DEF n
<1>5. batches = [i \in 1..n |-> <<Text(deltas[i])>>]
  BY <1>1 DEF n
<1>6. batches \in Seq(Seq(Action)) /\ Len(batches) = n
  <2>1. \A i \in 1..n : <<Text(deltas[i])>> \in Seq(Action)
    BY <1>4, TextBatch
  <2>2. batches \in [1..n -> Seq(Action)]
    BY <1>5, <2>1
  <2> QED
    BY <1>2, <2>2
<1>7. ASSUME NEW i \in 1..Len(batches) PROVE WellMade(batches[i])
  <2>1. i \in 1..n
    BY <1>6
  <2>2. batches[i] = <<Text(deltas[i])>>
    BY <1>5, <2>1
  <2> QED
    BY <1>4, <2>1, <2>2, TextBatch
<1>8. batches = <<>> => p = Len(whole)
  <2>1. batches = <<>> => n = 0
    BY <1>6
  <2> QED
    BY <1>3, <2>1
<1>9. ASSUME batches # <<>>
      PROVE  \E q \in 0..Len(whole) :
               /\ p <= q /\ Head(batches) = <<Text(SubSeq(whole, p + 1, q))>>
               /\ Rest(Tail(batches), whole, q)
  <2>1. n >= 1 /\ 1 \in 1..n /\ deltas # <<>>
    BY <1>2, <1>6, <1>9 DEF n
  <2> DEFINE q == e[1]
             more == Tail(deltas)
             f == [i \in 0..(n - 1) |-> e[i + 1]]
  <2>2. q \in 0..Len(whole) /\ p <= q /\ deltas[1] = SubSeq(whole, p + 1, q)
    <3>1. 1 - 1 = 0 /\ 1 \in 0..n
      BY <1>2, <2>1
    <3> QED
      BY <1>3, <2>1, <3>1
  <2>3. Head(batches) = <<Text(SubSeq(whole, p + 1, q))>>
    <3>1. Head(batches) = batches[1]
      BY <1>6, <1>9
    <3> QED
      BY <1>5, <2>1, <2>2, <3>1
  <2>4. /\ more \in Seq(Strings) /\ Len(more) = n - 1
        /\ \A i \in 1..(n - 1) : more[i] = deltas[i + 1]
    BY <1>2, <2>1, HeadTailProperties DEF n
  <2>5. /\ Tail(batches) \in Seq(Seq(Action)) /\ Len(Tail(batches)) = n - 1
        /\ \A i \in 1..(n - 1) : Tail(batches)[i] = batches[i + 1]
    BY <1>6, <1>9, HeadTailProperties
  <2>6. f \in [0..(n - 1) -> 0..Len(whole)]
    <3>1. \A i \in 0..(n - 1) : i + 1 \in 0..n
      BY <1>2
    <3> QED
      BY <3>1
  <2>7. f[0] = q /\ f[n - 1] = Len(whole)
    <3>1. 0 \in 0..(n - 1) /\ n - 1 \in 0..(n - 1) /\ (n - 1) + 1 = n /\ 0 + 1 = 1
      BY <1>2, <2>1
    <3> QED
      BY <1>3, <3>1
  <2>8. ASSUME NEW i \in 1..(n - 1)
        PROVE  f[i - 1] <= f[i] /\ more[i] = SubSeq(whole, f[i - 1] + 1, f[i])
    <3>1. /\ i + 1 \in 1..n /\ (i + 1) - 1 = i /\ i - 1 \in 0..(n - 1) /\ i \in 0..(n - 1)
          /\ (i - 1) + 1 = i
      BY <1>2, <2>1
    <3>2. f[i - 1] = e[i] /\ f[i] = e[i + 1]
      BY <3>1
    <3>3. e[i] <= e[i + 1] /\ deltas[i + 1] = SubSeq(whole, e[i] + 1, e[i + 1])
      BY <1>3, <3>1
    <3> QED
      BY <2>4, <3>2, <3>3
  <2> HIDE DEF f, q
  <2>9. Pieces(more, whole, q)
    BY <2>4, <2>6, <2>7, <2>8 DEF Pieces
  <2>10. Tail(batches) = [i \in 1..Len(more) |-> <<Text(more[i])>>]
    <3>1. ASSUME NEW i \in 1..(n - 1) PROVE Tail(batches)[i] = <<Text(more[i])>>
      <4>1. i + 1 \in 1..n
        BY <1>2
      <4> QED
        BY <1>5, <2>4, <2>5, <4>1
    <3>2. Tail(batches) = [i \in 1..Len(Tail(batches)) |-> Tail(batches)[i]]
      BY <2>5, ItemByItem
    <3> QED
      BY <2>4, <2>5, <3>1, <3>2
  <2> HIDE DEF more
  <2>11. Rest(Tail(batches), whole, q)
    BY <2>9, <2>10 DEF Rest
  <2> QED
    BY <2>2, <2>3, <2>11
<1> QED
  BY <1>6, <1>7, <1>8, <1>9

\* What a tool call sends.
LEMMA BatchFacts ==
  ASSUME NEW r \in Requests, NEW position \in Positions
  PROVE  /\ Batches(r, position) \in Seq(Seq(Action))
         /\ \A i \in 1..Len(Batches(r, position)) : WellMade(Batches(r, position)[i])
         /\ r.tool = "type" =>
              r.text \in Texts /\ r.text \in Strings /\ r.text # <<>> /\ Rest(Batches(r, position), r.text, 0)
         /\ r.tool # "type" =>
              \A i \in 1..Len(Batches(r, position)) : Wordless(Batches(r, position)[i])
<1> DEFINE path == PacedMove(position, r.target, MaxMoveSteps)
           deltas == SplitTextDeltas(r.text)
           click == path \o <<ClickAt(r.target), Do("wait")>>
           drag == SmoothDrag(position, r.start, r.target)
           press == <<Do("press")>>
<1>o. ASSUME NEW b, b \in Seq(Action), WellMade(b), Wordless(b)
      PROVE  /\ <<b>> \in Seq(Seq(Action))
             /\ \A i \in 1..Len(<<b>>) : WellMade(<<b>>[i]) /\ Wordless(<<b>>[i])
  BY <1>o
<1>1. CASE r.tool = "move"
  <2>1. r.target \in Positions
    BY <1>1 DEF Requests
  <2>2. Batches(r, position) = IF path = <<>> THEN <<>> ELSE <<path>>
    BY <1>1 DEF Batches
  <2> HIDE DEF path
  <2>3. CASE path = <<>>
    BY <1>1, <2>2, <2>3
  <2>4. CASE path # <<>>
    <3>1. WellMade(path) /\ Wordless(path)
      BY <2>1, <2>4, MoveFacts DEF Wordless, path
    <3>2. path \in Seq(Action)
      BY <3>1 DEF WellMade
    <3>3. Batches(r, position) = <<path>>
      BY <2>2, <2>4
    <3> QED
      BY <1>o, <1>1, <3>1, <3>2, <3>3
  <2> QED
    BY <2>3, <2>4
<1>2. CASE r.tool = "click"
  <2>1. r.target \in Positions
    BY <1>2 DEF Requests
  <2>2. Batches(r, position) = <<click>>
    BY <1>2 DEF Batches
  <2>3. WellMade(click) /\ Wordless(click)
    BY <2>1, ClickFacts DEF Wordless
  <2> HIDE DEF click
  <2>4. click \in Seq(Action)
    BY <2>3 DEF WellMade
  <2> QED
    BY <1>o, <1>2, <2>2, <2>3, <2>4
<1>3. CASE r.tool = "drag"
  <2>1. r.start \in Positions /\ r.target \in Positions
    BY <1>3 DEF Requests
  <2>2. Batches(r, position) = <<drag>>
    BY <1>3 DEF Batches
  <2>3. WellMade(drag) /\ Wordless(drag)
    BY <2>1, DragFacts DEF Wordless
  <2> HIDE DEF drag
  <2>4. drag \in Seq(Action)
    BY <2>3 DEF WellMade
  <2> QED
    BY <1>o, <1>3, <2>2, <2>3, <2>4
<1>4. CASE r.tool = "type"
  <2>1. r.text \in Texts
    BY <1>4 DEF Requests
  <2>2. r.text \in Strings /\ r.text # <<>>
    BY <2>1, ServiceAssumption DEF Strings
  <2>3. Batches(r, position) = [i \in DOMAIN deltas |-> <<Text(deltas[i])>>]
    BY <1>4 DEF Batches
  <2>4. Pieces(deltas, r.text, 0)
    BY <2>2, DeltasMakeTheText
  <2> HIDE DEF deltas
  <2>5. DOMAIN deltas = 1..Len(deltas)
    BY <2>4 DEF Pieces
  <2>6. Rest(Batches(r, position), r.text, 0)
    BY <2>3, <2>4, <2>5 DEF Rest
  <2> QED
    BY <1>4, <2>1, <2>2, <2>6, RestFacts
<1>5. CASE r.tool = "press"
  <2>1. Batches(r, position) = <<press>>
    BY <1>5 DEF Batches
  <2>2. /\ press \in Seq(Action) /\ Len(press) = 1 /\ press[1].kind = "press"
    BY ActionFacts DEF Do
  <2> HIDE DEF press
  <2>3. WellMade(press) /\ Wordless(press)
    <3>1. 1 \in 1..BatchLimit /\ \A i \in 1..1 : i = 1
      BY LimitFacts
    <3> QED
      BY <2>2, <3>1 DEF WellMade, Wordless
  <2> QED
    BY <1>o, <1>5, <2>1, <2>2, <2>3
<1> QED
  BY <1>1, <1>2, <1>3, <1>4, <1>5 DEF Requests
-----------------------------------------------------------------------------
(* One call: where it is, what it has still to send, what the API has still *)
(* to do of its batch, its text and what X has got of that.                *)

Steps == {"new", "claim", "post", "wait"} \cup Answered
Active == {"claim", "post", "wait"}

\* What is left of a batch is its end.
Placed(batch, left) ==
  /\ Len(left) <= Len(batch)
  /\ \A i \in 1..Len(left) : left[i] = batch[Len(batch) - Len(left) + i]

\* The pointer is where the batch has just moved it.
Aimed(batch, left, at) ==
  (Len(left) < Len(batch) /\ batch[Len(batch) - Len(left)].kind = "move")
    => at = batch[Len(batch) - Len(left)].at

Sent(step, batches, left, whole, sent) ==
  /\ step # "new"
  /\ Len(sent) \in 0..Len(whole) /\ sent = SubSeq(whole, 1, Len(sent))
  /\ left # <<>> => \E q \in 0..Len(whole) :
       Len(sent) <= q /\ left = <<Text(SubSeq(whole, Len(sent) + 1, q))>>
  /\ step \in {"claim", "post"} => Rest(batches, whole, Len(sent))
  /\ (step = "wait" /\ left # <<>>) => Rest(batches, whole, Len(sent))
  /\ (step = "wait" /\ left = <<>>) => Rest(Tail(batches), whole, Len(sent))
  /\ step = "ok" => Len(sent) = Len(whole)

Typed(batches, left, whole, sent) ==
  /\ batches \in Seq(Seq(Action)) /\ left \in Seq(Action)
  /\ whole \in Strings /\ sent \in Strings

Good(step, batches, left, whole, sent) ==
  /\ batches # <<>> <=> step \in Active
  /\ left # <<>> => step \in {"wait", "failed"}
  /\ \A i \in 1..Len(batches) : WellMade(batches[i])
  /\ step = "wait" => Placed(Head(batches), left)
  /\ whole = <<>> => /\ sent = <<>> /\ Wordless(left)
                     /\ \A i \in 1..Len(batches) : Wordless(batches[i])
  /\ whole # <<>> => Sent(step, batches, left, whole, sent)

LEMMA NoItems ==
  ASSUME NEW T, NEW t \in Seq(T)
  PROVE  t = <<>> <=> Len(t) = 0
OBVIOUS

\* A beginning and the piece behind it are a longer beginning.
LEMMA Joined ==
  ASSUME NEW w \in Strings, NEW p \in 0..Len(w), NEW q \in 0..Len(w), p <= q
  PROVE  /\ SubSeq(w, 1, p) \o SubSeq(w, p + 1, q) = SubSeq(w, 1, q)
         /\ SubSeq(w, 1, q) \in Strings /\ Len(SubSeq(w, 1, q)) = q
<1>1. /\ w \in Seq(STRING) /\ Len(w) \in Nat /\ 1 \in 1..(Len(w) + 1)
      /\ p \in (1 - 1)..Len(w) /\ q \in p..Len(w) /\ p \in Nat /\ q \in Nat
  BY DEF Strings
<1>2. SubSeq(w, 1, q) \in Strings /\ Len(SubSeq(w, 1, q)) = q
  BY <1>1 DEF Strings
<1> QED
  BY <1>1, <1>2, ConcatAdjacentSubSeq

\* A call that has not begun, or had nothing to send.
LEMMA GoodNew ==
  /\ Good("new", <<>>, <<>>, <<>>, <<>>)
  /\ Good("ok", <<>>, <<>>, <<>>, <<>>)
BY DEF Good, Active, Wordless

\* Before a call is made there is nothing of it.
LEMMA NothingBefore ==
  ASSUME NEW b, NEW l, NEW w, NEW s, Good("new", b, l, w, s)
  PROVE  b = <<>> /\ l = <<>> /\ w = <<>> /\ s = <<>>
BY DEF Good, Active, Sent

\* A call may fail anywhere; what the API still does of its batch goes on, or not.
LEMMA GoodFailed ==
  ASSUME NEW step \in Steps, NEW b, NEW l, NEW w, NEW s, Typed(b, l, w, s),
         Good(step, b, l, w, s)
  PROVE  Good("failed", <<>>, l, w, s) /\ Good("failed", <<>>, <<>>, w, s)
<1>1. w = <<>> => /\ s = <<>> /\ Wordless(l)
  BY DEF Good
<1>2. Wordless(<<>>)
  BY DEF Wordless
<1>3. w # <<>> => Sent("failed", <<>>, l, w, s) /\ Sent("failed", <<>>, <<>>, w, s)
  BY DEF Good, Sent
<1> QED
  BY <1>1, <1>2, <1>3 DEF Good, Active

\* The lease is claimed.
LEMMA GoodPost ==
  ASSUME NEW b, NEW l, NEW w, NEW s, Typed(b, l, w, s), Good("claim", b, l, w, s)
  PROVE  Good("post", b, l, w, s)
BY DEF Good, Active, Sent

\* The first batch is admitted.
LEMMA GoodWait ==
  ASSUME NEW b, NEW l, NEW w, NEW s, Typed(b, l, w, s), Good("post", b, l, w, s)
  PROVE  /\ Head(b) \in Seq(Action) /\ Head(b) # <<>> /\ WellMade(Head(b))
         /\ Good("wait", b, Head(b), w, s)
<1>1. b \in Seq(Seq(Action)) /\ b # <<>> /\ w \in Strings /\ Len(s) \in Nat
  BY DEF Good, Active, Typed, Strings
<1>2. 1 \in 1..Len(b) /\ Head(b) = b[1] /\ Head(b) \in Seq(Action)
  BY <1>1
<1>3. WellMade(Head(b))
  BY <1>2 DEF Good
<1>4. Head(b) # <<>>
  BY <1>3 DEF WellMade
<1>5. Placed(Head(b), Head(b))
  BY <1>2 DEF Placed
<1>6. w = <<>> => Wordless(Head(b))
  BY <1>2 DEF Good
<1>7. ASSUME w # <<>> PROVE Sent("wait", b, Head(b), w, s)
  <2>1. Sent("post", b, l, w, s)
    BY <1>7 DEF Good
  <2>2. Rest(b, w, Len(s))
    BY <2>1 DEF Sent
  <2>3. \E q \in 0..Len(w) : Len(s) <= q /\ Head(b) = <<Text(SubSeq(w, Len(s) + 1, q))>>
    BY <1>1, <2>2, RestFacts
  <2> QED
    BY <1>4, <2>1, <2>2, <2>3 DEF Sent
<1> QED
  BY <1>2, <1>3, <1>4, <1>5, <1>6, <1>7 DEF Good, Active

\* The batch is done: the call is answered, or goes on with the next one.
LEMMA GoodAccepted ==
  ASSUME NEW b, NEW w, NEW s, Typed(b, <<>>, w, s), Good("wait", b, <<>>, w, s)
  PROVE  /\ b # <<>>
         /\ Len(b) = 1 => Good("ok", <<>>, <<>>, w, s)
         /\ Len(b) # 1 => Tail(b) \in Seq(Seq(Action)) /\ Good("claim", Tail(b), <<>>, w, s)
<1>1. b \in Seq(Seq(Action)) /\ b # <<>> /\ w \in Strings /\ s \in Strings
  BY DEF Good, Active, Typed
<1>2. /\ Tail(b) \in Seq(Seq(Action)) /\ Len(Tail(b)) = Len(b) - 1 /\ Len(b) \in Nat \ {0}
      /\ \A i \in 1..Len(Tail(b)) : Tail(b)[i] = b[i + 1]
  BY <1>1, HeadTailProperties
<1>3. Wordless(<<>>)
  BY DEF Wordless
<1>4. w # <<>> => /\ Rest(Tail(b), w, Len(s)) /\ Len(s) \in 0..Len(w)
                  /\ s = SubSeq(w, 1, Len(s))
  BY DEF Good, Sent
<1>5. ASSUME Len(b) = 1 PROVE Good("ok", <<>>, <<>>, w, s)
  <2>1. Tail(b) = <<>>
    <3>1. Len(Tail(b)) = 0
      BY <1>2, <1>5
    <3> QED
      BY <1>2, <3>1, NoItems, Zenon
  <2>2. w # <<>> => Len(s) = Len(w)
    BY <1>1, <1>4, <2>1, RestFacts
  <2>3. w # <<>> => Sent("ok", <<>>, <<>>, w, s)
    BY <1>4, <2>2 DEF Sent
  <2> QED
    BY <1>3, <2>3 DEF Good, Active
<1>6. ASSUME Len(b) # 1 PROVE Good("claim", Tail(b), <<>>, w, s)
  <2>1. Tail(b) # <<>>
    <3>1. Len(Tail(b)) # 0
      BY <1>2, <1>6
    <3> QED
      BY <1>2, <3>1, NoItems, Zenon
  <2>2. ASSUME NEW i \in 1..Len(Tail(b))
        PROVE  WellMade(Tail(b)[i]) /\ (w = <<>> => Wordless(Tail(b)[i]))
    <3>1. i + 1 \in 1..Len(b)
      BY <1>2
    <3> QED
      BY <1>2, <3>1 DEF Good
  <2>3. w # <<>> => Sent("claim", Tail(b), <<>>, w, s)
    BY <1>4 DEF Sent
  <2>4. w = <<>> => s = <<>>
    BY DEF Good
  <2> QED
    BY <1>3, <2>1, <2>2, <2>3, <2>4 DEF Good, Active
<1> QED
  BY <1>1, <1>2, <1>5, <1>6

\* X gets the words of one action.
After(sent, a) == sent \o Words(a)

\* Nothing behind a text leaves it as it is.
LEMMA NothingAfter ==
  ASSUME NEW s \in Strings PROVE s \o <<>> = s /\ SubSeq(<<>>, 1, 0) = <<>>
<1>1. s \o <<>> = s
  BY ConcatEmptySeq DEF Strings
<1>2. SubSeq(<<>>, 1, 0) = <<>>
  OBVIOUS
<1> QED
  BY <1>1, <1>2

\* The API does one action of the batch, also when the call has been given up.
LEMMA GoodAct ==
  ASSUME NEW step \in Steps, NEW b, NEW l, NEW w, NEW s, Typed(b, l, w, s),
         Good(step, b, l, w, s), l # <<>>
  PROVE  /\ Head(l) \in Action /\ Tail(l) \in Seq(Action) /\ After(s, Head(l)) \in Strings
         /\ Good(step, b, Tail(l), w, After(s, Head(l)))
<1> DEFINE more == Tail(l)
           n == Len(l)
<1>1. /\ l \in Seq(Action) /\ n \in Nat \ {0} /\ Head(l) = l[1] /\ l[1] \in Action
      /\ more \in Seq(Action) /\ Len(more) = n - 1
      /\ \A i \in 1..(n - 1) : more[i] = l[i + 1]
  BY HeadTailProperties DEF Typed
<1>2. w \in Strings /\ s \in Strings /\ b \in Seq(Seq(Action)) /\ Len(w) \in Nat /\ Len(s) \in Nat
  BY DEF Typed, Strings
<1>3. step \in {"wait", "failed"}
  BY DEF Good
<1>4. more # <<>> <=> n # 1
  <2>1. Len(more) = 0 <=> n = 1
    BY <1>1
  <2> QED
    BY <1>1, <2>1, NoItems, Zenon
<1> HIDE DEF more, n
<1>5. step = "wait" => Placed(Head(b), more)
  <2>1. SUFFICES ASSUME step = "wait" PROVE Placed(Head(b), more)
    OBVIOUS
  <2>2. Placed(Head(b), l) /\ Head(b) \in Seq(Action)
    BY <1>2, <2>1 DEF Good, Active
  <2> DEFINE m == Len(Head(b))
  <2>3. m \in Nat
    BY <2>2
  <2> HIDE DEF m
  <2>4. n <= m /\ \A i \in 1..n : l[i] = Head(b)[m - n + i]
    BY <2>2 DEF Placed, m, n
  <2>5. ASSUME NEW i \in 1..(n - 1) PROVE more[i] = Head(b)[m - (n - 1) + i]
    <3>1. i + 1 \in 1..n /\ m - (n - 1) + i = m - n + (i + 1)
      BY <1>1, <2>3
    <3> QED
      BY <1>1, <2>4, <3>1
  <2>6. n - 1 <= m
    BY <1>1, <2>3, <2>4
  <2> QED
    BY <1>1, <2>5, <2>6 DEF Placed, m
<1>6. CASE w = <<>>
  <2>1. Wordless(l) /\ s = <<>> /\ \A i \in 1..Len(b) : Wordless(b[i])
    BY <1>6 DEF Good
  <2>2. Head(l).kind # "text"
    <3>1. 1 \in 1..n
      BY <1>1
    <3> QED
      BY <1>1, <2>1, <3>1 DEF Wordless, n
  <2>3. After(s, Head(l)) = s
    <3>1. Words(Head(l)) = <<>>
      BY <2>2 DEF Words
    <3> QED
      BY <1>2, <3>1, NothingAfter DEF After
  <2>4. Wordless(more)
    <3>1. ASSUME NEW i \in 1..(n - 1) PROVE more[i].kind # "text"
      <4>1. i + 1 \in 1..n
        BY <1>1
      <4> QED
        BY <1>1, <2>1, <4>1 DEF Wordless, n
    <3> QED
      BY <1>1, <3>1 DEF Wordless
  <2>5. Good(step, b, more, w, s)
    BY <1>3, <1>5, <1>6, <2>1, <2>4 DEF Good
  <2> QED
    BY <1>1, <1>2, <2>3, <2>5 DEF more
<1>7. CASE w # <<>>
  <2>1. Sent(step, b, l, w, s)
    BY <1>7 DEF Good
  <2> DEFINE p == Len(s)
  <2>2. p \in 0..Len(w) /\ s = SubSeq(w, 1, p)
    BY <2>1 DEF Sent
  <2>3. PICK q \in 0..Len(w) : /\ p <= q /\ l = <<Text(SubSeq(w, p + 1, q))>>
                               /\ step = "wait" => Rest(Tail(b), w, q)
    <3>1. CASE step = "failed"
      BY <2>1, <3>1 DEF Sent
    <3>2. CASE step = "wait"
      <4>1. Rest(b, w, p) /\ b # <<>>
        BY <2>1, <3>2 DEF Sent, Good, Active
      <4>2. PICK q \in 0..Len(w) :
              /\ p <= q /\ Head(b) = <<Text(SubSeq(w, p + 1, q))>>
              /\ Rest(Tail(b), w, q)
        BY <1>2, <4>1, RestFacts
      <4>3. n = 1 /\ Len(Head(b)) = 1
        <5>1. \E r \in 0..Len(w) : l = <<Text(SubSeq(w, p + 1, r))>>
          BY <2>1 DEF Sent
        <5> QED
          BY <4>2, <5>1 DEF n
      <4>4. Placed(Head(b), l)
        BY <3>2 DEF Good
      <4>5. l[1] = Head(b)[1]
        BY <4>3, <4>4 DEF Placed, n
      <4>6. l = <<l[1]>>
        BY <1>1, <4>3 DEF n
      <4>7. l = Head(b)
        BY <4>2, <4>5, <4>6
      <4> QED
        BY <4>2, <4>7
    <3> QED
      BY <1>3, <3>1, <3>2
  <2> DEFINE words == SubSeq(w, p + 1, q)
             sent == After(s, Head(l))
  <2>4. Head(l) = Text(words) /\ n = 1
    BY <2>3 DEF n
  <2>5. sent = s \o words
    <3> HIDE DEF words
    <3>1. Head(l).kind = "text" /\ Head(l).delta = words
      BY <2>4 DEF Text
    <3> QED
      BY <3>1 DEF After, Words
  <2>6. sent = SubSeq(w, 1, q) /\ Len(sent) = q /\ sent \in Strings
    <3> HIDE DEF sent, p
    <3>1. /\ SubSeq(w, 1, p) \o words = SubSeq(w, 1, q)
          /\ SubSeq(w, 1, q) \in Strings /\ Len(SubSeq(w, 1, q)) = q
      BY <1>2, <2>2, <2>3, Joined
    <3> QED
      BY <2>2, <2>5, <3>1
  <2>7. more = <<>>
    BY <1>4, <2>4
  <2> HIDE DEF sent, words, p
  <2>8. Sent(step, b, more, w, sent)
    BY <1>3, <2>3, <2>6, <2>7 DEF Sent
  <2>9. Good(step, b, more, w, sent)
    BY <1>3, <1>5, <1>7, <2>7, <2>8 DEF Good
  <2> QED
    BY <1>1, <2>6, <2>9 DEF more, sent
<1> QED
  BY <1>6, <1>7

\* The API fails in an action, of which X has got some words.
LEMMA GoodPart ==
  ASSUME NEW step \in Steps, NEW b, NEW l, NEW w, NEW s, Typed(b, l, w, s),
         Good(step, b, l, w, s), l # <<>>, NEW n \in 0..Len(Words(Head(l)))
  PROVE  /\ s \o SubSeq(Words(Head(l)), 1, n) \in Strings
         /\ Good("failed", <<>>, <<>>, w, s \o SubSeq(Words(Head(l)), 1, n))
<1> DEFINE part == SubSeq(Words(Head(l)), 1, n)
<1>1. l \in Seq(Action) /\ Head(l) = l[1] /\ 1 \in 1..Len(l)
  BY DEF Typed
<1>2. w \in Strings /\ s \in Strings /\ Len(w) \in Nat
  BY DEF Typed, Strings
<1>3. CASE w = <<>>
  <2>1. Wordless(l)
    BY <1>3 DEF Good
  <2>2. Words(Head(l)) = <<>>
    BY <1>1, <2>1 DEF Wordless, Words
  <2>3. n = 0
    BY <2>2
  <2>4. s \o part = s
    BY <1>2, <2>2, <2>3, NothingAfter
  <2> QED
    BY <1>2, <2>4, GoodFailed
<1>4. CASE w # <<>>
  <2> DEFINE p == Len(s)
  <2>1. /\ p \in 0..Len(w) /\ s = SubSeq(w, 1, p)
        /\ \E q \in 0..Len(w) : p <= q /\ l = <<Text(SubSeq(w, p + 1, q))>>
    BY <1>4 DEF Good, Sent
  <2>2. PICK q \in 0..Len(w) : p <= q /\ l = <<Text(SubSeq(w, p + 1, q))>>
    BY <2>1
  <2> DEFINE words == SubSeq(w, p + 1, q)
  <2>3. Words(Head(l)) = words
    <3>1. Head(l) = Text(words)
      BY <2>2
    <3> QED
      BY <3>1 DEF Text, Words
  <2> HIDE DEF p
  <2>4. Len(words) = q - p /\ \A i \in 1..(q - p) : words[i] = w[p + i]
    <3>1. p \in Nat /\ p + 1 \in 1..(Len(w) + 1) /\ q \in p..Len(w) /\ w \in Seq(STRING)
      BY <1>2, <2>1, <2>2 DEF Strings
    <3>2. Len(words) = q - p
      BY <3>1
    <3>3. \A i \in 1..(q - p) : words[i] = w[p + i]
      BY <3>1
    <3> QED
      BY <3>2, <3>3
  <2>5. part = SubSeq(w, p + 1, p + n) /\ p + n \in 0..Len(w) /\ n \in Nat
    <3>1. n \in 0..(q - p) /\ p + n \in 0..Len(w) /\ p \in Nat /\ q - p \in Nat
      BY <1>2, <2>1, <2>2, <2>3, <2>4
    <3>2. words \in Seq(STRING) /\ w \in Seq(STRING)
      BY <1>2, <2>1 DEF Strings
    <3>3. SubSeq(words, 1, n) = SubSeq(w, p + 1, p + n)
      <4>1. SubSeq(words, 1, n) = [i \in 1..n |-> words[i]]
        BY <3>1
      <4>2. SubSeq(w, p + 1, p + n) = [i \in 1..n |-> w[p + i]]
        BY <3>1
      <4>3. \A i \in 1..n : words[i] = w[p + i]
        BY <2>4, <3>1
      <4> HIDE DEF words
      <4> QED
        BY <4>1, <4>2, <4>3
    <3> QED
      BY <2>3, <3>1, <3>3
  <2>6. /\ s \o part = SubSeq(w, 1, p + n)
        /\ SubSeq(w, 1, p + n) \in Strings /\ Len(SubSeq(w, 1, p + n)) = p + n
    <3>1. p <= p + n
      BY <2>1, <2>5
    <3> QED
      BY <1>2, <2>1, <2>5, <3>1, Joined
  <2> HIDE DEF part
  <2>7. Sent("failed", <<>>, <<>>, w, s \o part)
    BY <2>5, <2>6 DEF Sent
  <2>8. Good("failed", <<>>, <<>>, w, s \o part)
    BY <1>4, <2>7 DEF Good, Active
  <2> QED
    BY <2>6, <2>8 DEF part
<1> QED
  BY <1>3, <1>4

\* The text that a call has to type.
Wanted(r) == IF r.tool = "type" THEN r.text ELSE <<>>

\* A call is made.
LEMMA GoodExecute ==
  ASSUME NEW r \in Requests, NEW position \in Positions
  PROVE  /\ Batches(r, position) \in Seq(Seq(Action)) /\ Wanted(r) \in Texts \cup {<<>>}
         /\ Batches(r, position) = <<>> => Wanted(r) = <<>>
         /\ Batches(r, position) # <<>> => Good("claim", Batches(r, position), <<>>, Wanted(r), <<>>)
<1> DEFINE b == Batches(r, position)
<1>1. /\ b \in Seq(Seq(Action)) /\ \A i \in 1..Len(b) : WellMade(b[i])
      /\ r.tool = "type" => r.text \in Texts /\ r.text \in Strings /\ r.text # <<>> /\ Rest(b, r.text, 0)
      /\ r.tool # "type" => \A i \in 1..Len(b) : Wordless(b[i])
  BY BatchFacts
<1> HIDE DEF b
<1>2. Wordless(<<>>)
  BY DEF Wordless
<1>3. CASE r.tool = "type"
  <2>1. Wanted(r) = r.text /\ r.text \in Strings /\ r.text # <<>> /\ Len(r.text) \in Nat /\ Rest(b, r.text, 0)
    BY <1>1, <1>3 DEF Wanted, Strings
  <2>2. b # <<>>
    <3>1. Len(r.text) # 0
      BY <2>1, NoItems, Zenon DEF Strings
    <3> QED
      BY <2>1, <3>1, RestFacts
  <2>3. <<>> = SubSeq(r.text, 1, 0) /\ Len(<<>>) = 0 /\ 0 \in 0..Len(r.text)
    BY <2>1 DEF Strings
  <2>4. Sent("claim", b, <<>>, r.text, <<>>)
    BY <2>1, <2>3 DEF Sent
  <2>5. Good("claim", b, <<>>, r.text, <<>>)
    BY <1>1, <2>1, <2>2, <2>4 DEF Good, Active
  <2> QED
    BY <1>1, <1>3, <2>1, <2>2, <2>5 DEF b
<1>4. CASE r.tool # "type"
  <2>1. Wanted(r) = <<>>
    BY <1>4 DEF Wanted
  <2>2. b # <<>> => Good("claim", b, <<>>, <<>>, <<>>)
    BY <1>1, <1>2, <1>4 DEF Good, Active
  <2> QED
    BY <1>1, <2>1, <2>2 DEF b
<1> QED
  BY <1>3, <1>4

\* At the start of a batch nothing has moved yet; after an action that has, the
\* pointer is there.
LEMMA AimedAtFirst ==
  ASSUME NEW batch \in Seq(Action), NEW at
  PROVE  Aimed(batch, batch, at)
BY DEF Aimed

LEMMA AimedAfter ==
  ASSUME NEW batch \in Seq(Action), NEW left \in Seq(Action), left # <<>>,
         Placed(batch, left), NEW at
  PROVE  Aimed(batch, Tail(left), Arrived(Head(left), at))
<1> DEFINE n == Len(left)
           m == Len(batch)
<1>1. /\ n \in Nat \ {0} /\ m \in Nat /\ Head(left) = left[1] /\ Len(Tail(left)) = n - 1
  BY HeadTailProperties
<1> HIDE DEF n, m
<1>2. 1 \in 1..n /\ m - n + 1 = m - (n - 1)
  BY <1>1
<1>3. left[1] = batch[m - (n - 1)]
  BY <1>2 DEF Placed, n, m
<1>4. batch[m - (n - 1)].kind = "move" => Arrived(Head(left), at) = batch[m - (n - 1)].at
  BY <1>1, <1>3 DEF Arrived
<1> QED
  BY <1>1, <1>4 DEF Aimed, m

\* The next thing to do is a click, and it is not the first of its batch: then the
\* pointer is on its target.
LEMMA ClickOnTarget ==
  ASSUME NEW batch, WellMade(batch), Len(batch) > 2,
         NEW left \in Seq(Action), left # <<>>, Placed(batch, left),
         NEW at, Aimed(batch, left, at), Head(left).kind = "click"
  PROVE  at = Head(left).at
<1> DEFINE n == Len(left)
           m == Len(batch)
           i == m - n + 1
<1>1. /\ n \in Nat \ {0} /\ m \in Nat /\ Head(left) = left[1] /\ m > 2
  BY DEF WellMade
<1> HIDE DEF n, m
<1>2. n <= m /\ \A k \in 1..n : left[k] = batch[m - n + k]
  BY DEF Placed, n, m
<1>3. i \in 1..m /\ left[1] = batch[i] /\ i - 1 = m - n
  BY <1>1, <1>2
<1> HIDE DEF i
<1>4. /\ i = m - 1
      /\ i > 1 => batch[i - 1].kind = "move" /\ batch[i - 1].at = batch[i].at
  BY <1>1, <1>3 DEF WellMade, m
<1>5. i > 1 /\ n < m
  BY <1>1, <1>2, <1>3, <1>4
<1>6. at = batch[m - n].at
  BY <1>3, <1>4, <1>5 DEF Aimed, n, m
<1> QED
  BY <1>1, <1>3, <1>4, <1>5, <1>6
-----------------------------------------------------------------------------
(* The lease, as far as these calls see it.                                *)

\* Leases stay leases, and only a grant to Me lets them name Me.
LEMMA MineFacts ==
  /\ NoLease \in Leases /\ ~Names(NoLease, Me)
  /\ \A id \in Ids : Grant(id) \in Leases /\ (Names(Grant(id), Me) => id = Me)
  /\ \A l \in Leases :
       /\ Expire(l) \in Leases /\ Renew(l) \in Leases /\ LeaseTick(l) \in Leases
       /\ Names(Expire(l), Me) => Names(l, Me)
       /\ Names(Renew(l), Me) => Names(l, Me)
       /\ Names(LeaseTick(l), Me) => Names(l, Me)
       /\ MayExtend(l, Me) => Names(l, Me)
       /\ Controller(l) \notin {Me, NoId} => ~Names(l, Me)
<1>1. ActorOf(Me) = "agent" /\ Me \in Ids /\ Me # NoId
  BY ServiceAssumption, IdAssumption DEF ActorOf, Ids
<1>2. NoLease \in Leases /\ ~Names(NoLease, Me)
  BY <1>1 DEF NoLease, Leases, Names
<1>3. ASSUME NEW id \in Ids PROVE Grant(id) \in Leases /\ (Names(Grant(id), Me) => id = Me)
  BY TTLAssumption DEF Grant, Leases, Names, ActorOf, TTL
<1>4. ASSUME NEW l \in Leases
      PROVE  /\ Expire(l) \in Leases /\ Renew(l) \in Leases /\ LeaseTick(l) \in Leases
             /\ Names(Expire(l), Me) => Names(l, Me)
             /\ Names(Renew(l), Me) => Names(l, Me)
             /\ Names(LeaseTick(l), Me) => Names(l, Me)
             /\ MayExtend(l, Me) => Names(l, Me)
             /\ Controller(l) \notin {Me, NoId} => ~Names(l, Me)
  <2>1. Expire(l) \in Leases /\ (Names(Expire(l), Me) => Names(l, Me))
    BY <1>2 DEF Expire
  <2>2. Renew(l) \in Leases /\ (Names(Renew(l), Me) => Names(l, Me))
    BY TTLAssumption DEF Renew, Leases, Names, TTL
  <2>3. LeaseTick(l) \in Leases /\ (Names(LeaseTick(l), Me) => Names(l, Me))
    BY DEF LeaseTick, Leases, Names
  <2>4. MayExtend(l, Me) => Names(l, Me)
    BY <2>1 DEF MayExtend, Holds
  <2>5. Controller(l) \notin {Me, NoId} => ~Names(l, Me)
    BY DEF Controller, Expire, NoLease, Names
  <2> QED
    BY <2>1, <2>2, <2>3, <2>4, <2>5
<1> QED
  BY <1>2, <1>3, <1>4
-----------------------------------------------------------------------------
(* The inductive invariant.                                                *)

ValuesOK ==
  /\ lease \in Leases /\ pointer \in Positions
  /\ pc \in [Calls -> Steps]
  /\ todo \in [Calls -> Seq(Seq(Action))] /\ running \in [Calls -> Seq(Action)]
  /\ preempted \in [Calls -> BOOLEAN] /\ overlapped \in [Calls -> BOOLEAN]
  /\ text \in [Calls -> Texts \cup {<<>>}] /\ typed \in [Calls -> Strings]

CallsGood == \A c \in Calls : Good(pc[c], todo[c], running[c], text[c], typed[c])

FlagsGood ==
  \A c \in Calls :
    /\ overlapped[c] => pc[c] \in Active
    /\ preempted[c] => running[c] # <<>>

\* While a call waits for its batch and no other has claimed since, nothing else
\* of these calls is being done.
Alone ==
  \A c, d \in Calls :
    c # d /\ pc[c] = "wait" /\ running[c] # <<>> /\ ~overlapped[c] => running[d] = <<>>

\* ... and as long as the lease is theirs, the pointer is where the batch has
\* moved it.
OnItsPath(c) ==
  pc[c] = "wait" /\ running[c] # <<>> /\ ~overlapped[c] /\ ~preempted[c] /\ Names(lease, Me)
    => Aimed(Head(todo[c]), running[c], pointer)

OnPath == \A c \in Calls : OnItsPath(c)

ServiceInv == ValuesOK /\ CallsGood /\ FlagsGood /\ Alone /\ OnPath

\* No call has been made.
LEMMA InitService == Init => ServiceInv
<1> SUFFICES ASSUME Init PROVE ServiceInv
  OBVIOUS
<1> USE DEF Init
<1>1. ValuesOK
  BY MineFacts, ActionFacts DEF ValuesOK, Steps, Answered, Strings
<1>2. CallsGood
  BY GoodNew DEF CallsGood
<1>3. FlagsGood /\ Alone /\ OnPath
  BY DEF FlagsGood, Alone, OnPath, OnItsPath
<1> QED
  BY <1>1, <1>2, <1>3 DEF ServiceInv

\* The types of one call.
LEMMA CallValues ==
  ASSUME ValuesOK, NEW c \in Calls
  PROVE  /\ pc[c] \in Steps /\ text[c] \in Texts \cup {<<>>}
         /\ Typed(todo[c], running[c], text[c], typed[c])
<1>1. text[c] \in Strings
  <2>1. text[c] \in Texts => text[c] \in Strings
    BY ServiceAssumption DEF Strings
  <2>2. <<>> \in Strings
    BY DEF Strings
  <2> QED
    BY <2>1, <2>2 DEF ValuesOK
<1> QED
  BY <1>1 DEF ValuesOK, Typed

\* The new value of one call, the others as they were.
LEMMA OneCallGood ==
  ASSUME CallsGood, NEW c \in Calls,
         Good(pc'[c], todo'[c], running'[c], text'[c], typed'[c]),
         \A d \in Calls \ {c} :
           /\ pc'[d] = pc[d] /\ todo'[d] = todo[d] /\ running'[d] = running[d]
           /\ text'[d] = text[d] /\ typed'[d] = typed[d]
  PROVE  CallsGood'
<1>1. ASSUME NEW d \in Calls \ {c}
      PROVE  Good(pc'[d], todo'[d], running'[d], text'[d], typed'[d])
  BY DEF CallsGood
<1> QED
  BY <1>1 DEF CallsGood

\* A failure of one call leaves all of them good.
LEMMA AnswerGood ==
  ASSUME ValuesOK, CallsGood, NEW c \in Calls, Answer(c, "failed"),
         UNCHANGED <<running, text, typed>>
  PROVE  CallsGood'
<1>1. /\ pc'[c] = "failed" /\ todo'[c] = <<>>
      /\ \A d \in Calls \ {c} : pc'[d] = pc[d] /\ todo'[d] = todo[d]
  BY DEF Answer, Goto, ValuesOK
<1>2. Good("failed", <<>>, running[c], text[c], typed[c])
  BY CallValues, GoodFailed DEF CallsGood
<1> QED
  BY <1>1, <1>2, OneCallGood

\* The values a call has after a step.
LEMMA StepCalls ==
  ASSUME ServiceInv, Next PROVE CallsGood'
<1> USE DEF ServiceInv
<1>1. ASSUME NEW c \in Calls, NEW r \in Requests, Execute(c, r) PROVE CallsGood'
  <2>1. todo[c] = <<>> /\ running[c] = <<>> /\ text[c] = <<>> /\ typed[c] = <<>>
    BY <1>1, NothingBefore DEF CallsGood, Execute
  <2>2. pointer \in Positions /\ c \in DOMAIN pc /\ c \in DOMAIN todo /\ c \in DOMAIN text
    BY DEF ValuesOK
  <2>3. text' = [text EXCEPT ![c] = Wanted(r)]
    <3>1. [text EXCEPT ![c] = <<>>] = text
      BY <2>1 DEF ValuesOK
    <3> QED
      BY <1>1, <3>1 DEF Execute, Wanted
  <2>4. UNCHANGED <<running, typed>>
    BY <1>1 DEF Execute, server
  <2>5. CASE Batches(r, pointer) = <<>>
    <3>1. pc' = [pc EXCEPT ![c] = "ok"] /\ todo' = [todo EXCEPT ![c] = <<>>]
      BY <1>1, <2>5 DEF Execute, Answer, Goto
    <3>2. Wanted(r) = <<>>
      BY <2>2, <2>5, GoodExecute
    <3>3. Good(pc'[c], todo'[c], running'[c], text'[c], typed'[c])
      BY <2>1, <2>2, <2>3, <2>4, <3>1, <3>2, GoodNew
    <3> QED
      BY <2>3, <2>4, <3>1, <3>3, OneCallGood
  <2>6. CASE Batches(r, pointer) # <<>>
    <3>1. pc' = [pc EXCEPT ![c] = "claim"] /\ todo' = [todo EXCEPT ![c] = Batches(r, pointer)]
      BY <1>1, <2>6 DEF Execute, Goto
    <3>2. Good("claim", Batches(r, pointer), <<>>, Wanted(r), <<>>)
      BY <2>2, <2>6, GoodExecute
    <3>3. Good(pc'[c], todo'[c], running'[c], text'[c], typed'[c])
      BY <2>1, <2>2, <2>3, <2>4, <3>1, <3>2
    <3> QED
      BY <2>3, <2>4, <3>1, <3>3, OneCallGood
  <2> QED
    BY <2>5, <2>6
<1>2. ASSUME NEW c \in Calls, ReleaseControl(c) PROVE CallsGood'
  <2>1. todo[c] = <<>> /\ running[c] = <<>> /\ text[c] = <<>> /\ typed[c] = <<>>
    BY <1>2, NothingBefore DEF CallsGood, ReleaseControl
  <2>2. UNCHANGED <<running, text, typed>>
    BY <1>2 DEF ReleaseControl
  <2>3. CASE Answer(c, "ok")
    <3>1. /\ pc'[c] = "ok" /\ todo'[c] = <<>>
          /\ \A d \in Calls \ {c} : pc'[d] = pc[d] /\ todo'[d] = todo[d]
      BY <2>3 DEF Answer, Goto, ValuesOK
    <3> QED
      BY <2>1, <2>2, <3>1, GoodNew, OneCallGood
  <2>4. CASE Answer(c, "failed")
    BY <2>2, <2>4, AnswerGood
  <2> QED
    BY <1>2, <2>3, <2>4 DEF ReleaseControl, Answered
<1>3. ASSUME NEW c \in Calls, Claim(c) PROVE CallsGood'
  <2>1. UNCHANGED <<running, text, typed>> /\ pc[c] = "claim"
    BY <1>3 DEF Claim, server
  <2>2. CASE Goto(c, "post") /\ UNCHANGED todo
    <3>1. pc'[c] = "post" /\ \A d \in Calls \ {c} : pc'[d] = pc[d]
      BY <2>2 DEF Goto, ValuesOK
    <3>2. Good("post", todo[c], running[c], text[c], typed[c])
      BY <2>1, CallValues, GoodPost DEF CallsGood
    <3> QED
      BY <2>1, <2>2, <3>1, <3>2, OneCallGood
  <2>3. CASE Answer(c, "failed")
    BY <2>1, <2>3, AnswerGood
  <2> QED
    BY <1>3, <2>2, <2>3 DEF Claim
<1>4. ASSUME NEW c \in Calls, Post(c) PROVE CallsGood'
  <2>1. UNCHANGED <<text, typed>> /\ pc[c] = "post"
    BY <1>4 DEF Post
  <2>2. CASE /\ running' = [running EXCEPT ![c] = Head(todo[c])]
             /\ Goto(c, "wait") /\ UNCHANGED todo
    <3>1. /\ pc'[c] = "wait" /\ running'[c] = Head(todo[c])
          /\ \A d \in Calls \ {c} : pc'[d] = pc[d] /\ running'[d] = running[d]
      BY <2>2 DEF Goto, ValuesOK
    <3>2. Good("wait", todo[c], Head(todo[c]), text[c], typed[c])
      BY <2>1, CallValues, GoodWait DEF CallsGood
    <3> QED
      BY <2>1, <2>2, <3>1, <3>2, OneCallGood
  <2>3. CASE Answer(c, "failed") /\ UNCHANGED running
    BY <2>1, <2>3, AnswerGood
  <2> QED
    BY <1>4, <2>2, <2>3 DEF Post
<1>5. ASSUME NEW c \in Calls, Accepted(c) PROVE CallsGood'
  <2>1. UNCHANGED <<running, text, typed>> /\ pc[c] = "wait" /\ running[c] = <<>>
    BY <1>5 DEF Accepted, server
  <2>2. /\ Len(todo[c]) = 1 => Good("ok", <<>>, <<>>, text[c], typed[c])
        /\ Len(todo[c]) # 1 => Good("claim", Tail(todo[c]), <<>>, text[c], typed[c])
    BY <2>1, CallValues, GoodAccepted DEF CallsGood
  <2>3. CASE Len(todo[c]) = 1
    <3>1. /\ pc'[c] = "ok" /\ todo'[c] = <<>>
          /\ \A d \in Calls \ {c} : pc'[d] = pc[d] /\ todo'[d] = todo[d]
      BY <1>5, <2>3 DEF Accepted, Answer, Goto, ValuesOK
    <3> QED
      BY <2>1, <2>2, <2>3, <3>1, OneCallGood
  <2>4. CASE Len(todo[c]) # 1
    <3>1. /\ pc'[c] = "claim" /\ todo'[c] = Tail(todo[c])
          /\ \A d \in Calls \ {c} : pc'[d] = pc[d] /\ todo'[d] = todo[d]
      BY <1>5, <2>4 DEF Accepted, Goto, ValuesOK
    <3> QED
      BY <2>1, <2>2, <2>4, <3>1, OneCallGood
  <2> QED
    BY <2>3, <2>4
<1>6. ASSUME NEW c \in Calls, Cancel(c) PROVE CallsGood'
  BY <1>6, AnswerGood DEF Cancel, server
<1>7. ASSUME NEW c \in Calls, Act(c) PROVE CallsGood'
  <2> DEFINE a == Head(running[c])
  <2>1. running[c] # <<>> /\ UNCHANGED <<pc, todo, text>>
    BY <1>7 DEF Act, client
  <2>2. typed' = [typed EXCEPT ![c] = After(typed[c], a)]
    BY <1>7 DEF Act, After
  <2>3. running' = [running EXCEPT ![c] = Tail(running[c])]
    BY <1>7 DEF Act
  <2>4. Good(pc[c], todo[c], Tail(running[c]), text[c], After(typed[c], a))
    BY <2>1, CallValues, GoodAct DEF CallsGood
  <2> HIDE DEF a
  <2>5. typed'[c] = After(typed[c], a) /\ \A d \in Calls \ {c} : typed'[d] = typed[d]
    BY <2>2 DEF ValuesOK
  <2>6. /\ running'[c] = Tail(running[c])
        /\ \A d \in Calls \ {c} : running'[d] = running[d]
    BY <2>3 DEF ValuesOK
  <2> QED
    BY <2>1, <2>4, <2>5, <2>6, OneCallGood
<1>8. ASSUME NEW c \in Calls, Reject(c) PROVE CallsGood'
  <2>0. PICK n \in 0..Len(Words(Head(running[c]))) :
          typed' = [typed EXCEPT ![c] = typed[c] \o SubSeq(Words(Head(running[c])), 1, n)]
    BY <1>8 DEF Reject, DoneInPart
  <2>1. running[c] # <<>> /\ UNCHANGED text /\ pc[c] \in {"wait", "failed"}
    BY <1>8 DEF Reject, CallsGood, Good
  <2>2. /\ running'[c] = <<>>
        /\ \A d \in Calls \ {c} : running'[d] = running[d]
    BY <1>8 DEF Reject, ValuesOK
  <2>3. /\ pc'[c] = "failed" /\ todo'[c] = <<>>
        /\ \A d \in Calls \ {c} : pc'[d] = pc[d] /\ todo'[d] = todo[d]
    <3>1. CASE pc[c] = "wait"
      BY <1>8, <3>1 DEF Reject, Answer, Goto, ValuesOK
    <3>2. CASE pc[c] = "failed"
      <4>1. todo[c] = <<>>
        BY <3>2 DEF CallsGood, Good, Active
      <4> QED
        BY <1>8, <3>2, <4>1 DEF Reject
    <3> QED
      BY <2>1, <3>1, <3>2
  <2>4. /\ Good("failed", <<>>, <<>>, text[c], typed'[c])
        /\ \A d \in Calls \ {c} : typed'[d] = typed[d]
    <3> DEFINE part == SubSeq(Words(Head(running[c])), 1, n)
    <3>1. Good("failed", <<>>, <<>>, text[c], typed[c] \o part)
      BY <2>1, CallValues, GoodPart DEF CallsGood
    <3> HIDE DEF part
    <3>2. typed' = [typed EXCEPT ![c] = typed[c] \o part]
      BY <2>0 DEF part
    <3> QED
      BY <3>1, <3>2 DEF ValuesOK
  <2> QED
    BY <2>1, <2>2, <2>3, <2>4, OneCallGood
<1>9. ASSUME UNCHANGED <<client, running, typed>> PROVE CallsGood'
  BY <1>9 DEF CallsGood, client
<1>10. ASSUME NEW h \in Humans, HumanClaims(h) \/ HumanReleases(h) PROVE CallsGood'
  BY <1>9, <1>10 DEF HumanClaims, HumanReleases, server
<1>11. ASSUME NEW a \in Agents \ {Me}, OtherClaims(a) PROVE CallsGood'
  BY <1>9, <1>11 DEF OtherClaims, server
<1>12. ASSUME NEW x \in Positions, OtherMoves(x) PROVE CallsGood'
  BY <1>9, <1>12 DEF OtherMoves, server
<1>13. ASSUME Time PROVE CallsGood'
  BY <1>9, <1>13 DEF Time, server
<1>14. ASSUME NEW c \in Calls, ServeLate(c) PROVE CallsGood'
  <2>1. /\ pc'[c] = "failed" /\ todo'[c] = <<>> /\ UNCHANGED <<text, typed>>
        /\ \A d \in Calls \ {c} : pc'[d] = pc[d] /\ todo'[d] = todo[d]
    BY <1>14 DEF ServeLate, Goto, ValuesOK
  <2>2. CASE UNCHANGED running
    <3>1. Good("failed", <<>>, running[c], text[c], typed[c])
      BY CallValues, GoodFailed DEF CallsGood
    <3> QED
      BY <2>1, <2>2, <3>1, OneCallGood
  <2>3. CASE pc[c] = "post" /\ running' = [running EXCEPT ![c] = Head(todo[c])]
    <3>1. running'[c] = Head(todo[c]) /\ \A d \in Calls \ {c} : running'[d] = running[d]
      BY <2>3 DEF ValuesOK
    <3>2. /\ Good("wait", todo[c], Head(todo[c]), text[c], typed[c])
          /\ Head(todo[c]) \in Seq(Action)
      BY <2>3, CallValues, GoodWait DEF CallsGood
    <3>3. "wait" \in Steps /\ Typed(todo[c], Head(todo[c]), text[c], typed[c])
      BY <3>2, CallValues DEF Steps, Typed
    <3>4. Good("failed", <<>>, Head(todo[c]), text[c], typed[c])
      BY <3>2, <3>3, GoodFailed
    <3> QED
      BY <2>1, <3>1, <3>4, OneCallGood
  <2> QED
    BY <1>14, <2>2, <2>3 DEF ServeLate
<1> QED
  BY <1>1, <1>2, <1>3, <1>4, <1>5, <1>6, <1>7, <1>8, <1>10, <1>11, <1>12, <1>13, <1>14 DEF Next

\* Types after an answer.
LEMMA AnswerValues ==
  ASSUME ValuesOK, NEW c \in Calls, NEW what \in Answered, Answer(c, what)
  PROVE  /\ pc' \in [Calls -> Steps] /\ todo' \in [Calls -> Seq(Seq(Action))]
         /\ overlapped' \in [Calls -> BOOLEAN]
<1>1. <<>> \in Seq(Seq(Action)) /\ what \in Steps
  BY DEF Steps
<1>2. pc' \in [Calls -> Steps]
  BY <1>1 DEF ValuesOK, Answer, Goto
<1>3. todo' \in [Calls -> Seq(Seq(Action))]
  BY <1>1 DEF ValuesOK, Answer
<1>4. overlapped' \in [Calls -> BOOLEAN]
  BY DEF ValuesOK, Answer
<1> QED
  BY <1>2, <1>3, <1>4

\* Types of the flags after the steps that set them.
LEMMA FlagValues ==
  ASSUME ValuesOK, NEW c \in Calls
  PROVE  /\ Overlap(c) => overlapped' \in [Calls -> BOOLEAN]
         /\ Preempt => preempted' \in [Calls -> BOOLEAN]
         /\ [preempted EXCEPT ![c] = FALSE] \in [Calls -> BOOLEAN]
BY DEF ValuesOK, Overlap, Preempt

\* Every step keeps the types.
LEMMA StepValues ==
  ASSUME ServiceInv, Next PROVE ValuesOK'
<1> USE DEF ServiceInv
<1>1. ASSUME NEW c \in Calls, NEW r \in Requests, Execute(c, r) PROVE ValuesOK'
  <2>1. pointer \in Positions /\ UNCHANGED <<lease, pointer, running, preempted, typed>>
    BY <1>1 DEF ValuesOK, Execute, server
  <2>2. text' \in [Calls -> Texts \cup {<<>>}]
    <3>1. r.tool = "type" => r.text \in Texts
      BY BatchFacts, <2>1
    <3> QED
      BY <1>1, <3>1 DEF ValuesOK, Execute
  <2>3. /\ pc' \in [Calls -> Steps] /\ todo' \in [Calls -> Seq(Seq(Action))]
        /\ overlapped' \in [Calls -> BOOLEAN]
    <3>1. CASE Batches(r, pointer) = <<>>
      BY <1>1, <3>1, AnswerValues DEF Execute, Answered
    <3>2. CASE Batches(r, pointer) # <<>>
      <4>1. Batches(r, pointer) \in Seq(Seq(Action))
        BY <2>1, GoodExecute
      <4> QED
        BY <1>1, <3>2, <4>1 DEF Execute, ValuesOK, Goto, Steps
    <3> QED
      BY <3>1, <3>2
  <2> QED
    BY <2>1, <2>2, <2>3 DEF ValuesOK
<1>2. ASSUME NEW c \in Calls, ReleaseControl(c) PROVE ValuesOK'
  <2>1. /\ pc' \in [Calls -> Steps] /\ todo' \in [Calls -> Seq(Seq(Action))]
        /\ overlapped' \in [Calls -> BOOLEAN]
    BY <1>2, AnswerValues DEF ReleaseControl, Answered
  <2>2. lease' \in Leases
    BY <1>2, MineFacts DEF ReleaseControl, ValuesOK
  <2>3. preempted' \in [Calls -> BOOLEAN]
    BY <1>2, FlagValues DEF ReleaseControl, ValuesOK
  <2> QED
    BY <1>2, <2>1, <2>2, <2>3 DEF ValuesOK, ReleaseControl
<1>3. ASSUME NEW c \in Calls, Claim(c) PROVE ValuesOK'
  <2>1. lease' \in Leases
    <3>1. Me \in Ids
      BY ServiceAssumption DEF Ids
    <3> QED
      BY <1>3, <3>1, MineFacts DEF Claim, ValuesOK
  <2>2. /\ pc' \in [Calls -> Steps] /\ todo' \in [Calls -> Seq(Seq(Action))]
        /\ overlapped' \in [Calls -> BOOLEAN]
    <3>1. CASE Goto(c, "post") /\ Overlap(c) /\ UNCHANGED todo
      BY <3>1, FlagValues DEF ValuesOK, Goto, Steps
    <3>2. CASE Answer(c, "failed")
      BY <3>2, AnswerValues DEF Answered
    <3> QED
      BY <1>3, <3>1, <3>2 DEF Claim
  <2> QED
    BY <1>3, <2>1, <2>2 DEF ValuesOK, Claim, server
<1>4. ASSUME NEW c \in Calls, Post(c) PROVE ValuesOK'
  <2>1. lease' \in Leases
    BY <1>4, MineFacts DEF Post, ValuesOK
  <2>2. /\ pc' \in [Calls -> Steps] /\ todo' \in [Calls -> Seq(Seq(Action))]
        /\ overlapped' \in [Calls -> BOOLEAN] /\ running' \in [Calls -> Seq(Action)]
    <3>1. CASE /\ running' = [running EXCEPT ![c] = Head(todo[c])]
               /\ Goto(c, "wait") /\ Overlap(c) /\ UNCHANGED todo
      <4>1. Good("post", todo[c], running[c], text[c], typed[c])
        BY <1>4 DEF Post, CallsGood
      <4>2. Head(todo[c]) \in Seq(Action)
        BY <4>1, CallValues, GoodWait
      <4> QED
        BY <3>1, <4>2, FlagValues DEF ValuesOK, Goto, Steps
    <3>2. CASE Answer(c, "failed") /\ UNCHANGED running
      BY <3>2, AnswerValues DEF Answered, ValuesOK
    <3> QED
      BY <1>4, <3>1, <3>2 DEF Post
  <2> QED
    BY <1>4, <2>1, <2>2 DEF ValuesOK, Post
<1>5. ASSUME NEW c \in Calls, Accepted(c) PROVE ValuesOK'
  <2>1. /\ pc' \in [Calls -> Steps] /\ todo' \in [Calls -> Seq(Seq(Action))]
        /\ overlapped' \in [Calls -> BOOLEAN]
    <3>1. CASE Len(todo[c]) = 1
      BY <1>5, <3>1, AnswerValues DEF Accepted, Answered
    <3>2. CASE Len(todo[c]) # 1
      <4>1. running[c] = <<>> /\ Good("wait", todo[c], running[c], text[c], typed[c])
        BY <1>5 DEF Accepted, CallsGood
      <4>2. Tail(todo[c]) \in Seq(Seq(Action))
        BY <3>2, <4>1, CallValues, GoodAccepted
      <4> QED
        BY <1>5, <3>2, <4>2 DEF Accepted, ValuesOK, Goto, Steps
    <3> QED
      BY <3>1, <3>2
  <2> QED
    BY <1>5, <2>1 DEF ValuesOK, Accepted, server
<1>6. ASSUME NEW c \in Calls, Cancel(c) PROVE ValuesOK'
  <2>1. /\ pc' \in [Calls -> Steps] /\ todo' \in [Calls -> Seq(Seq(Action))]
        /\ overlapped' \in [Calls -> BOOLEAN]
    BY <1>6, AnswerValues DEF Cancel, Answered
  <2> QED
    BY <1>6, <2>1 DEF ValuesOK, Cancel, server
<1>7. ASSUME NEW c \in Calls, Act(c) PROVE ValuesOK'
  <2> DEFINE a == Head(running[c])
  <2>1. /\ a \in Action /\ Tail(running[c]) \in Seq(Action)
        /\ After(typed[c], a) \in Strings
    BY <1>7, CallValues, GoodAct DEF Act, CallsGood
  <2>2. running' \in [Calls -> Seq(Action)]
    BY <1>7, <2>1 DEF Act, ValuesOK
  <2>3. pointer' = Arrived(a, pointer)
    BY <1>7 DEF Act
  <2>4. typed' = [typed EXCEPT ![c] = After(typed[c], a)]
    BY <1>7 DEF Act, After
  <2> HIDE DEF a
  <2>5. pointer' \in Positions
    BY <2>1, <2>3 DEF Action, Arrived, ValuesOK
  <2>6. typed' \in [Calls -> Strings]
    BY <2>1, <2>4 DEF ValuesOK
  <2>7. lease' \in Leases
    BY <1>7, MineFacts DEF Act, ValuesOK
  <2> QED
    BY <1>7, <2>2, <2>5, <2>6, <2>7 DEF ValuesOK, Act, client
<1>8. ASSUME NEW c \in Calls, Reject(c) PROVE ValuesOK'
  <2>1. lease' \in Leases
    BY <1>8, MineFacts DEF Reject, ValuesOK
  <2>2. running' \in [Calls -> Seq(Action)]
    <3>1. <<>> \in Seq(Action)
      OBVIOUS
    <3> QED
      BY <1>8, <3>1 DEF Reject, ValuesOK
  <2>3. preempted' \in [Calls -> BOOLEAN]
    BY <1>8, FlagValues DEF Reject
  <2>4. /\ pc' \in [Calls -> Steps] /\ todo' \in [Calls -> Seq(Seq(Action))]
        /\ overlapped' \in [Calls -> BOOLEAN]
    <3>1. CASE Answer(c, "failed")
      BY <3>1, AnswerValues DEF Answered
    <3>2. CASE UNCHANGED <<pc, todo, overlapped>>
      BY <3>2 DEF ValuesOK
    <3> QED
      BY <1>8, <3>1, <3>2 DEF Reject
  <2>5. pointer' \in Positions
    <3> DEFINE a == Head(running[c])
    <3>1. a \in Action
      BY <1>8, CallValues, GoodAct DEF Reject, CallsGood
    <3>2. pointer' \in {pointer, Arrived(a, pointer)}
      BY <1>8 DEF Reject, DoneInPart
    <3> HIDE DEF a
    <3> QED
      BY <3>1, <3>2 DEF Action, Arrived, ValuesOK
  <2>6. typed' \in [Calls -> Strings]
    <3>1. PICK n \in 0..Len(Words(Head(running[c]))) :
            typed' = [typed EXCEPT ![c] = typed[c] \o SubSeq(Words(Head(running[c])), 1, n)]
      BY <1>8 DEF Reject, DoneInPart
    <3> DEFINE more == typed[c] \o SubSeq(Words(Head(running[c])), 1, n)
    <3>2. more \in Strings
      BY <1>8, CallValues, GoodPart DEF Reject, CallsGood
    <3>3. typed' = [typed EXCEPT ![c] = more]
      BY <3>1
    <3> HIDE DEF more
    <3> QED
      BY <3>2, <3>3 DEF ValuesOK
  <2> QED
    BY <1>8, <2>1, <2>2, <2>3, <2>4, <2>5, <2>6 DEF ValuesOK, Reject
<1>9. ASSUME NEW h \in Humans, HumanClaims(h) \/ HumanReleases(h) PROVE ValuesOK'
  <2>1. lease' \in Leases
    BY <1>9, MineFacts DEF HumanClaims, HumanReleases, Ids
  <2>2. preempted' \in [Calls -> BOOLEAN]
    BY <1>9 DEF HumanClaims, HumanReleases, Preempt, ValuesOK, server
  <2> QED
    BY <1>9, <2>1, <2>2 DEF ValuesOK, HumanClaims, HumanReleases, client, server
<1>10. ASSUME NEW a \in Agents \ {Me}, OtherClaims(a) PROVE ValuesOK'
  <2>1. lease' \in Leases
    BY <1>10, MineFacts DEF OtherClaims, Ids
  <2> QED
    BY <1>10, <2>1 DEF ValuesOK, OtherClaims, client, server
<1>11. ASSUME NEW x \in Positions, OtherMoves(x) PROVE ValuesOK'
  BY <1>11 DEF ValuesOK, OtherMoves, client, server
<1>12. ASSUME Time PROVE ValuesOK'
  <2>1. lease' \in Leases
    BY <1>12, MineFacts DEF Time, ValuesOK
  <2> QED
    BY <1>12, <2>1 DEF ValuesOK, Time, client, server
<1>13. ASSUME NEW c \in Calls, ServeLate(c) PROVE ValuesOK'
  <2>1. lease' \in Leases
    <3>1. Me \in Ids
      BY ServiceAssumption DEF Ids
    <3> QED
      BY <1>13, <3>1, MineFacts DEF ServeLate, ValuesOK
  <2>2. /\ pc' \in [Calls -> Steps] /\ todo' \in [Calls -> Seq(Seq(Action))]
        /\ overlapped' \in [Calls -> BOOLEAN]
    <3>1. <<>> \in Seq(Seq(Action)) /\ "failed" \in Steps
      BY DEF Steps, Answered
    <3> QED
      BY <1>13, <3>1 DEF ServeLate, Goto, ValuesOK
  <2>3. running' \in [Calls -> Seq(Action)]
    <3>1. CASE UNCHANGED running
      BY <3>1 DEF ValuesOK
    <3>2. CASE pc[c] = "post" /\ running' = [running EXCEPT ![c] = Head(todo[c])]
      <4>1. Good("post", todo[c], running[c], text[c], typed[c])
        BY <3>2 DEF CallsGood
      <4>2. Head(todo[c]) \in Seq(Action)
        BY <4>1, CallValues, GoodWait
      <4> QED
        BY <3>2, <4>2 DEF ValuesOK
    <3> QED
      BY <1>13, <3>1, <3>2 DEF ServeLate
  <2> QED
    BY <1>13, <2>1, <2>2, <2>3 DEF ValuesOK, ServeLate
<1> QED
  BY <1>1, <1>2, <1>3, <1>4, <1>5, <1>6, <1>7, <1>8, <1>9, <1>10, <1>11, <1>12, <1>13 DEF Next

\* What the step of one call does to the two flags of all.
LEMMA AnswerFlags ==
  ASSUME ValuesOK, FlagsGood, NEW c \in Calls, NEW what \in Answered, Answer(c, what)
  PROVE  /\ pc'[c] = what /\ what # "wait" /\ what \notin Active /\ todo'[c] = <<>> /\ ~overlapped'[c]
         /\ \A d \in Calls \ {c} :
              /\ pc'[d] = pc[d] /\ todo'[d] = todo[d]
              /\ overlapped'[d] <=> overlapped[d]
BY DEF ValuesOK, Answer, Goto, Answered, Active

LEMMA OverlapFlags ==
  ASSUME NEW c \in Calls, Overlap(c)
  PROVE  \A d \in Calls :
           /\ overlapped[d] => overlapped'[d]
           /\ (d # c /\ overlapped'[d]) => overlapped[d] \/ pc[d] = "wait"
           /\ (d # c /\ pc[d] = "wait" /\ running[d] # <<>>) => overlapped'[d]
           /\ (d # c /\ ~overlapped'[c]) => running[d] = <<>>
BY DEF Overlap

LEMMA LateFlags ==
  ASSUME ValuesOK, NEW c \in Calls, ServeLate(c)
  PROVE  /\ pc'[c] = "failed" /\ ~overlapped'[c] /\ UNCHANGED <<preempted, pointer>>
         /\ \A d \in Calls \ {c} :
              /\ pc'[d] = pc[d] /\ todo'[d] = todo[d] /\ running'[d] = running[d]
              /\ overlapped'[d] <=> overlapped[d] \/ (running[d] # <<>> /\ pc[d] = "wait")
<1>1. pc'[c] = "failed" /\ \A d \in Calls \ {c} : pc'[d] = pc[d]
  BY DEF ServeLate, Goto, ValuesOK
<1>2. \A d \in Calls \ {c} : todo'[d] = todo[d] /\ running'[d] = running[d]
  BY DEF ServeLate, ValuesOK
<1>3. \A d \in Calls : overlapped'[d] <=>
        d # c /\ (overlapped[d] \/ (running[d] # <<>> /\ pc[d] = "wait"))
  BY DEF ServeLate
<1> QED
  BY <1>1, <1>2, <1>3 DEF ServeLate

LEMMA PreemptFlags ==
  ASSUME Preempt
  PROVE  \A d \in Calls : preempted'[d] <=> running[d] # <<>>
BY DEF Preempt

\* No step leaves a flag behind.
LEMMA StepFlags ==
  ASSUME ServiceInv, Next PROVE FlagsGood'
<1> USE DEF ServiceInv
<1>1. ASSUME NEW c \in Calls, NEW r \in Requests, Execute(c, r) PROVE FlagsGood'
  <2>1. UNCHANGED <<running, preempted>>
    BY <1>1 DEF Execute, server
  <2>2. CASE Answer(c, "ok")
    BY <2>1, <2>2, AnswerFlags DEF FlagsGood, Answered
  <2>3. CASE Goto(c, "claim") /\ UNCHANGED overlapped
    BY <2>1, <2>3 DEF FlagsGood, Goto, ValuesOK, Active
  <2> QED
    BY <1>1, <2>2, <2>3 DEF Execute
<1>2. ASSUME NEW c \in Calls, ReleaseControl(c) PROVE FlagsGood'
  <2>1. \A d \in Calls : overlapped'[d] => pc'[d] \in Active
    BY <1>2, AnswerFlags DEF ReleaseControl, Answered, FlagsGood
  <2>2. \A d \in Calls : preempted'[d] => running'[d] # <<>>
    BY <1>2, PreemptFlags DEF ReleaseControl, FlagsGood
  <2> QED
    BY <2>1, <2>2 DEF FlagsGood
<1>3. ASSUME NEW c \in Calls, Claim(c) PROVE FlagsGood'
  <2>1. UNCHANGED <<running, preempted>>
    BY <1>3 DEF Claim, server
  <2>2. CASE Goto(c, "post") /\ Overlap(c)
    <3>1. /\ pc'[c] = "post" /\ \A d \in Calls \ {c} : pc'[d] = pc[d]
      BY <2>2 DEF Goto, ValuesOK
    <3> QED
      BY <2>1, <2>2, <3>1, OverlapFlags DEF FlagsGood, Active
  <2>3. CASE Answer(c, "failed")
    BY <2>1, <2>3, AnswerFlags DEF FlagsGood, Answered
  <2> QED
    BY <1>3, <2>2, <2>3 DEF Claim
<1>4. ASSUME NEW c \in Calls, Post(c) PROVE FlagsGood'
  <2>1. UNCHANGED preempted
    BY <1>4 DEF Post
  <2>2. CASE /\ running' = [running EXCEPT ![c] = Head(todo[c])]
             /\ Goto(c, "wait") /\ Overlap(c)
    <3>1. /\ pc'[c] = "wait" /\ \A d \in Calls \ {c} : pc'[d] = pc[d] /\ running'[d] = running[d]
      BY <2>2 DEF Goto, ValuesOK
    <3>2. running[c] = <<>>
      BY <1>4 DEF Post, CallsGood, Good
    <3>3. ~preempted[c]
      BY <3>2 DEF FlagsGood
    <3> QED
      BY <2>1, <2>2, <3>1, <3>3, OverlapFlags DEF FlagsGood, Active
  <2>3. CASE Answer(c, "failed") /\ UNCHANGED running
    BY <2>1, <2>3, AnswerFlags DEF FlagsGood, Answered
  <2> QED
    BY <1>4, <2>2, <2>3 DEF Post
<1>5. ASSUME NEW c \in Calls, Accepted(c) PROVE FlagsGood'
  <2>1. UNCHANGED <<running, preempted>>
    BY <1>5 DEF Accepted, server
  <2>2. CASE Answer(c, "ok")
    BY <2>1, <2>2, AnswerFlags DEF FlagsGood, Answered
  <2>3. CASE Goto(c, "claim") /\ UNCHANGED overlapped
    BY <2>1, <2>3 DEF FlagsGood, Goto, ValuesOK, Active
  <2> QED
    BY <1>5, <2>2, <2>3 DEF Accepted
<1>6. ASSUME NEW c \in Calls, Cancel(c) PROVE FlagsGood'
  BY <1>6, AnswerFlags DEF Cancel, FlagsGood, Answered, server
<1>7. ASSUME NEW c \in Calls, Act(c) PROVE FlagsGood'
  BY <1>7 DEF Act, FlagsGood, client, ValuesOK
<1>8. ASSUME NEW c \in Calls, Reject(c) PROVE FlagsGood'
  <2>1. \A d \in Calls : preempted'[d] => running'[d] # <<>>
    BY <1>8 DEF Reject, FlagsGood, ValuesOK
  <2>2. CASE Answer(c, "failed")
    BY <2>1, <2>2, AnswerFlags DEF FlagsGood, Answered
  <2>3. CASE UNCHANGED <<pc, todo, overlapped>>
    BY <2>1, <2>3 DEF FlagsGood
  <2> QED
    BY <1>8, <2>2, <2>3 DEF Reject
<1>9. ASSUME NEW h \in Humans, HumanClaims(h) PROVE FlagsGood'
  BY <1>9, PreemptFlags DEF HumanClaims, FlagsGood, client
<1>10. ASSUME UNCHANGED <<client, server, overlapped>> PROVE FlagsGood'
  BY <1>10 DEF FlagsGood, client, server
<1>11. ASSUME NEW h \in Humans, HumanReleases(h) PROVE FlagsGood'
  BY <1>10, <1>11 DEF HumanReleases
<1>12. ASSUME NEW a \in Agents \ {Me}, OtherClaims(a) PROVE FlagsGood'
  BY <1>10, <1>12 DEF OtherClaims
<1>13. ASSUME NEW x \in Positions, OtherMoves(x) PROVE FlagsGood'
  BY <1>10, <1>13 DEF OtherMoves
<1>14. ASSUME Time PROVE FlagsGood'
  BY <1>10, <1>14 DEF Time
<1>15. ASSUME NEW c \in Calls, ServeLate(c) PROVE FlagsGood'
  <2>1. ~preempted[c]
    <3>1. running[c] = <<>>
      BY <1>15 DEF ServeLate, CallsGood, Good
    <3> QED
      BY <3>1 DEF FlagsGood
  <2> QED
    BY <1>15, <2>1, LateFlags DEF FlagsGood, Active
<1> QED
  BY <1>1, <1>2, <1>3, <1>4, <1>5, <1>6, <1>7, <1>8, <1>9, <1>11, <1>12, <1>13, <1>14, <1>15 DEF Next

\* A step that starts no batch leaves those alone that were.
LEMMA StaysAlone ==
  ASSUME Alone,
         \A d \in Calls : running'[d] # <<>> => running[d] # <<>>,
         \A d \in Calls : pc'[d] = "wait" => pc[d] = "wait",
         \A d \in Calls : pc'[d] = "wait" /\ overlapped[d] => overlapped'[d]
  PROVE  Alone'
<1> SUFFICES ASSUME NEW c \in Calls, NEW d \in Calls, c # d,
                    pc'[c] = "wait", running'[c] # <<>>, ~overlapped'[c]
             PROVE  running'[d] = <<>>
  BY DEF Alone
<1>1. pc[c] = "wait" /\ running[c] # <<>> /\ ~overlapped[c]
  OBVIOUS
<1>2. running[d] = <<>>
  BY <1>1 DEF Alone
<1> QED
  BY <1>2

\* ... and one that starts a batch marks every call it meets.
LEMMA StepAlone ==
  ASSUME ServiceInv, Next PROVE Alone'
<1> USE DEF ServiceInv
<1>1. ASSUME NEW c \in Calls, NEW what \in Answered, Answer(c, what), UNCHANGED running
      PROVE  Alone'
  BY <1>1, AnswerFlags, StaysAlone
<1>2. ASSUME NEW c \in Calls, Goto(c, "claim"), UNCHANGED <<running, overlapped>>
      PROVE  Alone'
  BY <1>2, StaysAlone DEF Goto, ValuesOK
<1>3. ASSUME NEW c \in Calls, NEW r \in Requests, Execute(c, r) PROVE Alone'
  BY <1>1, <1>2, <1>3 DEF Execute, server, Answered
<1>4. ASSUME NEW c \in Calls, ReleaseControl(c) PROVE Alone'
  BY <1>1, <1>4 DEF ReleaseControl, Answered
<1>5. ASSUME NEW c \in Calls, Claim(c) PROVE Alone'
  <2>1. UNCHANGED running
    BY <1>5 DEF Claim, server
  <2>2. CASE Goto(c, "post") /\ Overlap(c)
    <3>1. /\ pc'[c] = "post" /\ \A d \in Calls \ {c} : pc'[d] = pc[d]
      BY <2>2 DEF Goto, ValuesOK
    <3> QED
      BY <2>1, <2>2, <3>1, OverlapFlags, StaysAlone
  <2>3. CASE Answer(c, "failed")
    BY <1>1, <2>1, <2>3 DEF Answered
  <2> QED
    BY <1>5, <2>2, <2>3 DEF Claim
<1>6. ASSUME NEW c \in Calls, Post(c) PROVE Alone'
  <2>1. CASE /\ running' = [running EXCEPT ![c] = Head(todo[c])]
             /\ Goto(c, "wait") /\ Overlap(c)
    <3>1. /\ pc'[c] = "wait" /\ \A d \in Calls \ {c} : pc'[d] = pc[d] /\ running'[d] = running[d]
      BY <2>1 DEF Goto, ValuesOK
    <3>2. SUFFICES ASSUME NEW x \in Calls, NEW y \in Calls, x # y,
                          pc'[x] = "wait", running'[x] # <<>>, ~overlapped'[x]
                   PROVE  running'[y] = <<>>
      BY DEF Alone
    <3>3. CASE x = c
      BY <2>1, <3>1, <3>2, <3>3, OverlapFlags
    <3>4. CASE x # c
      <4>1. pc[x] = "wait" /\ running[x] # <<>>
        BY <3>1, <3>2, <3>4
      <4> QED
        BY <2>1, <3>2, <3>4, <4>1, OverlapFlags
    <3> QED
      BY <3>3, <3>4
  <2>2. CASE Answer(c, "failed") /\ UNCHANGED running
    BY <1>1, <2>2 DEF Answered
  <2> QED
    BY <1>6, <2>1, <2>2 DEF Post
<1>7. ASSUME NEW c \in Calls, Accepted(c) PROVE Alone'
  BY <1>1, <1>2, <1>7 DEF Accepted, server, Answered
<1>8. ASSUME NEW c \in Calls, Cancel(c) PROVE Alone'
  BY <1>1, <1>8 DEF Cancel, server, Answered
<1>9. ASSUME NEW c \in Calls, Act(c) PROVE Alone'
  <2>1. running[c] # <<>> /\ running' = [running EXCEPT ![c] = Tail(running[c])]
        /\ UNCHANGED <<pc, overlapped>>
    BY <1>9 DEF Act, client
  <2>2. \A d \in Calls : running'[d] # <<>> => running[d] # <<>>
    BY <2>1 DEF ValuesOK
  <2> QED
    BY <2>1, <2>2, StaysAlone
<1>10. ASSUME NEW c \in Calls, Reject(c) PROVE Alone'
  <2>1. \A d \in Calls : running'[d] # <<>> => running[d] # <<>>
    BY <1>10 DEF Reject, ValuesOK
  <2>2. CASE Answer(c, "failed")
    BY <2>1, <2>2, AnswerFlags, StaysAlone DEF Answered
  <2>3. CASE UNCHANGED <<pc, todo, overlapped>>
    BY <2>1, <2>3, StaysAlone
  <2> QED
    BY <1>10, <2>2, <2>3 DEF Reject
<1>11. ASSUME UNCHANGED <<pc, running, overlapped>> PROVE Alone'
  BY <1>11, StaysAlone
<1>12. ASSUME NEW h \in Humans, HumanClaims(h) \/ HumanReleases(h) PROVE Alone'
  BY <1>11, <1>12 DEF HumanClaims, HumanReleases, client, server
<1>13. ASSUME NEW a \in Agents \ {Me}, OtherClaims(a) PROVE Alone'
  BY <1>11, <1>13 DEF OtherClaims, client, server
<1>14. ASSUME NEW x \in Positions, OtherMoves(x) PROVE Alone'
  BY <1>11, <1>14 DEF OtherMoves, client, server
<1>15. ASSUME Time PROVE Alone'
  BY <1>11, <1>15 DEF Time, client, server
<1>16. ASSUME NEW c \in Calls, ServeLate(c) PROVE Alone'
  <2> SUFFICES ASSUME NEW x \in Calls, NEW y \in Calls, x # y,
                      pc'[x] = "wait", running'[x] # <<>>, ~overlapped'[x]
               PROVE  FALSE
    BY DEF Alone
  <2>1. x # c
    BY <1>16, LateFlags
  <2> QED
    BY <1>16, <2>1, LateFlags
<1> QED
  BY <1>3, <1>4, <1>5, <1>6, <1>7, <1>8, <1>9, <1>10, <1>12, <1>13, <1>14, <1>15, <1>16 DEF Next

\* A call that the step does not touch.
LEMMA KeepsPath ==
  ASSUME OnPath, NEW d \in Calls,
         pc'[d] = pc[d], todo'[d] = todo[d], running'[d] = running[d],
         overlapped[d] => overlapped'[d], preempted[d] => preempted'[d],
         Names(lease', Me) => Names(lease, Me), pointer' = pointer
  PROVE  OnItsPath(d)'
<1> SUFFICES ASSUME /\ pc'[d] = "wait" /\ running'[d] # <<>>
                    /\ ~overlapped'[d] /\ ~preempted'[d] /\ Names(lease', Me)
             PROVE  Aimed(Head(todo'[d]), running'[d], pointer')
  BY DEF OnItsPath
<1>1. Aimed(Head(todo[d]), running[d], pointer)
  BY DEF OnPath, OnItsPath
<1> QED
  BY <1>1

\* Nothing is said of a call without a batch.
LEMMA NotWaiting ==
  ASSUME NEW d, pc'[d] # "wait" \/ running'[d] = <<>> PROVE OnItsPath(d)'
BY DEF OnItsPath

\* Every step leaves the pointer where the batch has moved it, or marks the call.
LEMMA StepOnPath ==
  ASSUME ServiceInv, Next PROVE OnPath'
<1> USE DEF ServiceInv
<1>0. lease \in Leases
  BY DEF ValuesOK
<1>1. ASSUME NEW c \in Calls, NEW what \in Answered, Answer(c, what),
             \A d \in Calls \ {c} : running'[d] = running[d],
             \A d \in Calls \ {c} : preempted[d] => preempted'[d],
             UNCHANGED pointer, Names(lease', Me) => Names(lease, Me)
      PROVE  OnPath'
  <2>1. OnItsPath(c)'
    BY <1>1, AnswerFlags, NotWaiting
  <2>2. ASSUME NEW d \in Calls \ {c} PROVE OnItsPath(d)'
    BY <1>1, <2>2, AnswerFlags, KeepsPath
  <2> QED
    BY <2>1, <2>2 DEF OnPath
<1>2. ASSUME NEW c \in Calls, Goto(c, "claim"), UNCHANGED <<running, overlapped, preempted, pointer, lease>>,
             \A d \in Calls \ {c} : todo'[d] = todo[d]
      PROVE  OnPath'
  <2>1. pc'[c] = "claim" /\ \A d \in Calls \ {c} : pc'[d] = pc[d]
    BY <1>2 DEF Goto, ValuesOK
  <2>2. OnItsPath(c)'
    BY <2>1, NotWaiting
  <2>3. ASSUME NEW d \in Calls \ {c} PROVE OnItsPath(d)'
    BY <1>2, <2>1, <2>3, KeepsPath
  <2> QED
    BY <2>2, <2>3 DEF OnPath
<1>3. ASSUME NEW c \in Calls, NEW r \in Requests, Execute(c, r) PROVE OnPath'
  <2>1. UNCHANGED <<lease, pointer, running, preempted>>
    BY <1>3 DEF Execute, server
  <2>2. CASE Answer(c, "ok")
    BY <1>1, <2>1, <2>2 DEF Answered
  <2>3. CASE Goto(c, "claim") /\ UNCHANGED overlapped /\ todo' = [todo EXCEPT ![c] = Batches(r, pointer)]
    BY <1>2, <2>1, <2>3 DEF ValuesOK
  <2> QED
    BY <1>3, <2>2, <2>3 DEF Execute
<1>4. ASSUME NEW c \in Calls, ReleaseControl(c) PROVE OnPath'
  <2>1. UNCHANGED <<pointer, running>> /\ (Names(lease', Me) => Names(lease, Me))
    BY <1>0, <1>4, MineFacts DEF ReleaseControl
  <2>2. CASE Answer(c, "failed") /\ UNCHANGED preempted
    BY <1>1, <2>1, <2>2 DEF Answered
  <2>3. ASSUME NEW what \in Answered, Answer(c, what), Preempt PROVE OnPath'
    <3>1. \A d \in Calls : preempted[d] => preempted'[d]
      BY <2>3, PreemptFlags DEF FlagsGood
    <3> QED
      BY <1>1, <2>1, <2>3, <3>1
  <2> QED
    BY <1>4, <2>2, <2>3 DEF ReleaseControl
<1>5. ASSUME NEW c \in Calls, Claim(c) PROVE OnPath'
  <2>1. UNCHANGED <<running, preempted, pointer>>
    BY <1>5 DEF Claim, server
  <2>2. CASE Goto(c, "post") /\ Overlap(c)
    <3>1. /\ pc'[c] = "post" /\ \A d \in Calls \ {c} : pc'[d] = pc[d]
      BY <2>2 DEF Goto, ValuesOK
    <3>2. OnItsPath(c)'
      BY <3>1, NotWaiting
    <3>3. ASSUME NEW d \in Calls \ {c} PROVE OnItsPath(d)'
      <4>1. CASE pc[d] = "wait" /\ running[d] # <<>>
        <5>1. overlapped'[d]
          BY <2>2, <3>3, <4>1, OverlapFlags
        <5> QED
          BY <5>1 DEF OnItsPath
      <4>2. CASE pc[d] # "wait" \/ running[d] = <<>>
        BY <2>1, <3>1, <3>3, <4>2, NotWaiting
      <4> QED
        BY <4>1, <4>2
    <3> QED
      BY <3>2, <3>3 DEF OnPath
  <2>3. CASE lease' = Expire(lease) /\ Answer(c, "failed")
    BY <1>0, <1>1, <2>1, <2>3, MineFacts DEF Answered
  <2> QED
    BY <1>5, <2>2, <2>3 DEF Claim
<1>6. ASSUME NEW c \in Calls, Post(c) PROVE OnPath'
  <2>1. UNCHANGED <<preempted, pointer>> /\ (Names(lease', Me) => Names(lease, Me))
    BY <1>0, <1>6, MineFacts DEF Post
  <2>2. CASE /\ running' = [running EXCEPT ![c] = Head(todo[c])]
             /\ Goto(c, "wait") /\ Overlap(c) /\ UNCHANGED todo
    <3>1. /\ pc'[c] = "wait" /\ running'[c] = Head(todo[c])
          /\ \A d \in Calls \ {c} : pc'[d] = pc[d] /\ running'[d] = running[d]
      BY <2>2 DEF Goto, ValuesOK
    <3>2. OnItsPath(c)'
      <4>1. Good("post", todo[c], running[c], text[c], typed[c])
        BY <1>6 DEF Post, CallsGood
      <4>2. Head(todo[c]) \in Seq(Action)
        BY <4>1, CallValues, GoodWait
      <4>3. Aimed(Head(todo'[c]), running'[c], pointer')
        BY <2>2, <3>1, <4>2, AimedAtFirst
      <4> QED
        BY <4>3 DEF OnItsPath
    <3>3. ASSUME NEW d \in Calls \ {c} PROVE OnItsPath(d)'
      BY <2>1, <2>2, <3>1, <3>3, OverlapFlags, KeepsPath
    <3> QED
      BY <3>2, <3>3 DEF OnPath
  <2>3. CASE Answer(c, "failed") /\ UNCHANGED running
    BY <1>1, <2>1, <2>3 DEF Answered
  <2> QED
    BY <1>6, <2>2, <2>3 DEF Post
<1>7. ASSUME NEW c \in Calls, Accepted(c) PROVE OnPath'
  <2>1. UNCHANGED <<lease, pointer, running, preempted>>
    BY <1>7 DEF Accepted, server
  <2>2. CASE Answer(c, "ok")
    BY <1>1, <2>1, <2>2 DEF Answered
  <2>3. CASE Goto(c, "claim") /\ UNCHANGED overlapped /\ todo' = [todo EXCEPT ![c] = Tail(@)]
    BY <1>2, <2>1, <2>3 DEF ValuesOK
  <2> QED
    BY <1>7, <2>2, <2>3 DEF Accepted
<1>8. ASSUME NEW c \in Calls, Cancel(c) PROVE OnPath'
  BY <1>1, <1>8 DEF Cancel, server, Answered
<1>9. ASSUME NEW c \in Calls, Act(c) PROVE OnPath'
  <2> DEFINE a == Head(running[c])
  <2>1. /\ running[c] # <<>> /\ UNCHANGED <<pc, todo, overlapped, preempted>>
        /\ Names(lease, Me)
    BY <1>0, <1>9, MineFacts DEF Act, client
  <2>2. running'[c] = Tail(running[c]) /\ \A d \in Calls \ {c} : running'[d] = running[d]
    BY <1>9 DEF Act, ValuesOK
  <2>3. pointer' = Arrived(a, pointer)
    BY <1>9 DEF Act, Arrived
  <2>4. OnItsPath(c)'
    <3>1. CASE pc[c] # "wait"
      BY <2>1, <3>1, NotWaiting
    <3>2. CASE pc[c] = "wait"
      <4>1. Good("wait", todo[c], running[c], text[c], typed[c])
        BY <3>2 DEF CallsGood
      <4>2. /\ todo[c] \in Seq(Seq(Action)) /\ todo[c] # <<>>
            /\ running[c] \in Seq(Action) /\ Placed(Head(todo[c]), running[c])
        BY <4>1 DEF Good, Active, ValuesOK
      <4>3. Head(todo[c]) \in Seq(Action)
        BY <4>2
      <4>4. Aimed(Head(todo[c]), Tail(running[c]), Arrived(a, pointer))
        BY <2>1, <4>2, <4>3, AimedAfter
      <4>5. Aimed(Head(todo'[c]), running'[c], pointer')
        BY <2>1, <2>2, <2>3, <4>4
      <4> QED
        BY <4>5 DEF OnItsPath
    <3> QED
      BY <3>1, <3>2
  <2>5. ASSUME NEW d \in Calls \ {c} PROVE OnItsPath(d)'
    <3>1. pc[d] = "wait" /\ running[d] # <<>> => overlapped[d]
      BY <2>1, <2>5 DEF Alone
    <3> QED
      BY <2>1, <2>2, <2>5, <3>1 DEF OnItsPath
  <2> QED
    BY <2>4, <2>5 DEF OnPath
<1>10. ASSUME NEW c \in Calls, Reject(c) PROVE OnPath'
  <2>1. /\ running[c] # <<>> /\ running'[c] = <<>>
        /\ \A d \in Calls \ {c} : running'[d] = running[d]
    BY <1>10 DEF Reject, ValuesOK
  <2>2. \A d \in Calls \ {c} : pc'[d] = pc[d] /\ (overlapped'[d] <=> overlapped[d])
    BY <1>10, AnswerFlags DEF Reject, Answered
  <2>3. OnItsPath(c)'
    BY <2>1, NotWaiting
  <2>4. ASSUME NEW d \in Calls \ {c} PROVE OnItsPath(d)'
    <3>1. pc[d] = "wait" /\ running[d] # <<>> => overlapped[d]
      BY <2>1, <2>4 DEF Alone
    <3> QED
      BY <2>1, <2>2, <2>4, <3>1 DEF OnItsPath
  <2> QED
    BY <2>3, <2>4 DEF OnPath
<1>11. ASSUME UNCHANGED <<client, server, overlapped, pointer>>, Names(lease', Me) => Names(lease, Me)
       PROVE  OnPath'
  <2>1. ASSUME NEW d \in Calls PROVE OnItsPath(d)'
    BY <1>11, <2>1, KeepsPath DEF client, server
  <2> QED
    BY <2>1 DEF OnPath
<1>12. ASSUME ~Names(lease', Me) PROVE OnPath'
  BY <1>12 DEF OnPath, OnItsPath
<1>13. ASSUME NEW h \in Humans, HumanClaims(h) PROVE OnPath'
  <2>1. h \in Ids /\ h # Me
    BY ServiceAssumption, IdAssumption DEF Ids
  <2> QED
    BY <1>12, <1>13, <2>1, MineFacts DEF HumanClaims
<1>14. ASSUME NEW h \in Humans, HumanReleases(h) PROVE OnPath'
  BY <1>12, <1>14, MineFacts DEF HumanReleases
<1>15. ASSUME NEW a \in Agents \ {Me}, OtherClaims(a) PROVE OnPath'
  BY <1>12, <1>15, MineFacts DEF OtherClaims, Ids
<1>16. ASSUME NEW x \in Positions, OtherMoves(x) PROVE OnPath'
  BY <1>0, <1>12, <1>16, MineFacts DEF OtherMoves
<1>17. ASSUME Time PROVE OnPath'
  BY <1>0, <1>11, <1>17, MineFacts DEF Time
<1>18. ASSUME NEW c \in Calls, ServeLate(c) PROVE OnPath'
  <2>1. ASSUME NEW d \in Calls PROVE OnItsPath(d)'
    BY <1>18, <2>1, LateFlags DEF OnItsPath
  <2> QED
    BY <2>1 DEF OnPath
<1> QED
  BY <1>3, <1>4, <1>5, <1>6, <1>7, <1>8, <1>9, <1>10, <1>13, <1>14, <1>15, <1>16, <1>17, <1>18 DEF Next

\* All parts together.
LEMMA StepService == ServiceInv /\ [Next]_vars => ServiceInv'
<1>1. ASSUME ServiceInv, Next PROVE ServiceInv'
  BY <1>1, StepValues, StepCalls, StepFlags, StepAlone, StepOnPath DEF ServiceInv
<1>2. ASSUME ServiceInv, UNCHANGED vars PROVE ServiceInv'
  BY <1>2 DEF ServiceInv, ValuesOK, CallsGood, FlagsGood, Alone, OnPath, OnItsPath,
              vars, client, server
<1> QED
  BY <1>1, <1>2

\* Inductive: see the parts above.
THEOREM ServiceInvariant == Spec => []ServiceInv
BY InitService, StepService, PTL DEF Spec
-----------------------------------------------------------------------------
(* What follows from it.                                                   *)

\* The variables keep their types, a batch is under way only for a call that
\* waits for it or has given up, and the flags are not left behind.
THEOREM TypeCorrect == Spec => []TypeOK
<1>1. ASSUME ServiceInv PROVE TypeOK
  <2>1. /\ lease \in Leases /\ pointer \in Positions
        /\ pc \in [Calls -> {"new", "claim", "post", "wait"} \cup Answered]
    BY <1>1 DEF ServiceInv, ValuesOK, Steps
  <2>2. ASSUME NEW c \in Calls
        PROVE  /\ text[c] \in Texts \cup {<<>>}
               /\ todo[c] # <<>> <=> pc[c] \in {"claim", "post", "wait"}
               /\ running[c] # <<>> => pc[c] \in {"wait", "failed"}
               /\ overlapped[c] => pc[c] \in {"claim", "post", "wait"}
               /\ preempted[c] => running[c] # <<>>
    BY <1>1 DEF ServiceInv, ValuesOK, CallsGood, Good, FlagsGood, Active
  <2>3. ASSUME NEW c \in Calls, NEW i \in DOMAIN todo[c], NEW j \in DOMAIN todo[c][i]
        PROVE  todo[c][i][j].kind = "move" => todo[c][i][j].at \in Positions
    <3>1. todo[c] \in Seq(Seq(Action))
      BY <1>1 DEF ServiceInv, ValuesOK
    <3>2. todo[c][i] \in Seq(Action)
      BY <3>1
    <3>3. todo[c][i][j] \in Action
      BY <3>2
    <3> QED
      BY <3>3 DEF Action
  <2> QED
    BY <2>1, <2>2, <2>3 DEF TypeOK
<1> QED
  BY <1>1, ServiceInvariant, PTL

\* docs/API.md, "the generated batch remains within the 50-action limit": so it
\* does for every display, pair of points, step length and text, as long as a
\* drag of the most steps fits.
THEOREM BatchesAlwaysFit == Spec => []BatchesFit
<1>1. ASSUME ServiceInv PROVE BatchesFit
  <2>1. ASSUME NEW c \in Calls, NEW i \in DOMAIN todo[c]
        PROVE  Len(todo[c][i]) \in 1..BatchLimit
    <3>1. i \in 1..Len(todo[c])
      BY <1>1 DEF ServiceInv, ValuesOK
    <3> QED
      BY <1>1, <3>1 DEF ServiceInv, CallsGood, Good, WellMade
  <2> QED
    BY <2>1 DEF BatchesFit
<1> QED
  BY <1>1, ServiceInvariant, PTL

\* The deltas of a text, cut wherever splitTextDeltas cuts it and sent in requests
\* of their own, reach X in order, without a gap and without a repetition, and
\* all of them before the tool says "ok".
THEOREM TextArrives == Spec => []TextArrivesInOrder
<1>1. ASSUME ServiceInv PROVE TextArrivesInOrder
  <2>1. ASSUME NEW c \in Calls
        PROVE  /\ typed[c] = SubSeq(text[c], 1, Len(typed[c]))
               /\ pc[c] = "ok" => typed[c] = text[c]
    <3>1. Good(pc[c], todo[c], running[c], text[c], typed[c]) /\ text[c] \in Seq(STRING)
      BY <1>1, CallValues DEF ServiceInv, CallsGood, Typed, Strings
    <3>2. CASE text[c] = <<>>
      <4>1. typed[c] = <<>>
        BY <3>1, <3>2 DEF Good
      <4>2. <<>> = SubSeq(<<>>, 1, 0) /\ Len(<<>>) = 0
        OBVIOUS
      <4> QED
        BY <3>2, <4>1, <4>2
    <3>3. CASE text[c] # <<>>
      <4>1. /\ typed[c] = SubSeq(text[c], 1, Len(typed[c]))
            /\ pc[c] = "ok" => Len(typed[c]) = Len(text[c])
        BY <3>1, <3>3 DEF Good, Sent
      <4>2. SubSeq(text[c], 1, Len(text[c])) = text[c]
        BY <3>1, SubSeqFull
      <4> QED
        BY <4>1, <4>2
    <3> QED
      BY <3>2, <3>3
  <2> QED
    BY <2>1 DEF TextArrivesInOrder
<1> QED
  BY <1>1, ServiceInvariant, PTL

\* Whoever moved the pointer between the reading of the cursor and the claim, a
\* click that follows a path is made where the path was to end, unless its call
\* was given up or another of them claimed in between.
THEOREM PathsEnd == Spec => PathsEndOnTarget
<1>1. ASSUME ServiceInv, NEW c \in Calls, Clicks(c), Len(Head(todo[c])) > 2
      PROVE  pointer = Head(running[c]).at
  <2> USE <1>1 DEF ServiceInv
  <2>1. /\ pc[c] = "wait" /\ running[c] # <<>> /\ ~overlapped[c] /\ ~preempted[c]
        /\ Head(running[c]).kind = "click" /\ Names(lease, Me)
    BY MineFacts DEF Clicks, Act, ValuesOK
  <2>2. /\ todo[c] \in Seq(Seq(Action)) /\ todo[c] # <<>> /\ running[c] \in Seq(Action)
        /\ Placed(Head(todo[c]), running[c])
        /\ \A i \in 1..Len(todo[c]) : WellMade(todo[c][i])
    BY <2>1 DEF ValuesOK, CallsGood, Good, Active
  <2>3. WellMade(Head(todo[c]))
    <3>1. Head(todo[c]) = todo[c][1] /\ 1 \in 1..Len(todo[c])
      BY <2>2
    <3> QED
      BY <2>2, <3>1
  <2>4. Aimed(Head(todo[c]), running[c], pointer)
    BY <2>1 DEF OnPath, OnItsPath
  <2> QED
    BY <2>1, <2>2, <2>3, <2>4, ClickOnTarget
<1>2. ServiceInv /\ [Next]_vars =>
        [\A c \in Calls : Clicks(c) /\ Len(Head(todo[c])) > 2 => pointer = Head(running[c]).at]_vars
  BY <1>1
<1> QED
  BY <1>2, ServiceInvariant, PTL DEF Spec, PathsEndOnTarget
================================================================================
