---------------------------- MODULE RecordingProofs ----------------------------
(***************************************************************************)
(* Theorems about ScreenRecorder, for any number of handler threads, any   *)
(* bounds and any choice of faults, and about KeyFrames, for any frame     *)
(* rate, transition, display and precision.                                *)
(***************************************************************************)
EXTENDS ScreenRecorder, KeyFrames, FiniteSetTheorems, SequenceTheorems,
        WellFoundedInduction, TLAPS

\* A take that is in any way under way, or over, has its file names.
Started ==
  /\ \A n \in Takes :
       n \in ffmpeg \cup written \/ outcome[n] # "none" => name[n] # None
  /\ process # None => name[process] # None
  /\ \A w \in Workers : pc[w] # "idle" => name[job[w]] # None

\* While a thread is behind a stopped capture the slot is empty; the only live
\* capture of this API is the one in the slot, and nothing became of it yet.
SlotOrRender ==
  /\ process # None => ~rendering /\ outcome[process] = "none"
  /\ ffmpeg \ orphans \subseteq {process}
  /\ \A n \in ffmpeg : outcome[n] = "none"

\* A take that is being stopped is captured no more, and nothing became of it
\* before its thread is about to leave.
Stopped ==
  \A w \in Workers : pc[w] # "idle" =>
    /\ job[w] \notin ffmpeg
    /\ pc[w] # "finish" => outcome[job[w]] = "none"

\* Between the render and the check of its size, a take is in both its files.
Rendered ==
  \A w \in Workers :
    pc[w] = "size" /\ job[w] \in written /\ NamedAlone(job[w])
      => output[name[job[w]]] = job[w]

IInv ==
  /\ TypeOK /\ Started /\ SlotOrRender /\ Stopped
  /\ CapturesAreKept /\ Rendered
-----------------------------------------------------------------------------
LEMMA TakesFacts ==
  /\ None \notin Takes /\ None \notin Seconds
  /\ \A n \in Takes : n \in Nat
  /\ 1 \in Seconds
  /\ \A s \in Seconds : s \in Nat /\ (s < MaxSecond => s + 1 \in Seconds)
BY RecorderAssumption DEF Takes, Seconds, None

LEMMA InitIInv == Init => IInv
<1> SUFFICES ASSUME Init PROVE IInv
  OBVIOUS
<1>1. TypeOK
  BY TakesFacts DEF Init, TypeOK, Locations, Outcomes
<1>2. Started /\ SlotOrRender
  BY TakesFacts DEF Init, Started, SlotOrRender
<1>3. Stopped /\ CapturesAreKept /\ Rendered
  BY TakesFacts DEF Init, Stopped, CapturesAreKept, Rendered
<1> QED
  BY <1>1, <1>2, <1>3 DEF IInv

\* A take that starts joins the takes of its second; no other take's file names
\* become its own by that.
LEMMA LaunchKeepsIInv ==
  ASSUME IInv, NEW n \in Takes, Start(n)
  PROVE  IInv'
<1> USE DEF IInv
<1>1. /\ name[n] = None /\ ~rendering /\ ~Active
      /\ process' = n /\ name' = [name EXCEPT ![n] = second]
      /\ ffmpeg' = ffmpeg \cup {n} /\ outcome' = Dropped
      /\ UNCHANGED <<second, rendering, raw, output, pc, job, written, orphans>>
  BY DEF Start, Launch, NextTake
<1>2. n \notin ffmpeg /\ n \notin written /\ n # process /\ outcome[n] = "none"
  BY <1>1, TakesFacts DEF Started, TypeOK
<1>3. \A w \in Workers : pc[w] = "idle"
  BY <1>1 DEF TypeOK
<1>4. /\ name' \in [Takes -> Seconds \cup {None}]
      /\ name'[n] = second /\ second \in Seconds
      /\ \A m \in Takes \ {n} : name'[m] = name[m]
  BY <1>1 DEF TypeOK
<1>5. /\ outcome' \in [Takes -> Outcomes]
      /\ \A m \in Takes \ {process} : outcome'[m] = outcome[m]
      /\ process # None => process \in Takes /\ outcome'[process] = "dropped"
  BY <1>1 DEF TypeOK, Dropped, Outcomes
<1>6. TypeOK'
  BY <1>1, <1>3, <1>4, <1>5 DEF TypeOK
<1>7. Started'
  BY <1>1, <1>2, <1>3, <1>4, <1>5, TakesFacts DEF Started, TypeOK
<1>8. SlotOrRender'
  <2>1. ffmpeg \ orphans = {}
    BY <1>1, TakesFacts DEF SlotOrRender, Active, TypeOK
  <2>2. process \notin ffmpeg
    BY <1>1, TakesFacts DEF Active, TypeOK
  <2>3. outcome'[n] = "none"
    BY <1>2, <1>5
  <2> QED
    BY <1>1, <1>2, <1>5, <2>1, <2>2, <2>3 DEF SlotOrRender, TypeOK
<1>9. Stopped'
  BY <1>1, <1>3 DEF Stopped
<1>10. Rendered'
  BY <1>1, <1>3 DEF Rendered
<1>11. CapturesAreKept'
  <2> SUFFICES ASSUME NEW m \in written, NamedAlone(m)'
               PROVE  /\ outcome'[m] = "saved" => output[name'[m]] = m
                      /\ outcome'[m] \in {"none", "failed", "dropped"} => raw[name'[m]] = m
    BY <1>1 DEF CapturesAreKept
  <2>1. m \in Takes /\ m # n /\ name'[m] = name[m]
    BY <1>2, <1>4 DEF TypeOK
  <2>2. NamedAlone(m)
    BY <1>4, <2>1, TakesFacts, <1>1 DEF NamedAlone, Started, TypeOK
  <2> QED
    BY <1>1, <1>5, <2>1, <2>2, TakesFacts DEF CapturesAreKept, SlotOrRender
<1> QED
  BY <1>6, <1>7, <1>8, <1>9, <1>10, <1>11

\* Whoever takes the capture out of the slot is the only thread behind one.
LEMMA StopKeepsIInv ==
  ASSUME IInv, NEW w \in Workers, NEW l \in {"discard", "check"}, Stop(w, l)
  PROVE  IInv'
<1> USE DEF IInv, Stop
<1>1. /\ process \in Takes /\ process # None /\ ~rendering
      /\ outcome[process] = "none" /\ name[process] # None
  BY TakesFacts DEF TypeOK, SlotOrRender, Started
<1>2. \A v \in Workers : pc[v] = "idle"
  BY <1>1 DEF TypeOK
<1>3. /\ pc' \in [Workers -> Locations] /\ pc'[w] = l
      /\ \A v \in Workers \ {w} : pc'[v] = "idle"
      /\ job' \in [Workers -> Takes \cup {None}] /\ job'[w] = process
  BY <1>1, <1>2 DEF TypeOK, Locations
<1>4. TypeOK'
  BY <1>1, <1>3 DEF TypeOK
<1>5. Started'
  BY <1>1, <1>3 DEF Started
<1>6. SlotOrRender'
  BY <1>1 DEF SlotOrRender
<1>7. Stopped'
  BY <1>1, <1>3 DEF Stopped
<1>8. CapturesAreKept' /\ Rendered'
  BY <1>3 DEF CapturesAreKept, Rendered, NamedAlone
<1> QED
  BY <1>4, <1>5, <1>6, <1>7, <1>8

\* A thread that comes to a conclusion about its take keeps everything that is
\* said of the other takes; what it has to show is where the pictures are.
LEMMA ConcludeKeepsIInv ==
  ASSUME IInv, NEW w \in Workers, pc[w] \notin {"idle", "finish"},
         NEW what \in Outcomes, Conclude(w, what),
         raw' = raw \/ raw' = [raw EXCEPT ![Of(w)] = None],
         output' = output \/ output' = [output EXCEPT ![Of(w)] = None],
         job[w] \in written /\ NamedAlone(job[w]) =>
           /\ what = "saved" => output'[Of(w)] = job[w]
           /\ what \in {"none", "failed", "dropped"} => raw'[Of(w)] = job[w]
  PROVE  IInv'
<1> USE DEF IInv, Conclude
<1>1. /\ job[w] \in Takes /\ Of(w) \in Seconds /\ rendering
      /\ job[w] \notin ffmpeg
      /\ \A v \in Workers \ {w} : pc[v] = "idle"
  BY TakesFacts DEF TypeOK, Started, Stopped, Of
<1>2. /\ raw' \in [Seconds -> Takes \cup {None}]
      /\ output' \in [Seconds -> Takes \cup {None}]
      /\ \A s \in Seconds \ {Of(w)} : raw'[s] = raw[s] /\ output'[s] = output[s]
  BY <1>1 DEF TypeOK
<1>3. /\ outcome' \in [Takes -> Outcomes] /\ outcome'[job[w]] = what
      /\ \A n \in Takes \ {job[w]} : outcome'[n] = outcome[n]
      /\ pc' \in [Workers -> Locations] /\ pc'[w] = "finish"
      /\ \A v \in Workers \ {w} : pc'[v] = "idle"
  BY <1>1 DEF TypeOK, Locations
<1>4. TypeOK'
  BY <1>1, <1>2, <1>3 DEF TypeOK
<1>5. Started'
  BY <1>1, <1>3, TakesFacts DEF Started, Of
<1>6. SlotOrRender'
  BY <1>1, <1>3 DEF SlotOrRender, TypeOK
<1>7. Stopped' /\ Rendered'
  BY <1>1, <1>3 DEF Stopped, Rendered
<1>8. CapturesAreKept'
  <2> SUFFICES ASSUME NEW n \in written, NamedAlone(n)
               PROVE  /\ outcome'[n] = "saved" => output'[name[n]] = n
                      /\ outcome'[n] \in {"none", "failed", "dropped"} => raw'[name[n]] = n
    BY DEF CapturesAreKept, NamedAlone
  <2>1. CASE n = job[w]
    BY <1>3, <2>1 DEF Of
  <2>2. CASE n # job[w]
    <3>1. n \in Takes /\ name[n] \in Seconds /\ name[n] # Of(w)
      BY <1>1, <2>2 DEF TypeOK, Started, NamedAlone, Of
    <3> QED
      BY <1>2, <1>3, <2>2, <3>1 DEF CapturesAreKept
  <2> QED BY <2>1, <2>2
<1> QED
  BY <1>4, <1>5, <1>6, <1>7, <1>8

LEMMA ThreadKeepsIInv ==
  ASSUME IInv, NEW w \in Workers, Thread(w)
  PROVE  IInv'
<1> USE DEF IInv
<1>a. /\ pc[w] # "idle" =>
           /\ job[w] \in Takes /\ Of(w) \in Seconds /\ rendering
           /\ \A v \in Workers \ {w} : pc[v] = "idle"
      /\ pc[w] \notin {"idle", "finish"} => outcome[job[w]] = "none"
      /\ {"saved", "discarded", "failed"} \subseteq Outcomes
  BY TakesFacts DEF TypeOK, Started, Stopped, Of, Outcomes
<1>b. ASSUME pc[w] \notin {"idle", "finish"}, job[w] \in written, NamedAlone(job[w])
      PROVE  raw[Of(w)] = job[w]
  BY <1>a, <1>b DEF CapturesAreKept, Of
<1>1. CASE Discard(w)
  BY <1>1, ConcludeKeepsIInv, <1>a DEF Discard
<1>2. CASE NothingCaptured(w)
  BY <1>2, ConcludeKeepsIInv, <1>a, <1>b DEF NothingCaptured
<1>3. CASE RenderFails(w)
  BY <1>3, ConcludeKeepsIInv, <1>a, <1>b DEF RenderFails
<1>4. CASE TooBig(w)
  BY <1>4, ConcludeKeepsIInv, <1>a, <1>b DEF TooBig
<1>5. CASE Save(w)
  BY <1>5, ConcludeKeepsIInv, <1>a DEF Save, Rendered, Of
<1>6. CASE CheckRaw(w)
  <2>1. /\ pc' \in [Workers -> Locations] /\ pc'[w] = "render"
        /\ \A v \in Workers \ {w} : pc'[v] = "idle"
    BY <1>6, <1>a DEF CheckRaw, TypeOK, Locations
  <2>2. TypeOK'
    BY <1>6, <1>a, <2>1 DEF CheckRaw, TypeOK
  <2> QED
    BY <1>6, <1>a, <2>1, <2>2
       DEF CheckRaw, Started, SlotOrRender, Stopped, CapturesAreKept, Rendered, NamedAlone
<1>7. CASE Render(w)
  <2> USE <1>7 DEF Render
  <2>1. /\ pc' \in [Workers -> Locations] /\ pc'[w] = "size"
        /\ \A v \in Workers \ {w} : pc'[v] = "idle"
    BY <1>a DEF TypeOK, Locations
  <2>2. /\ output' \in [Seconds -> Takes \cup {None}] /\ output'[Of(w)] = raw[Of(w)]
        /\ \A s \in Seconds \ {Of(w)} : output'[s] = output[s]
    BY <1>a DEF TypeOK
  <2>3. TypeOK'
    BY <1>a, <2>1, <2>2 DEF TypeOK
  <2>4. Started' /\ SlotOrRender' /\ Stopped'
    BY <1>a, <2>1 DEF Started, SlotOrRender, Stopped
  <2>5. Rendered'
    BY <1>a, <1>b, <2>1, <2>2 DEF Rendered, NamedAlone, Of
  <2>6. CapturesAreKept'
    <3> SUFFICES ASSUME NEW n \in written, NamedAlone(n)
                 PROVE  outcome[n] = "saved" => output'[name[n]] = n
      BY DEF CapturesAreKept, NamedAlone
    <3>1. outcome[n] = "saved" => n # job[w]
      BY <1>a
    <3>2. n # job[w] => name[n] \in Seconds /\ name[n] # Of(w)
      BY <1>a DEF TypeOK, Started, NamedAlone, Of
    <3> QED
      BY <2>2, <3>1, <3>2 DEF CapturesAreKept
  <2> QED
    BY <2>3, <2>4, <2>5, <2>6
<1>8. CASE Finish(w)
  <2>1. /\ pc' \in [Workers -> Locations]
        /\ \A v \in Workers : pc'[v] = "idle"
        /\ job' \in [Workers -> Takes \cup {None}]
    BY <1>8, <1>a DEF Finish, TypeOK, Locations
  <2>2. TypeOK'
    BY <1>8, <2>1 DEF Finish, TypeOK
  <2> QED
    BY <1>8, <2>1, <2>2
       DEF Finish, Started, SlotOrRender, Stopped, CapturesAreKept, Rendered, NamedAlone
<1> QED
  BY <1>1, <1>2, <1>3, <1>4, <1>5, <1>6, <1>7, <1>8 DEF Thread

\* A step that leaves the capture slot, the names and the threads alone keeps
\* what was said of them.
LEMMA StepIInv == IInv /\ [Next]_vars => IInv'
<1> SUFFICES ASSUME IInv, [Next]_vars PROVE IInv'
  OBVIOUS
<1> USE DEF IInv
<1>1. CASE Tick
  <2>1. second' \in Seconds
    BY <1>1, TakesFacts DEF Tick, TypeOK
  <2>2. TypeOK'
    BY <1>1, <2>1 DEF Tick, TypeOK
  <2> QED
    BY <1>1, <2>2 DEF Tick, Started, SlotOrRender, Stopped, CapturesAreKept, Rendered, NamedAlone
<1>2. CASE Crash
  <2>1. TypeOK'
    BY <1>2, TakesFacts DEF Crash, TypeOK, Locations
  <2> QED
    BY <1>2, <2>1, TakesFacts
       DEF Crash, Started, SlotOrRender, Stopped, CapturesAreKept, Rendered, NamedAlone
<1>3. ASSUME NEW n \in Takes, Start(n) PROVE IInv'
  BY <1>3, LaunchKeepsIInv
<1>4. ASSUME NEW n \in Takes, Capture(n) PROVE IInv'
  <2> USE <1>4 DEF Capture
  <2>1. name[n] \in Seconds /\ outcome[n] = "none"
    BY DEF Started, TypeOK, SlotOrRender
  <2>2. TypeOK'
    BY <2>1 DEF TypeOK
  <2>3. Started' /\ SlotOrRender' /\ Stopped'
    BY <2>1, TakesFacts DEF Started, SlotOrRender, Stopped, TypeOK
  <2>4. ASSUME NEW w \in Workers, pc[w] = "size" PROVE job[w] # n
    BY <2>4 DEF Stopped
  <2>5. Rendered'
    BY <2>4 DEF Rendered, NamedAlone
  <2>6. CapturesAreKept'
    <3> SUFFICES ASSUME NEW m \in written', NamedAlone(m)
                 PROVE  /\ outcome[m] = "saved" => output[name[m]] = m
                        /\ outcome[m] \in {"none", "failed", "dropped"} => raw'[name[m]] = m
      BY DEF CapturesAreKept, NamedAlone
    <3>1. CASE m = n
      BY <2>1, <3>1 DEF TypeOK
    <3>2. CASE m # n
      BY <2>1, <3>2 DEF TypeOK, CapturesAreKept, NamedAlone
    <3> QED BY <3>1, <3>2
  <2> QED
    BY <2>2, <2>3, <2>5, <2>6
<1>5. ASSUME NEW n \in Takes, CaptureDies(n) PROVE IInv'
  <2>1. TypeOK'
    BY <1>5 DEF CaptureDies, TypeOK
  <2> QED
    BY <1>5, <2>1
       DEF CaptureDies, Started, SlotOrRender, Stopped, CapturesAreKept, Rendered, NamedAlone
<1>6. ASSUME NEW w \in Workers, Thread(w) PROVE IInv'
  BY <1>6, ThreadKeepsIInv
<1>7. ASSUME NEW w \in Workers, NEW l \in {"discard", "check"}, Stop(w, l) PROVE IInv'
  BY <1>7, StopKeepsIInv
<1>8. CASE UNCHANGED vars
  BY <1>8
     DEF vars, TypeOK, Started, SlotOrRender, Stopped, CapturesAreKept, Rendered, NamedAlone
<1> QED
  BY <1>1, <1>2, <1>3, <1>4, <1>5, <1>6, <1>7, <1>8 DEF Next
-----------------------------------------------------------------------------
\* The recorder's fields and files always have their types, and its flag tells
\* whether a thread is behind a stopped capture.
THEOREM TypeCorrect == Spec => []TypeOK
<1>1. IInv => TypeOK
  BY DEF IInv
<1> QED
  BY <1>1, InitIInv, StepIInv, PTL DEF Spec

\* An API that lives never captures twice, nor captures while it renders,
\* whichever threads start and stop recordings and whichever processes die.
THEOREM RecordsOneAtATime == Spec => []OneRecording
<1>1. IInv => OneRecording
  <2> SUFFICES ASSUME IInv PROVE OneRecording
    OBVIOUS
  <2> USE DEF IInv
  <2>1. Cardinality(ffmpeg \ orphans) <= Cardinality({process})
    BY FS_Singleton, FS_Subset DEF SlotOrRender
  <2>2. Cardinality({process}) = 1 /\ Cardinality(ffmpeg \ orphans) \in Nat
    BY FS_Singleton, FS_Subset, FS_CardinalityType DEF SlotOrRender
  <2>3. ASSUME NEW w \in Workers, pc[w] # "idle" PROVE ffmpeg \subseteq orphans
    BY <2>3, TakesFacts DEF TypeOK, SlotOrRender
  <2> QED
    BY <2>1, <2>2, <2>3 DEF OneRecording
<1> QED
  BY <1>1, InitIInv, StepIInv, PTL DEF Spec

\* What was captured stays where its outcome says, through every failure of a
\* render and every restart.
THEOREM CapturesStay == Spec => []CapturesAreKept
<1>1. IInv => CapturesAreKept
  BY DEF IInv
<1> QED
  BY <1>1, InitIInv, StepIInv, PTL DEF Spec
-----------------------------------------------------------------------------
(* Key frames.                                                             *)

\* Induction over the naturals, for statements that name no operator.
LEMMA LeastNatural ==
  ASSUME NEW T, T \subseteq Nat, T # {}
  PROVE  \E n \in T : \A m \in T : n <= m
<1> DEFINE R == OpToRel(<, Nat)
<1>1. IsWellFoundedOn(R, Nat)
  BY NatLessThanWellFounded
<1>2. \A m, n \in Nat : m < n => <<m, n>> \in R
  BY DEF OpToRel
<1> HIDE DEF R
<1>3. PICK n \in T : \A m \in T : <<m, n>> \notin R
  BY <1>1, WFMin
<1>4. \A m \in T : ~(m < n)
  BY <1>2, <1>3
<1>5. \A m \in T : n <= m
  BY <1>4
<1> QED
  BY <1>5
-----------------------------------------------------------------------------
(* Quotients and rounding.                                                 *)

LEMMA WholeQuotient ==
  ASSUME NEW a \in Int, NEW c \in Nat \ {0}
  PROVE  (a * c) \div c = a /\ (a * 0) \div c = 0
OBVIOUS

LEMMA QuotientIsInt == \A a \in Int : \A c \in Nat \ {0} : a \div c \in Int
OBVIOUS

LEMMA QuotientBounds ==
  \A a \in Int : \A c \in Nat \ {0} :
    a \div c \in Int /\ (a \div c) * c <= a /\ a < ((a \div c) + 1) * c
OBVIOUS

\* A quotient is at most q when its dividend is below (q + 1) * c.
LEMMA QuotientBelow ==
  ASSUME NEW a \in Int, NEW c \in Nat \ {0}, NEW q \in Int, a < (q + 1) * c
  PROVE  a \div c <= q
<1> DEFINE p == a \div c
<1>1. p \in Int /\ p * c <= a
  BY QuotientBounds
<1> HIDE DEF p
<1>2. SUFFICES ASSUME p >= q + 1 PROVE FALSE
  BY <1>1 DEF p
<1>3. (p - (q + 1)) * c >= 0
  <2>1. p - (q + 1) \in Nat
    BY <1>1, <1>2
  <2> QED
    BY <2>1
<1>4. (p - (q + 1)) * c = p * c - (q + 1) * c
  BY <1>1
<1>5. p * c \in Int /\ (q + 1) * c \in Int
  BY <1>1
<1> QED
  BY <1>1, <1>3, <1>4, <1>5

\* ... and at least q when its dividend is not below q * c.
LEMMA QuotientAbove ==
  ASSUME NEW a \in Int, NEW c \in Nat \ {0}, NEW q \in Int, q * c <= a
  PROVE  q <= a \div c
<1> DEFINE p == a \div c
<1>1. p \in Int /\ a < (p + 1) * c
  BY QuotientBounds
<1> HIDE DEF p
<1>2. SUFFICES ASSUME q >= p + 1 PROVE FALSE
  BY <1>1 DEF p
<1>3. (q - (p + 1)) * c >= 0
  <2>1. q - (p + 1) \in Nat
    BY <1>1, <1>2
  <2> QED
    BY <2>1
<1>4. (q - (p + 1)) * c = q * c - (p + 1) * c
  BY <1>1
<1>5. q * c \in Int /\ (p + 1) * c \in Int
  BY <1>1
<1> QED
  BY <1>1, <1>3, <1>4, <1>5

LEMMA Monotone ==
  ASSUME NEW c \in Nat, NEW a \in Int, NEW b \in Int, a <= b
  PROVE  a * c <= b * c /\ a * c \in Int /\ b * c \in Int
<1>1. b - a \in Nat
  OBVIOUS
<1>2. (b - a) * c \in Nat /\ (b - a) * c = b * c - a * c
  BY <1>1
<1>3. a * c \in Int /\ b * c \in Int
  OBVIOUS
<1> QED
  BY <1>2, <1>3

LEMMA QuotientMonotone ==
  ASSUME NEW a \in Int, NEW b \in Int, a <= b, NEW c \in Nat \ {0}
  PROVE  a \div c <= b \div c /\ a \div c \in Int /\ b \div c \in Int
<1> DEFINE p == a \div c
<1>1. p \in Int /\ p * c <= a /\ b \div c \in Int
  BY QuotientBounds
<1> HIDE DEF p
<1>2. p * c <= b
  <2>1. p * c \in Int
    BY <1>1
  <2> QED
    BY <1>1, <2>1
<1>3. p <= b \div c
  BY <1>1, <1>2, QuotientAbove
<1> QED
  BY <1>1, <1>3 DEF p

LEMMA Remainders ==
  \A n \in Int : \A d \in Nat \ {0} :
    n \div d \in Int /\ n % d \in 0..(d - 1) /\ n = d * (n \div d) + (n % d)
OBVIOUS

LEMMA RoundedIsInt ==
  ASSUME NEW n \in Int, NEW d \in Nat \ {0}
  PROVE  Rounded(n, d) \in Int
<1>1. n \div d \in Int
  BY QuotientIsInt
<1> DEFINE q == n \div d
<1> HIDE DEF q
<1>2. q \in Int
  BY <1>1 DEF q
<1> QED
  BY <1>2 DEF Rounded, q

LEMMA RoundedMonotone ==
  ASSUME NEW n \in Int, NEW m \in Int, n <= m, NEW d \in Nat \ {0}
  PROVE  Rounded(n, d) <= Rounded(m, d) /\ Rounded(n, d) \in Int /\ Rounded(m, d) \in Int
<1> DEFINE p == n \div d
           q == m \div d
           r == n % d
           s == m % d
           up(i, j) == 2 * j > d \/ (2 * j = d /\ i % 2 = 1)
<1>1. p <= q /\ p \in Int /\ q \in Int
  BY QuotientMonotone
<1>2. r \in 0..(d - 1) /\ s \in 0..(d - 1) /\ n = d * p + r /\ m = d * q + s
  BY Remainders
<1>3. /\ Rounded(n, d) = IF up(p, r) THEN p + 1 ELSE p
      /\ Rounded(m, d) = IF up(q, s) THEN q + 1 ELSE q
  BY DEF Rounded
<1> HIDE DEF p, q, r, s
<1>4. CASE p = q
  <2>1. r <= s
    <3>1. d * p \in Int /\ d * p = d * q
      BY <1>1, <1>4
    <3> QED
      BY <1>2, <3>1
  <2>2. up(p, r) => up(q, s)
    BY <1>2, <1>4, <2>1
  <2> HIDE DEF up
  <2> QED
    BY <1>1, <1>3, <1>4, <2>2
<1>5. CASE p # q
  <2>1. p + 1 <= q
    BY <1>1, <1>5
  <2> HIDE DEF up
  <2> QED
    BY <1>1, <1>3, <2>1
<1> QED
  BY <1>4, <1>5

LEMMA RoundedExact ==
  ASSUME NEW x \in Int, NEW d \in Nat \ {0}
  PROVE  Rounded(x * d, d) = x
<1>1. (x * d) \div d = x /\ x * d \in Int
  BY WholeQuotient
<1> DEFINE r == (x * d) % d
<1>2. r \in 0..(d - 1) /\ x * d = d * x + r
  BY <1>1, Remainders
<1> HIDE DEF r
<1>3. r = 0
  BY <1>2
<1> QED
  BY <1>1, <1>3 DEF Rounded, r
-----------------------------------------------------------------------------
(* One move.                                                               *)

Points == [x : Int, zoom : Int]

Motions == {m \in [from : Points, to : Points, start : Nat, end : Nat] : m.start <= m.end}

LEMMA CubeFacts == \A n \in Nat \ {0} : n * n * n \in Nat \ {0}
OBVIOUS

\* A move is at its start when it starts and at its target from its end on.
LEMMA AtFacts ==
  ASSUME NEW m \in Motions, NEW t \in Nat
  PROVE  /\ At(m, t) \in Points
         /\ t >= m.end => At(m, t) = m.to
         /\ (t = m.start /\ m.start < m.end) => At(m, t) = m.from
<1> DEFINE d == m.end - m.start
           gone == Elapsed(m, t)
           left == d - gone
<1>1. /\ m.from \in Points /\ m.to \in Points /\ m.start \in Nat /\ m.end \in Nat
      /\ m.start <= m.end /\ d \in Nat
  BY DEF Motions
<1>2. /\ gone \in 0..d /\ left \in 0..d
      /\ t >= m.end => gone = d /\ left = 0
      /\ t = m.start => gone = 0 /\ left = d
  BY <1>1 DEF Elapsed, Lesser, Greater
<1>3. CASE d = 0
  BY <1>1, <1>3 DEF At
<1>4. CASE d # 0
  <2> DEFINE c == d * d * d
             l == left * left * left
             x == m.from.x + ((m.to.x - m.from.x) * (c - l)) \div c
             zoom == m.from.zoom + ((m.to.zoom - m.from.zoom) * gone) \div d
  <2>1. At(m, t) = [x |-> x, zoom |-> zoom]
    BY <1>1, <1>4 DEF At
  <2>2. d \in Nat \ {0} /\ c \in Nat \ {0} /\ l \in Int
    BY <1>1, <1>2, <1>4, CubeFacts
  <2>3. l = IF left = 0 THEN 0 ELSE IF left = d THEN c ELSE l
    BY <1>2
  <2>4. /\ m.from.x \in Int /\ m.to.x \in Int /\ m.from.zoom \in Int /\ m.to.zoom \in Int
        /\ m.from = [x |-> m.from.x, zoom |-> m.from.zoom]
        /\ m.to = [x |-> m.to.x, zoom |-> m.to.zoom]
    BY <1>1 DEF Points
  <2> HIDE DEF d, gone, left, c, l
  <2>5. x \in Int /\ zoom \in Int
    <3>1. (m.to.x - m.from.x) * (c - l) \in Int /\ (m.to.zoom - m.from.zoom) * gone \in Int
      BY <1>2, <2>2, <2>4
    <3>2. ((m.to.x - m.from.x) * (c - l)) \div c \in Int /\ ((m.to.zoom - m.from.zoom) * gone) \div d \in Int
      BY <2>2, <3>1, QuotientIsInt
    <3> QED
      BY <2>4, <3>2
  <2>6. ASSUME gone = d, left = 0 PROVE x = m.to.x /\ zoom = m.to.zoom
    <3>1. c - l = c
      BY <2>2, <2>3, <2>6
    <3>2. /\ ((m.to.x - m.from.x) * c) \div c = m.to.x - m.from.x
          /\ ((m.to.zoom - m.from.zoom) * d) \div d = m.to.zoom - m.from.zoom
      BY <2>2, <2>4, WholeQuotient
    <3> QED
      BY <2>4, <2>6, <3>1, <3>2
  <2>7. ASSUME gone = 0, left = d PROVE x = m.from.x /\ zoom = m.from.zoom
    <3>1. c - l = 0
      BY <2>2, <2>3, <2>7 DEF c, l
    <3>2. /\ ((m.to.x - m.from.x) * 0) \div c = 0
          /\ ((m.to.zoom - m.from.zoom) * 0) \div d = 0
      BY <2>2, <2>4, WholeQuotient
    <3> QED
      BY <2>4, <2>7, <3>1, <3>2
  <2> HIDE DEF x, zoom
  <2> QED
    BY <1>2, <2>1, <2>4, <2>5, <2>6, <2>7 DEF Points
<1> QED
  BY <1>3, <1>4

\* A move ends on the frame next to a transition after its start.
LEMMA EndFacts ==
  ASSUME NEW t \in Nat
  PROVE  \E e \in Nat \ {0} :
           /\ TransitionEnd(t) = FrameTicks * e /\ FrameTicks * e > t
           /\ e * (2 * FrameTicks) <= 2 * (t + Transition) + FrameTicks
           /\ 2 * (t + Transition) + FrameTicks < (e + 1) * (2 * FrameTicks)
<1> DEFINE F == FrameTicks
           a == 2 * (t + Transition) + F
           e == a \div (2 * F)
<1>1. F \in Nat \ {0} /\ Transition \in Nat /\ 2 * Transition > F /\ a \in Nat
  BY KeyFramesAssumption
<1>2. e \in Nat /\ e * (2 * F) <= a /\ a < (e + 1) * (2 * F)
  <2> HIDE DEF a
  <2>1. 2 * F \in Nat \ {0}
    BY <1>1
  <2>2. \A b \in Nat \ {0} : a \div b \in Nat /\ (a \div b) * b <= a /\ a < ((a \div b) + 1) * b
    BY <1>1
  <2> QED
    BY <2>1, <2>2
<1> HIDE DEF e
<1>3. e * (2 * F) = 2 * (F * e) /\ (e + 1) * (2 * F) = 2 * (F * e) + 2 * F /\ F * e \in Nat
  BY <1>1, <1>2
<1>4. F * e > t
  BY <1>1, <1>2, <1>3
<1>5. e # 0
  BY <1>1, <1>4
<1>6. TransitionEnd(t) = F * e
  BY <1>1, <1>3, <1>4 DEF TransitionEnd, Greater, e
<1> QED
  BY <1>2, <1>4, <1>5, <1>6
-----------------------------------------------------------------------------
(* The moves of a sequence of key frames.                                  *)

KeyFrameSet == [at : Nat, view : Views]

\* Every move of Camera, for any key frames.
MovesOf(kf) ==
  LET move[k \in DOMAIN kf] ==
        IF k = 1
          THEN Still(kf[1].view)
          ELSE [from  |-> At(move[k - 1], kf[k].at),
                to    |-> Exact(kf[k].view),
                start |-> kf[k].at,
                end   |-> TransitionEnd(kf[k].at)]
  IN  move

\* k is the key frame that Latest chooses.
IsLatest(kf, k, t) ==
  /\ k = 1 \/ kf[k].at <= t
  /\ \A j \in (k + 1)..Len(kf) : kf[j].at > t

LEMMA ViewsArePoints == Views \subseteq Points
<1>1. Unit \in Nat /\ Width \in Nat
  BY KeyFramesAssumption
<1> QED
  BY <1>1 DEF Views, Points, IdleZoom, ActiveZoom

\* The crop is inside the picture.
LEMMA CropInside ==
  ASSUME NEW pivot \in 0..Width, NEW zoom \in {IdleZoom, ActiveZoom}
  PROVE  CropAt(pivot, zoom) \in 0..Width
<1> DEFINE w == Width \div 2
<1>1. /\ Unit \in Nat \ {0} /\ Width \in Nat \ {0, 1} /\ Width = 2 * w /\ w \in Nat \ {0}
      /\ pivot \in Nat
  BY KeyFramesAssumption
<1>2. CASE zoom = IdleZoom
  <2>1. (Width * Unit) \div Unit = Width
    BY <1>1, WholeQuotient
  <2>2. pivot * (Unit - Unit) = 0 * Unit
    BY <1>1
  <2>3. Rounded(pivot * (Unit - Unit), Unit) = 0
    BY <1>1, <2>2, RoundedExact
  <2>4. CropAt(pivot, zoom) = Lesser(Width - Greater(2, 2 * w), 0)
    BY <1>2, <2>1, <2>3 DEF CropAt, IdleZoom
  <2> HIDE DEF w
  <2> QED
    BY <1>1, <2>4 DEF Lesser, Greater
<1>3. CASE zoom = ActiveZoom
  <2> DEFINE r == Rounded(pivot * (zoom - Unit), zoom)
  <2>1. zoom = 2 * Unit /\ zoom \in Nat \ {0}
    BY <1>1, <1>3 DEF ActiveZoom
  <2>2. (Width * Unit) \div zoom = w
    <3>1. Width * Unit = w * zoom
      BY <1>1, <2>1
    <3>2. w \in Int
      BY <1>1
    <3> HIDE DEF w
    <3> QED
      BY <2>1, <3>1, <3>2, WholeQuotient
  <2>3. r \in Nat
    <3>1. pivot * (zoom - Unit) \in Nat /\ 0 * zoom = 0
      BY <1>1, <2>1
    <3>2. Rounded(0 * zoom, zoom) = 0
      BY <2>1, RoundedExact
    <3>3. 0 <= r /\ r \in Int
      BY <2>1, <3>1, <3>2, RoundedMonotone
    <3> HIDE DEF r
    <3> QED
      BY <3>3
  <2>4. CropAt(pivot, zoom) = Lesser(Width - Greater(2, 2 * (w \div 2)), r)
    BY <2>2 DEF CropAt
  <2> HIDE DEF w, r
  <2>5. Greater(2, 2 * (w \div 2)) \in 0..Width
    BY <1>1 DEF Greater
  <2> DEFINE g == Greater(2, 2 * (w \div 2))
  <2> HIDE DEF g
  <2>6. g \in 0..Width /\ CropAt(pivot, zoom) = Lesser(Width - g, r)
    BY <2>4, <2>5 DEF g
  <2> QED
    BY <1>1, <2>3, <2>6 DEF Lesser
<1> QED
  BY <1>2, <1>3

LEMMA ViewIsView ==
  ASSUME NEW pivot \in 0..Width, NEW zoom \in {IdleZoom, ActiveZoom}
  PROVE  View(pivot, zoom) \in Views
BY CropInside DEF View, Views

LEMMA StillIsMotion ==
  ASSUME NEW v \in Points
  PROVE  /\ Still(v) \in Motions
         /\ Still(v).end = 0 /\ Still(v).start = 0 /\ Still(v).to = Exact(v)
<1>1. v.x * Unit \in Int /\ v.zoom \in Int
  BY KeyFramesAssumption DEF Points
<1>2. Exact(v) \in Points
  BY <1>1 DEF Points, Exact
<1> QED
  BY <1>2 DEF Still, Motions

LEMMA RetargetIsMotion ==
  ASSUME NEW m \in Motions, NEW k \in KeyFrameSet
  PROVE  /\ Retarget(m, k) \in Motions
         /\ Retarget(m, k).from = At(m, k.at) /\ Retarget(m, k).to = Exact(k.view)
         /\ Retarget(m, k).start = k.at /\ Retarget(m, k).end = TransitionEnd(k.at)
         /\ k.at < TransitionEnd(k.at)
<1>1. k.at \in Nat /\ k.view \in Points
  BY ViewsArePoints DEF KeyFrameSet
<1>2. k.view.x * Unit \in Int /\ k.view.zoom \in Int
  BY <1>1, KeyFramesAssumption DEF Points
<1>3. Exact(k.view) \in Points
  BY <1>2 DEF Points, Exact
<1>4. TransitionEnd(k.at) \in Nat /\ k.at < TransitionEnd(k.at)
  <2>1. PICK e \in Nat \ {0} : TransitionEnd(k.at) = FrameTicks * e /\ FrameTicks * e > k.at
    BY <1>1, EndFacts
  <2>2. FrameTicks * e \in Nat
    BY KeyFramesAssumption
  <2> QED
    BY <2>1, <2>2
<1>5. At(m, k.at) \in Points
  BY <1>1, AtFacts
<1> QED
  BY <1>1, <1>3, <1>4, <1>5 DEF Retarget, Motions

\* g is the chain of moves in which key frames of kf interrupt the move m of lo.
Chain(g, kf, m, lo, n) ==
  g = [i \in lo..n |-> IF i <= lo THEN m ELSE Retarget(g[i - 1], kf[i])]

\* Such a chain is well defined, however long.
LEMMA ChainExists ==
  ASSUME NEW kf, NEW m, NEW lo \in Nat
  PROVE  \A n \in Nat : \E g : Chain(g, kf, m, lo, n)
<1> DEFINE Good(n) ==
      \E g : g = [i \in lo..n |-> IF i <= lo THEN m ELSE Retarget(g[i - 1], kf[i])]
<1>1. ASSUME NEW n \in Nat, n <= lo PROVE Good(n)
  <2> DEFINE g == [i \in lo..n |-> m]
  <2>1. \A i \in lo..n : i <= lo
    BY <1>1
  <2>2. g = [i \in lo..n |-> IF i <= lo THEN m ELSE Retarget(g[i - 1], kf[i])]
    BY <2>1
  <2> QED
    BY <2>2
<1>2. ASSUME NEW n \in Nat, n >= lo, Good(n) PROVE Good(n + 1)
  <2>1. PICK g : g = [i \in lo..n |-> IF i <= lo THEN m ELSE Retarget(g[i - 1], kf[i])]
    BY <1>2
  <2> DEFINE h == [i \in lo..(n + 1) |-> IF i <= n THEN g[i] ELSE Retarget(g[n], kf[n + 1])]
             body(i) == IF i <= lo THEN m ELSE Retarget(h[i - 1], kf[i])
  <2>2. \A i \in lo..n : g[i] = IF i <= lo THEN m ELSE Retarget(g[i - 1], kf[i])
    BY <2>1
  <2>3. ASSUME NEW i \in lo..(n + 1) PROVE h[i] = body(i)
    <3>1. CASE i = n + 1
      <4>1. ~(i <= n) /\ ~(i <= lo) /\ i - 1 = n /\ n \in lo..(n + 1) /\ n <= n
        BY <1>2, <3>1
      <4>2. h[i] = Retarget(g[n], kf[n + 1])
        BY <4>1
      <4>3. h[n] = g[n]
        BY <4>1
      <4>4. body(i) = Retarget(h[n], kf[n + 1])
        BY <3>1, <4>1
      <4> QED
        BY <4>2, <4>3, <4>4
    <3>2. CASE i # n + 1 /\ i <= lo
      <4>1. i \in lo..n /\ i <= n
        BY <1>2, <3>2
      <4>2. h[i] = g[i] /\ g[i] = m
        BY <2>2, <3>2, <4>1
      <4> QED
        BY <3>2, <4>2
    <3>3. CASE i # n + 1 /\ ~(i <= lo)
      <4>1. i \in lo..n /\ i <= n /\ i - 1 \in lo..(n + 1) /\ i - 1 <= n
        BY <1>2, <3>3
      <4>2. h[i] = g[i] /\ g[i] = Retarget(g[i - 1], kf[i])
        BY <2>2, <3>3, <4>1
      <4>3. h[i - 1] = g[i - 1]
        BY <4>1
      <4>4. body(i) = Retarget(h[i - 1], kf[i])
        BY <3>3
      <4> QED
        BY <4>2, <4>3, <4>4
    <3> QED
      BY <3>1, <3>2, <3>3
  <2>4. h = [i \in lo..(n + 1) |-> h[i]]
    OBVIOUS
  <2>5. h = [i \in lo..(n + 1) |-> body(i)]
    <3> HIDE DEF h, body
    <3> QED
      BY <2>3, <2>4
  <2> HIDE DEF h
  <2> QED
    BY <2>5
<1>3. SUFFICES ASSUME NEW n \in Nat, ~Good(n) PROVE FALSE
  BY DEF Chain
<1> DEFINE B == {i \in Nat : ~Good(i)}
<1> HIDE DEF Good
<1>4. PICK b \in B : \A i \in B : b <= i
  BY <1>3, LeastNatural
<1>5. b \in Nat /\ ~Good(b)
  OBVIOUS
<1>6. b > lo
  BY <1>1, <1>5
<1>7. b - 1 \in Nat /\ b - 1 >= lo /\ ~(b <= b - 1)
  BY <1>5, <1>6
<1>8. Good(b - 1)
  BY <1>4, <1>7
<1>9. Good((b - 1) + 1)
  BY <1>2, <1>7, <1>8
<1>10. (b - 1) + 1 = b
  BY <1>5
<1> QED
  BY <1>5, <1>9, <1>10

LEMMA KeyFramesTyped ==
  ASSUME NEW kf \in Seq(KeyFrameSet)
  PROVE  /\ Len(kf) \in Nat /\ DOMAIN kf = 1..Len(kf)
         /\ kf # <<>> => Len(kf) >= 1
         /\ \A i \in 1..Len(kf) :
              /\ kf[i] \in KeyFrameSet /\ kf[i].at \in Nat
              /\ kf[i].view \in Views /\ kf[i].view \in Points
<1>1. Len(kf) \in Nat /\ DOMAIN kf = 1..Len(kf) /\ (kf # <<>> => Len(kf) >= 1)
  BY LenProperties, EmptySeq
<1>2. \A i \in 1..Len(kf) : kf[i] \in KeyFrameSet
  BY ElementOfSeq
<1> QED
  BY <1>1, <1>2, ViewsArePoints DEF KeyFrameSet

LEMMA MovesOfFacts ==
  ASSUME NEW kf \in Seq(KeyFrameSet), kf # <<>>
  PROVE  /\ MovesOf(kf)[1] = Still(kf[1].view)
         /\ \A k \in 2..Len(kf) : MovesOf(kf)[k] = Retarget(MovesOf(kf)[k - 1], kf[k])
<1> DEFINE m == Still(kf[1].view)
           body(g, i) == IF i = 1 THEN m
                           ELSE [from  |-> At(g[i - 1], kf[i].at),
                                 to    |-> Exact(kf[i].view),
                                 start |-> kf[i].at,
                                 end   |-> TransitionEnd(kf[i].at)]
<1>1. Len(kf) \in Nat /\ Len(kf) >= 1 /\ DOMAIN kf = 1..Len(kf)
  BY KeyFramesTyped
<1>2. PICK g : g = [i \in 1..Len(kf) |-> IF i <= 1 THEN m ELSE Retarget(g[i - 1], kf[i])]
  <2> HIDE DEF m
  <2>1. 1 \in Nat
    OBVIOUS
  <2>2. \E g : Chain(g, kf, m, 1, Len(kf))
    BY <1>1, <2>1, ChainExists
  <2> QED
    BY <2>2 DEF Chain
<1>3. \A i \in 1..Len(kf) : body(g, i) = IF i <= 1 THEN m ELSE Retarget(g[i - 1], kf[i])
  <2> TAKE i \in 1..Len(kf)
  <2>1. i <= 1 <=> i = 1
    BY <1>1
  <2> QED
    BY <2>1 DEF Retarget
<1>4. g = [i \in DOMAIN kf |-> body(g, i)]
  <2> HIDE DEF body, m
  <2> QED
    BY <1>1, <1>2, <1>3
<1> DEFINE mv == CHOOSE h : h = [i \in DOMAIN kf |-> body(h, i)]
<1>5. MovesOf(kf) = mv
  BY DEF MovesOf
<1>6. mv = [i \in DOMAIN kf |-> body(mv, i)]
  BY <1>4
<1> HIDE DEF mv
<1>7. \A i \in 1..Len(kf) : mv[i] = body(mv, i)
  BY <1>1, <1>6
<1>8. mv[1] = m
  <2>1. 1 \in 1..Len(kf)
    BY <1>1
  <2>2. mv[1] = body(mv, 1)
    BY <1>7, <2>1
  <2> QED
    BY <2>2
<1>9. ASSUME NEW k \in 2..Len(kf) PROVE mv[k] = Retarget(mv[k - 1], kf[k])
  <2>1. k \in 1..Len(kf) /\ k # 1
    BY <1>1
  <2>2. mv[k] = body(mv, k)
    BY <1>7, <2>1
  <2> QED
    BY <2>1, <2>2 DEF Retarget
<1> QED
  BY <1>5, <1>8, <1>9

\* Each is a move that starts with its key frame and ends on a frame after it.
LEMMA MovesAreMotions ==
  ASSUME NEW kf \in Seq(KeyFrameSet), kf # <<>>
  PROVE  /\ \A k \in 1..Len(kf) :
              /\ MovesOf(kf)[k] \in Motions
              /\ MovesOf(kf)[k].to = Exact(kf[k].view)
         /\ MovesOf(kf)[1].end = 0
         /\ \A k \in 2..Len(kf) :
              /\ MovesOf(kf)[k].from = At(MovesOf(kf)[k - 1], kf[k].at)
              /\ MovesOf(kf)[k].start = kf[k].at
              /\ MovesOf(kf)[k].end = TransitionEnd(kf[k].at)
              /\ kf[k].at < TransitionEnd(kf[k].at)
<1> DEFINE mv == MovesOf(kf)
<1>1. /\ Len(kf) \in Nat /\ Len(kf) >= 1
      /\ \A k \in 1..Len(kf) : kf[k] \in KeyFrameSet /\ kf[k].view \in Points
  BY KeyFramesTyped
<1>2. /\ mv[1] = Still(kf[1].view)
      /\ \A k \in 2..Len(kf) : mv[k] = Retarget(mv[k - 1], kf[k])
  BY MovesOfFacts
<1> HIDE DEF mv
<1>3. mv[1] \in Motions /\ mv[1].end = 0 /\ mv[1].to = Exact(kf[1].view)
  BY <1>1, <1>2, StillIsMotion
<1>4. \A k \in 1..Len(kf) : mv[k] \in Motions
  <2>1. SUFFICES ASSUME NEW k0 \in 1..Len(kf), mv[k0] \notin Motions PROVE FALSE
    OBVIOUS
  <2> DEFINE B == {i \in 1..Len(kf) : mv[i] \notin Motions}
  <2>2. B \subseteq Nat /\ B # {}
    BY <1>1, <2>1
  <2>3. PICK b \in B : \A i \in B : b <= i
    BY <2>2, LeastNatural
  <2>4. b \in 2..Len(kf) /\ b - 1 \in 1..Len(kf) /\ ~(b <= b - 1)
    BY <1>1, <1>3
  <2>5. mv[b - 1] \in Motions
    BY <2>3, <2>4
  <2>6. mv[b] = Retarget(mv[b - 1], kf[b]) /\ kf[b] \in KeyFrameSet
    BY <1>1, <1>2, <2>4
  <2> QED
    BY <2>5, <2>6, RetargetIsMotion
<1>5. ASSUME NEW k \in 2..Len(kf)
      PROVE  /\ mv[k].from = At(mv[k - 1], kf[k].at) /\ mv[k].start = kf[k].at
             /\ mv[k].end = TransitionEnd(kf[k].at) /\ mv[k].to = Exact(kf[k].view)
             /\ kf[k].at < TransitionEnd(kf[k].at)
  <2>1. k \in 1..Len(kf) /\ k - 1 \in 1..Len(kf)
    BY <1>1
  <2>2. mv[k - 1] \in Motions /\ kf[k] \in KeyFrameSet /\ mv[k] = Retarget(mv[k - 1], kf[k])
    BY <1>1, <1>2, <1>4, <2>1
  <2>3. kf[k].at < TransitionEnd(kf[k].at)
    BY <2>2, RetargetIsMotion
  <2> QED
    BY <2>2, <2>3 DEF Retarget
<1>6. \A k \in 1..Len(kf) : k = 1 \/ k \in 2..Len(kf)
  BY <1>1
<1> QED
  BY <1>3, <1>4, <1>5, <1>6 DEF mv

\* The inner loop computes the moves of the camera, one after the other.
LEMMA InterruptedIsMove ==
  ASSUME keyframes \in Seq(KeyFrameSet), keyframes # <<>>,
         event \in 2..(Len(keyframes) + 1), motion = MovesOf(keyframes)[event - 1],
         NEW upTo \in event..(Len(keyframes) + 1)
  PROVE  Interrupted(upTo) = MovesOf(keyframes)[upTo - 1]
<1> DEFINE K == Len(keyframes)
           mv == MovesOf(keyframes)
           lo == event - 1
           body(g, i) == IF i < event THEN motion ELSE Retarget(g[i - 1], keyframes[i])
<1>1. K \in Nat /\ lo \in 1..K /\ upTo - 1 \in lo..K /\ event = lo + 1 /\ lo \in Nat
  BY LenProperties
<1>2. PICK g : g = [i \in lo..K |-> IF i <= lo THEN motion ELSE Retarget(g[i - 1], keyframes[i])]
  <2> HIDE DEF lo, K
  <2>1. \E g : Chain(g, keyframes, motion, lo, K)
    BY <1>1, ChainExists
  <2> QED
    BY <2>1 DEF Chain
<1>3. g = [i \in (event - 1)..Len(keyframes) |-> body(g, i)]
  <2>1. \A i \in lo..K : i <= lo <=> i < event
    BY <1>1
  <2> QED
    BY <1>2, <2>1
<1> DEFINE move == CHOOSE h : h = [i \in (event - 1)..Len(keyframes) |-> body(h, i)]
<1>4. Interrupted(upTo) = move[upTo - 1]
  BY DEF Interrupted
<1>5. move = [i \in (event - 1)..Len(keyframes) |-> body(move, i)]
  BY <1>3
<1> HIDE DEF move
<1>6. \A i \in lo..K : move[i] = body(move, i)
  BY <1>5
<1>7. \A k \in 2..K : mv[k] = Retarget(mv[k - 1], keyframes[k])
  BY MovesOfFacts
<1> HIDE DEF mv
<1>8. \A i \in lo..K : move[i] = mv[i]
  <2>1. SUFFICES ASSUME NEW i0 \in lo..K, move[i0] # mv[i0] PROVE FALSE
    OBVIOUS
  <2> DEFINE B == {i \in lo..K : move[i] # mv[i]}
  <2>2. B \subseteq Nat /\ B # {}
    BY <1>1, <2>1
  <2>3. PICK b \in B : \A i \in B : b <= i
    BY <2>2, LeastNatural
  <2>4. b \in lo..K /\ move[b] # mv[b]
    OBVIOUS
  <2>5. move[lo] = motion /\ motion = mv[lo]
    BY <1>1, <1>6 DEF mv
  <2>6. b # lo
    BY <2>4, <2>5
  <2>7. b - 1 \in lo..K /\ ~(b <= b - 1) /\ ~(b < event) /\ b \in 2..K
    BY <1>1, <2>4, <2>6
  <2>8. move[b - 1] = mv[b - 1]
    BY <2>3, <2>7
  <2>9. move[b] = Retarget(move[b - 1], keyframes[b])
    BY <1>6, <2>4, <2>7
  <2>10. mv[b] = Retarget(mv[b - 1], keyframes[b])
    BY <1>7, <2>7
  <2> QED
    BY <2>4, <2>8, <2>9, <2>10
<1> QED
  BY <1>1, <1>4, <1>8 DEF mv

\* The inner loop stops behind the key frames that are due.
LEMMA NextEventIsDue ==
  ASSUME keyframes \in Seq(KeyFrameSet), event \in 2..(Len(keyframes) + 1), NEW now \in Nat
  PROVE  /\ NextEvent(now) \in event..(Len(keyframes) + 1)
         /\ \A i \in event..(NextEvent(now) - 1) : keyframes[i].at <= now
         /\ NextEvent(now) > Len(keyframes) \/ keyframes[NextEvent(now)].at > now
<1> DEFINE K == Len(keyframes)
           stops(e) == e > K \/ keyframes[e].at > now
           due(e) == \A i \in event..(e - 1) : keyframes[i].at <= now
           B == {e \in event..(K + 1) : stops(e)}
<1>1. K \in Nat /\ \A i \in 1..K : keyframes[i].at \in Nat
  BY KeyFramesTyped
<1>2. K + 1 \in B /\ B \subseteq Nat
  BY <1>1
<1>3. PICK e \in B : \A i \in B : e <= i
  BY <1>2, LeastNatural
<1>4. due(e)
  <2> TAKE i \in event..(e - 1)
  <2>1. i \in event..(K + 1) /\ ~(e <= i) /\ i \in 1..K /\ e \in event..(K + 1)
    BY <1>1
  <2>2. ~stops(i)
    BY <1>3, <2>1
  <2> QED
    BY <1>1, <2>1, <2>2
<1>5. \E f \in event..(K + 1) : due(f) /\ stops(f)
  BY <1>4
<1>6. NextEvent(now) = CHOOSE f \in event..(K + 1) : due(f) /\ stops(f)
  BY DEF NextEvent
<1> DEFINE N == NextEvent(now)
<1>7. N \in event..(K + 1) /\ due(N) /\ stops(N)
  <2> HIDE DEF due, stops
  <2> QED
    BY <1>5, <1>6
<1> QED
  BY <1>7

\* The key frame that Latest chooses, and Camera, for any key frames.
LatestOf(kf, t) == CHOOSE k \in DOMAIN kf : IsLatest(kf, k, t)

CameraOf(kf, t) == At(MovesOf(kf)[LatestOf(kf, t)], t)

LEMMA CameraIsMove == \A t : Camera(t) = CameraOf(keyframes, t)
BY DEF Camera, CameraOf, MovesOf, Latest, LatestOf, IsLatest

\* Exactly one key frame is the latest.
LEMMA LatestIs ==
  ASSUME NEW kf \in Seq(KeyFrameSet), NEW t \in Nat,
         NEW k \in 1..Len(kf), IsLatest(kf, k, t)
  PROVE  LatestOf(kf, t) = k
<1>1. /\ DOMAIN kf = 1..Len(kf) /\ Len(kf) \in Nat
      /\ \A i \in 1..Len(kf) : kf[i].at \in Nat
  BY KeyFramesTyped
<1>2. ASSUME NEW i \in 1..Len(kf), NEW j \in 1..Len(kf), i < j,
             IsLatest(kf, i, t), IsLatest(kf, j, t)
      PROVE  FALSE
  <2>1. kf[j].at <= t /\ kf[j].at > t
    BY <1>1, <1>2 DEF IsLatest
  <2> QED
    BY <1>1, <2>1
<1>3. \A i \in 1..Len(kf) : IsLatest(kf, i, t) => i = k
  BY <1>1, <1>2
<1> QED
  BY <1>1, <1>3 DEF LatestOf

LEMMA LatestExists ==
  ASSUME NEW kf \in Seq(KeyFrameSet), kf # <<>>, NEW t \in Nat
  PROVE  \E k \in 1..Len(kf) : IsLatest(kf, k, t)
<1>1. /\ Len(kf) \in Nat /\ Len(kf) >= 1
      /\ \A i \in 1..Len(kf) : kf[i].at \in Nat
  BY KeyFramesTyped
<1> DEFINE over(e) == \A j \in (e + 1)..Len(kf) : kf[j].at > t
           B == {e \in 1..Len(kf) : over(e)}
<1>2. Len(kf) \in B /\ B \subseteq Nat
  BY <1>1
<1>3. PICK b \in B : \A e \in B : b <= e
  BY <1>2, LeastNatural
<1>4. b = 1 \/ kf[b].at <= t
  <2>1. SUFFICES ASSUME b # 1, ~(kf[b].at <= t) PROVE FALSE
    OBVIOUS
  <2>2. b \in 1..Len(kf) /\ b - 1 \in 1..Len(kf) /\ ~(b <= b - 1) /\ over(b) /\ kf[b].at \in Nat
    BY <1>1, <2>1
  <2>3. kf[b].at > t
    BY <2>1, <2>2
  <2>4. ASSUME NEW j \in ((b - 1) + 1)..Len(kf) PROVE kf[j].at > t
    <3>1. j = b \/ j \in (b + 1)..Len(kf)
      BY <1>1, <2>2
    <3> QED
      BY <2>2, <2>3, <3>1
  <2>5. b - 1 \in B
    BY <2>2, <2>4
  <2> QED
    BY <1>3, <2>2, <2>5
<1> QED
  BY <1>4 DEF IsLatest

LEMMA FinalFrameFacts ==
  ASSUME keyframes \in Seq(KeyFrameSet), clock \in Nat
  PROVE  /\ LastFrame \in Nat /\ FinalFrame \in Nat
         /\ keyframes = <<>> => FinalFrame = 0
         /\ keyframes # <<>> =>
              \E e \in Nat :
                /\ TransitionEnd(keyframes[Len(keyframes)].at) = FrameTicks * e
                /\ FinalFrame <= e
                /\ FinalFrame = LastFrame \/ FinalFrame = e
<1> DEFINE F == FrameTicks
           W == LastFrame
<1>1. F \in Nat \ {0}
  BY KeyFramesAssumption
<1>2. W \in Nat
  <2> DEFINE q == (clock + F - 1) \div F
  <2>1. q \in Int
    <3>1. clock + F - 1 \in Int
      BY <1>1
    <3> QED
      BY <1>1, <3>1, QuotientIsInt
  <2> HIDE DEF q
  <2> QED
    BY <2>1 DEF LastFrame, Greater, q
<1> HIDE DEF W
<1>3. CASE keyframes = <<>>
  BY <1>2, <1>3 DEF FinalFrame, W
<1>4. CASE keyframes # <<>>
  <2> DEFINE last == keyframes[Len(keyframes)]
  <2>1. last.at \in Nat /\ Last(keyframes) = last
    BY <1>4, KeyFramesTyped DEF Last
  <2>2. PICK e \in Nat \ {0} : TransitionEnd(last.at) = F * e
    BY <2>1, EndFacts
  <2> HIDE DEF last
  <2>3. FinalFrame = Lesser(W * F, F * e) \div F
    BY <1>4, <2>1, <2>2 DEF FinalFrame, W
  <2>4. CASE W < e
    <3>1. Lesser(W * F, F * e) = W * F
      BY <1>1, <1>2, <2>4 DEF Lesser
    <3>2. FinalFrame = W
      BY <1>1, <1>2, <2>3, <3>1, WholeQuotient
    <3> QED
      BY <1>2, <1>4, <2>2, <2>4, <3>2 DEF W, last
  <2>5. CASE ~(W < e)
    <3>1. Lesser(W * F, F * e) = e * F
      BY <1>1, <1>2, <2>5 DEF Lesser
    <3>2. FinalFrame = e
      BY <1>1, <1>2, <2>3, <3>1, WholeQuotient
    <3> QED
      BY <1>2, <1>4, <2>2, <2>5, <3>2 DEF W, last
  <2> QED
    BY <2>4, <2>5
<1> QED
  BY <1>3, <1>4

\* The camera rests once the last move is over.
LEMMA CameraRests ==
  ASSUME NEW kf \in Seq(KeyFrameSet), kf # <<>>, NEW t \in Nat,
         t >= TransitionEnd(kf[Len(kf)].at)
  PROVE  CameraOf(kf, t) = Exact(kf[Len(kf)].view)
<1> DEFINE K == Len(kf)
<1>1. K \in 1..Len(kf) /\ K \in Nat /\ kf[K] \in KeyFrameSet /\ kf[K].at \in Nat
  BY KeyFramesTyped
<1>2. kf[K].at <= t /\ TransitionEnd(kf[K].at) \in Nat
  <2>1. PICK e \in Nat \ {0} : /\ TransitionEnd(kf[K].at) = FrameTicks * e
                               /\ FrameTicks * e > kf[K].at
    BY <1>1, EndFacts
  <2>2. FrameTicks * e \in Nat
    BY KeyFramesAssumption
  <2> QED
    BY <1>1, <2>1, <2>2
<1>3. IsLatest(kf, K, t)
  BY <1>1, <1>2 DEF IsLatest
<1>4. CameraOf(kf, t) = At(MovesOf(kf)[K], t)
  BY <1>1, <1>3, LatestIs DEF CameraOf
<1>5. MovesOf(kf)[K] \in Motions /\ MovesOf(kf)[K].to = Exact(kf[K].view)
  BY <1>1, MovesAreMotions
<1>6. t >= MovesOf(kf)[K].end
  <2>1. CASE K = 1
    BY <2>1, MovesAreMotions
  <2>2. CASE K \in 2..Len(kf)
    BY <2>2, MovesAreMotions
  <2>3. K = 1 \/ K \in 2..Len(kf)
    <3>1. \A n \in Nat : n >= 1 => n = 1 \/ n \in 2..n
      OBVIOUS
    <3>2. K \in Nat /\ K >= 1
      BY KeyFramesTyped
    <3> QED
      BY <3>1, <3>2
  <2> QED
    BY <2>1, <2>2, <2>3
<1> QED
  BY <1>4, <1>5, <1>6, AtFacts

Ordered(kf) == \A i, j \in 1..Len(kf) : i <= j => kf[i].at <= kf[j].at

\* Key frames of time 0 have not moved the camera yet.
LEMMA CameraAtZero ==
  ASSUME NEW kf \in Seq(KeyFrameSet), kf # <<>>, Ordered(kf)
  PROVE  CameraOf(kf, 0) = At(Still(kf[1].view), 0)
<1> DEFINE mv == MovesOf(kf)
<1>1. PICK k \in 1..Len(kf) : IsLatest(kf, k, 0)
  BY LatestExists
<1>2. /\ Len(kf) \in Nat /\ \A i \in 1..Len(kf) : kf[i].at \in Nat
      /\ \A i \in 1..Len(kf) : mv[i] \in Motions
      /\ mv[1] = Still(kf[1].view)
  BY KeyFramesTyped, MovesAreMotions, MovesOfFacts
<1>3. CameraOf(kf, 0) = At(mv[k], 0)
  BY <1>1, LatestIs DEF CameraOf
<1>4. k = 1 \/ \A i \in 1..k : kf[i].at = 0
  <2>1. SUFFICES ASSUME k # 1, NEW i \in 1..k PROVE kf[i].at = 0
    OBVIOUS
  <2>2. kf[k].at <= 0
    BY <1>1, <2>1 DEF IsLatest
  <2>3. i \in 1..Len(kf) /\ i <= k
    BY <1>1
  <2>4. kf[i].at <= kf[k].at
    BY <2>3 DEF Ordered
  <2> QED
    BY <1>2, <2>2, <2>3, <2>4
<1>5. CASE k = 1
  BY <1>2, <1>3, <1>5
<1>6. CASE k # 1
  <2>1. SUFFICES ASSUME At(mv[k], 0) # At(mv[1], 0) PROVE FALSE
    BY <1>2, <1>3
  <2> DEFINE B == {i \in 1..k : At(mv[i], 0) # At(mv[1], 0)}
  <2>2. B \subseteq Nat /\ B # {}
    BY <2>1
  <2>3. PICK b \in B : \A i \in B : b <= i
    BY <2>2, LeastNatural
  <2>4. b \in 2..k /\ b \in 1..Len(kf) /\ b \in 2..Len(kf) /\ b - 1 \in 1..k /\ ~(b <= b - 1) /\ kf[b].at = 0
    BY <1>2, <1>4, <1>6
  <2>5. At(mv[b - 1], 0) = At(mv[1], 0)
    BY <2>3, <2>4
  <2>6. /\ mv[b].from = At(mv[b - 1], 0) /\ mv[b].start = 0
        /\ mv[b].end = TransitionEnd(0) /\ 0 < TransitionEnd(0) /\ mv[b] \in Motions
    BY <1>2, <2>4, MovesAreMotions
  <2>7. At(mv[b], 0) = mv[b].from
    BY <2>6, AtFacts
  <2> QED
    BY <2>3, <2>5, <2>6, <2>7
<1> QED
  BY <1>5, <1>6
-----------------------------------------------------------------------------
(* The inductive invariant.                                                *)

SampleSet == [frame : Nat, x : Int, zoom : Int]

MotionTypes ==
  /\ phase \in {"capture", "sample", "rendered"}
  /\ clock \in Nat /\ frame \in Nat /\ event \in Nat
  /\ keyframes \in Seq(KeyFrameSet)
  /\ samples \in Seq(SampleSet)
  /\ motion \in Motions

\* Key frames are recorded in the order of their times.
Timely ==
  /\ Len(keyframes) <= MaxFrames
  /\ Ordered(keyframes)
  /\ \A i \in 1..Len(keyframes) : keyframes[i].at <= clock

Shows(s, point) == s.x = Rounded(point.x, Unit) /\ s.zoom = point.zoom

\* The loop has taken the key frames before `event`, all of them due, and its last
\* sample shows where the camera is.
Looped ==
  /\ phase = "capture" => frame = 0
  /\ phase # "capture" =>
       /\ samples # <<>>
       /\ frame <= FinalFrame
       /\ phase = "rendered" => frame = FinalFrame
       /\ \A i \in 1..Len(samples) : samples[i].frame <= frame
       /\ Shows(samples[Len(samples)], At(motion, frame * FrameTicks))
       /\ keyframes # <<>> =>
            /\ event \in 2..(Len(keyframes) + 1)
            /\ motion = MovesOf(keyframes)[event - 1]
            /\ \A i \in 2..(event - 1) : keyframes[i].at <= frame * FrameTicks

\* i is the sample of ss that the render shows at frame n.
ShownAt(ss, i, n) ==
  /\ i = Len(ss) \/ n < ss[i + 1].frame
  /\ \A j \in 1..(i - 1) : n >= ss[j + 1].frame

\* Whatever has been sampled is shown right.
Pictured ==
  phase # "capture" /\ keyframes # <<>> =>
    \A n \in 0..frame : \A i \in 1..Len(samples) :
      ShownAt(samples, i, n) => Shows(samples[i], CameraOf(keyframes, n * FrameTicks))

\* Samples of one move.
Frames == (2 * Transition + FrameTicks) \div (2 * FrameTicks) + 1

\* Samples of the move under way: those of its frames so far, or all of them.
FramesSoFar ==
  Lesser(Frames, (frame * FrameTicks - keyframes[event - 1].at) \div FrameTicks + 1)

\* Nothing is left of the allowance of a move that a later one has interrupted.
Priced ==
  phase # "capture" =>
    /\ keyframes = <<>> => Len(samples) = 1
    /\ keyframes # <<>> =>
         /\ Len(samples) <= 1 + (Len(keyframes) - 1) * Frames
         /\ frame < FinalFrame =>
              IF event = 2 THEN Len(samples) = 1
                           ELSE Len(samples) <= 1 + (event - 3) * Frames + FramesSoFar

MotionInv == MotionTypes /\ Timely /\ Looped

LEMMA PivotIsPosition == Pivots \subseteq 0..Width /\ 0 \in 0..Width
BY KeyFramesAssumption

LEMMA SampleFacts ==
  ASSUME NEW m \in Motions, NEW n \in Nat
  PROVE  /\ Sample(n, m) \in SampleSet /\ Sample(n, m).frame = n
         /\ Shows(Sample(n, m), At(m, n * FrameTicks))
<1>1. n * FrameTicks \in Nat /\ Unit \in Nat \ {0}
  BY KeyFramesAssumption
<1>2. At(m, n * FrameTicks) \in Points
  BY <1>1, AtFacts
<1>3. At(m, n * FrameTicks).x \in Int /\ At(m, n * FrameTicks).zoom \in Int
  BY <1>2 DEF Points
<1>4. Rounded(At(m, n * FrameTicks).x, Unit) \in Int
  BY <1>1, <1>3, RoundedIsInt
<1> QED
  BY <1>3, <1>4 DEF Sample, Shows, SampleSet

LEMMA MotionInit == FramesInit => MotionInv
<1> SUFFICES ASSUME FramesInit PROVE MotionInv
  OBVIOUS
<1>1. View(0, IdleZoom) \in Points
  BY PivotIsPosition, ViewIsView, ViewsArePoints DEF IdleZoom
<1>2. Still(View(0, IdleZoom)) \in Motions
  BY <1>1, StillIsMotion
<1>3. <<>> \in Seq(KeyFrameSet) /\ <<>> \in Seq(SampleSet) /\ Len(<<>>) = 0
  BY EmptySeq
<1> QED
  BY <1>2, <1>3, KeyFramesAssumption DEF FramesInit, MotionInv, MotionTypes, Timely, Ordered, Looped

\* Nothing that FinalFrame depends on changes once the capture is over.
LEMMA FinalFrameStays ==
  clock' = clock /\ keyframes' = keyframes => FinalFrame' = FinalFrame /\ LastFrame' = LastFrame
BY DEF FinalFrame, LastFrame

\* Where the key frames are that a round takes from e to f - 1.
LEMMA Taken ==
  ASSUME NEW K \in Nat, NEW e \in 2..(K + 1), NEW f \in e..(K + 1)
  PROVE  /\ f - 1 \in 1..K /\ f \in 2..(K + 1)
         /\ \A i \in 2..(f - 1) : i \in 1..K /\ (i \in 2..(e - 1) \/ i \in e..(f - 1))
         /\ f - 1 = 1 \/ f - 1 \in 2..(f - 1)
         /\ \A j \in ((f - 1) + 1)..K : f \in 1..K /\ j \in 1..K /\ f <= j
OBVIOUS

\* A round of the loop ends with the camera of its frame.
LEMMA RoundOfTheLoop ==
  ASSUME MotionInv, SampleFrame
  PROVE  /\ keyframes # <<>> /\ phase = "sample" /\ phase' = phase
         /\ clock' = clock /\ keyframes' = keyframes
         /\ frame' = frame + 1 /\ frame' \in Nat /\ frame' <= FinalFrame /\ FinalFrame' = FinalFrame
         /\ event \in 2..(Len(keyframes) + 1)
         /\ event' \in event..(Len(keyframes) + 1) /\ event' \in 2..(Len(keyframes) + 1)
         /\ motion = MovesOf(keyframes)[event - 1] /\ motion' = MovesOf(keyframes)[event' - 1]
         /\ motion' \in Motions
         /\ \A i \in 2..(event' - 1) : keyframes[i].at <= frame' * FrameTicks
         /\ event' > Len(keyframes) \/ keyframes[event'].at > frame' * FrameTicks
         /\ At(motion', frame' * FrameTicks) = CameraOf(keyframes, frame' * FrameTicks)
         /\ LET settled == /\ event' > 2 /\ frame' = FinalFrame
                           /\ frame' * FrameTicks >= motion'.end
            IN  samples' = IF Needed(Sample(frame', motion'), settled)
                             THEN Append(samples, Sample(frame', motion'))
                             ELSE samples
<1> DEFINE K == Len(keyframes)
           now == (frame + 1) * FrameTicks
<1>1. /\ phase = "sample" /\ phase' = phase /\ clock' = clock /\ keyframes' = keyframes
      /\ frame < FinalFrame /\ frame' = frame + 1
      /\ event' = NextEvent(now) /\ motion' = Interrupted(event')
  BY DEF SampleFrame
<1>2. /\ frame \in Nat /\ clock \in Nat /\ keyframes \in Seq(KeyFrameSet) /\ K \in Nat
      /\ FinalFrame \in Nat /\ keyframes # <<>>
  BY <1>1, FinalFrameFacts, LenProperties DEF MotionInv, MotionTypes
<1>3. /\ event \in 2..(K + 1) /\ motion = MovesOf(keyframes)[event - 1]
      /\ \A i \in 2..(event - 1) : keyframes[i].at <= frame * FrameTicks
  BY <1>1, <1>2 DEF MotionInv, Looped
<1>4. now \in Nat /\ frame * FrameTicks <= now /\ frame * FrameTicks \in Nat /\ now = frame' * FrameTicks
  <2>1. FrameTicks \in Nat
    BY KeyFramesAssumption
  <2>2. now = frame * FrameTicks + FrameTicks /\ frame * FrameTicks \in Nat
    BY <1>2, <2>1
  <2> QED
    BY <1>1, <2>1, <2>2
<1> HIDE DEF now, K
<1>5. /\ event' \in event..(K + 1)
      /\ \A i \in event..(event' - 1) : keyframes[i].at <= now
      /\ event' > K \/ keyframes[event'].at > now
  BY <1>1, <1>2, <1>3, <1>4, NextEventIsDue DEF K
<1>6. motion' = MovesOf(keyframes)[event' - 1]
  BY <1>1, <1>2, <1>3, <1>5, InterruptedIsMove DEF K
<1>7. /\ K \in Nat /\ event \in 2..(K + 1) /\ event' \in event..(K + 1)
      /\ event' - 1 \in 1..K /\ event' \in 2..(K + 1)
  <2>1. K \in Nat /\ event \in 2..(K + 1) /\ event' \in event..(K + 1)
    BY <1>2, <1>3, <1>5
  <2> QED
    BY <2>1, Taken
<1>8. motion' \in Motions
  BY <1>2, <1>6, <1>7, MovesAreMotions DEF K
<1>9. \A i \in 1..K : keyframes[i].at \in Nat
  BY <1>2, KeyFramesTyped DEF K
<1>10. ASSUME NEW i \in 2..(event' - 1) PROVE keyframes[i].at <= now
  <2>1. i \in 1..K /\ (i \in 2..(event - 1) \/ i \in event..(event' - 1))
    BY <1>7, Taken
  <2>2. CASE i \in 2..(event - 1)
    <3>1. keyframes[i].at <= frame * FrameTicks /\ keyframes[i].at \in Nat
      BY <1>3, <1>9, <2>1, <2>2
    <3> QED
      BY <1>4, <3>1
  <2>3. CASE i \in event..(event' - 1)
    BY <1>5, <2>3
  <2> QED
    BY <2>1, <2>2, <2>3
<1>11. IsLatest(keyframes, event' - 1, now)
  <2>1. event' - 1 = 1 \/ keyframes[event' - 1].at <= now
    <3>1. event' - 1 = 1 \/ event' - 1 \in 2..(event' - 1)
      BY <1>7, Taken
    <3> QED
      BY <1>10, <3>1
  <2>2. ASSUME NEW j \in ((event' - 1) + 1)..K PROVE keyframes[j].at > now
    <3>1. event' \in 1..K /\ j \in 1..K /\ event' <= j
      BY <1>7, <2>2, Taken
    <3>2. keyframes[event'].at > now
      BY <1>2, <1>5, <3>1
    <3>3. keyframes[event'].at <= keyframes[j].at
      BY <3>1 DEF MotionInv, Timely, Ordered, K
    <3> QED
      BY <1>4, <1>9, <3>1, <3>2, <3>3
  <2> QED
    BY <2>1, <2>2 DEF IsLatest, K
<1>12. At(motion', now) = CameraOf(keyframes, now)
  <2>1. LatestOf(keyframes, now) = event' - 1
    BY <1>2, <1>4, <1>7, <1>11, LatestIs DEF K
  <2> QED
    BY <1>6, <2>1 DEF CameraOf
<1>13. LET settled == /\ event' > 2 /\ frame' = FinalFrame
                      /\ frame' * FrameTicks >= motion'.end
       IN  samples' = IF Needed(Sample(frame', motion'), settled)
                        THEN Append(samples, Sample(frame', motion'))
                        ELSE samples
  <2>1. FinalFrame' = FinalFrame
    BY <1>1, FinalFrameStays
  <2> QED
    BY <2>1 DEF SampleFrame
<1>14. FinalFrame' = FinalFrame
  BY <1>1, FinalFrameStays
<1>15. frame' \in Nat /\ frame' <= FinalFrame
  BY <1>1, <1>2
<1> QED
  BY <1>1, <1>2, <1>3, <1>4, <1>5, <1>6, <1>7, <1>8, <1>10, <1>12, <1>13, <1>14, <1>15 DEF K

Settled == /\ event' > 2 /\ frame' = FinalFrame /\ frame' * FrameTicks >= motion'.end

\* A sample is appended, or the last one shows the same.
LEMMA SampleAppended ==
  ASSUME MotionInv, SampleFrame, NEW s, s = Sample(frame', motion')
  PROVE  /\ s \in SampleSet /\ s.frame = frame'
         /\ Shows(s, CameraOf(keyframes, frame' * FrameTicks))
         /\ Shows(s, At(motion', frame' * FrameTicks))
         /\ samples \in Seq(SampleSet) /\ samples # <<>>
         /\ \/ samples' = Append(samples, s)
            \/ /\ samples' = samples
               /\ samples[Len(samples)].x = s.x /\ samples[Len(samples)].zoom = s.zoom
         /\ samples[Len(samples)].x = s.x /\ samples[Len(samples)].zoom = s.zoom /\ ~Settled =>
              samples' = samples
<1>1. /\ frame' \in Nat /\ motion' \in Motions /\ phase = "sample"
      /\ At(motion', frame' * FrameTicks) = CameraOf(keyframes, frame' * FrameTicks)
      /\ samples' = IF Needed(Sample(frame', motion'), Settled)
                      THEN Append(samples, Sample(frame', motion'))
                      ELSE samples
  BY RoundOfTheLoop DEF Settled
<1>2. /\ s \in SampleSet /\ s.frame = frame'
      /\ Shows(s, At(motion', frame' * FrameTicks))
  BY <1>1, SampleFacts
<1>3. samples \in Seq(SampleSet) /\ samples # <<>>
  BY <1>1 DEF MotionInv, MotionTypes, Looped
<1> DEFINE last == samples[Len(samples)]
<1>4. last \in SampleSet /\ Last(samples) = last
  <2>1. Len(samples) \in 1..Len(samples)
    BY <1>3, EmptySeq
  <2> QED
    BY <1>3, <2>1, ElementOfSeq DEF Last
<1> HIDE DEF last
<1>5. [s EXCEPT !.frame = 0] = [last EXCEPT !.frame = 0] <=> last.x = s.x /\ last.zoom = s.zoom
  BY <1>2, <1>4 DEF SampleSet
<1>6. Needed(s, Settled) <=> ~(last.x = s.x /\ last.zoom = s.zoom) \/ Settled
  <2>1. Needed(s, Settled) <=> [s EXCEPT !.frame = 0] # [last EXCEPT !.frame = 0] \/ Settled
    BY <1>4 DEF Needed
  <2> QED
    BY <1>5, <2>1
<1>7. samples' = IF Needed(s, Settled) THEN Append(samples, s) ELSE samples
  BY <1>1
<1> HIDE DEF last
<1> QED
  BY <1>1, <1>2, <1>3, <1>6, <1>7, Zenon DEF last

\* What an appended sequence holds.
LEMMA Appended ==
  ASSUME NEW S, NEW q \in Seq(S), NEW e \in S
  PROVE  /\ Append(q, e) \in Seq(S) /\ Append(q, e) # <<>>
         /\ Len(q) \in Nat /\ Len(Append(q, e)) = Len(q) + 1
         /\ \A i \in 1..Len(q) : Append(q, e)[i] = q[i]
         /\ Append(q, e)[Len(q) + 1] = e
         /\ \A i \in 1..(Len(q) + 1) : i \in 1..Len(q) \/ i = Len(q) + 1
<1>1. Len(q) \in Nat
  BY LenProperties
<1> QED
  BY <1>1, AppendProperties

LEMMA TrackCameraKeeps ==
  ASSUME MotionInv, NEW pivot \in Pivots, NEW zoom \in {IdleZoom, ActiveZoom},
         TrackCamera(pivot, zoom)
  PROVE  MotionInv'
<1> DEFINE k == [at |-> clock, view |-> View(pivot, zoom)]
           K == Len(keyframes)
<1>1. /\ phase = "capture" /\ phase' = phase /\ clock' = clock /\ frame' = frame
      /\ event' = event /\ motion' = motion /\ samples' = samples
      /\ keyframes' = Append(keyframes, k)
  BY DEF TrackCamera
<1>2. /\ clock \in Nat /\ keyframes \in Seq(KeyFrameSet) /\ Ordered(keyframes)
      /\ \A i \in 1..K : keyframes[i].at <= clock
  BY DEF MotionInv, MotionTypes, Timely
<1>3. View(pivot, zoom) \in Views
  BY PivotIsPosition, ViewIsView
<1>4. k \in KeyFrameSet /\ k.at = clock
  BY <1>2, <1>3 DEF KeyFrameSet
<1> HIDE DEF k
<1> DEFINE q == Append(keyframes, k)
<1>5. /\ q \in Seq(KeyFrameSet) /\ K \in Nat /\ Len(q) = K + 1
      /\ \A i \in 1..K : q[i] = keyframes[i]
      /\ q[K + 1] = k
      /\ \A i \in 1..(K + 1) : i \in 1..K \/ i = K + 1
  BY <1>2, <1>4, Appended
<1> HIDE DEF q
<1>6. \A i \in 1..Len(q) : q[i].at <= clock
  BY <1>2, <1>4, <1>5
<1>7. Ordered(q)
  <2>1. ASSUME NEW i \in 1..(K + 1), NEW j \in 1..(K + 1), i <= j PROVE q[i].at <= q[j].at
    <3>1. CASE j = K + 1
      BY <1>4, <1>5, <1>6, <3>1
    <3>2. CASE j \in 1..K
      <4>1. i \in 1..K
        BY <1>5, <2>1, <3>2
      <4> QED
        BY <1>2, <1>5, <2>1, <3>2, <4>1 DEF Ordered
    <3> QED
      BY <1>5, <3>1, <3>2
  <2> QED
    BY <1>5, <2>1 DEF Ordered
<1>8. keyframes' = q
  BY <1>1 DEF q
<1>9. MotionTypes'
  BY <1>1, <1>5, <1>8 DEF MotionInv, MotionTypes
<1>10. Timely'
  <2>1. K + 1 <= MaxFrames
    BY <1>5, KeyFramesAssumption DEF TrackCamera
  <2> QED
    BY <1>1, <1>5, <1>6, <1>7, <1>8, <2>1 DEF Timely
<1>11. Looped'
  <2>1. frame = 0
    BY <1>1 DEF MotionInv, Looped
  <2> QED
    BY <1>1, <2>1 DEF Looped
<1> QED
  BY <1>9, <1>10, <1>11 DEF MotionInv

LEMMA StopKeeps ==
  ASSUME MotionInv, StopCapture
  PROVE  /\ MotionInv' /\ samples' = <<Sample(0, motion')>> /\ frame' = 0 /\ event' = 2
         /\ keyframes' = keyframes /\ phase' = "sample" /\ Sample(0, motion') \in SampleSet
         /\ keyframes # <<>> => motion' = Still(keyframes[1].view)
<1> DEFINE first == IF keyframes = <<>> THEN View(0, IdleZoom) ELSE keyframes[1].view
<1>1. /\ phase = "capture" /\ phase' = "sample" /\ clock' = clock /\ keyframes' = keyframes
      /\ frame' = frame /\ event' = 2 /\ motion' = Still(first)
      /\ samples' = <<Sample(0, motion')>>
  BY DEF StopCapture
<1>2. clock \in Nat /\ frame \in Nat /\ keyframes \in Seq(KeyFrameSet)
  BY DEF MotionInv, MotionTypes
<1>3. first \in Points /\ (keyframes # <<>> => first = keyframes[1].view)
  <2>1. View(0, IdleZoom) \in Points
    BY PivotIsPosition, ViewIsView, ViewsArePoints DEF IdleZoom
  <2>2. keyframes # <<>> => 1 \in 1..Len(keyframes) /\ keyframes[1].view \in Points
    BY <1>2, KeyFramesTyped
  <2> QED
    BY <2>1, <2>2
<1> HIDE DEF first
<1>4. motion' \in Motions /\ frame' = 0
  BY <1>1, <1>3, StillIsMotion DEF MotionInv, Looped
<1> DEFINE s == Sample(0, motion')
<1>5. s \in SampleSet /\ s.frame = 0 /\ Shows(s, At(motion', 0 * FrameTicks))
  BY <1>4, SampleFacts
<1> HIDE DEF s
<1>6. samples' = <<s>>
  BY <1>1 DEF s
<1>7. samples' \in Seq(SampleSet) /\ Len(samples') = 1 /\ samples'[1] = s /\ samples' # <<>>
  BY <1>5, <1>6
<1>8. MotionTypes'
  BY <1>1, <1>2, <1>4, <1>7 DEF MotionTypes
<1>9. Timely'
  BY <1>1 DEF Timely, MotionInv
<1>10. /\ FinalFrame' = FinalFrame /\ FinalFrame \in Nat
  BY <1>1, <1>2, FinalFrameFacts, FinalFrameStays
<1>11. keyframes # <<>> => /\ 2 \in 2..(Len(keyframes) + 1) /\ motion' = MovesOf(keyframes)[2 - 1]
                           /\ \A i \in 2..(2 - 1) : keyframes[i].at <= 0 * FrameTicks
  <2>1. SUFFICES ASSUME keyframes # <<>> PROVE /\ 2 \in 2..(Len(keyframes) + 1) /\ motion' = MovesOf(keyframes)[1]
    OBVIOUS
  <2>2. Len(keyframes) \in Nat /\ Len(keyframes) >= 1
    BY <1>2, <2>1, KeyFramesTyped
  <2> QED
    BY <1>1, <1>2, <1>3, <2>1, <2>2, MovesOfFacts
<1>12. Looped'
  <2>1. \A i \in 1..Len(samples') : samples'[i].frame <= frame'
    BY <1>4, <1>5, <1>7
  <2>2. Shows(samples'[Len(samples')], At(motion', frame' * FrameTicks))
    BY <1>4, <1>5, <1>7
  <2>3. frame' <= FinalFrame'
    BY <1>4, <1>10
  <2>4. keyframes' # <<>> => /\ event' \in 2..(Len(keyframes') + 1)
                             /\ motion' = MovesOf(keyframes')[event' - 1]
                             /\ \A i \in 2..(event' - 1) : keyframes'[i].at <= frame' * FrameTicks
    BY <1>1, <1>4, <1>11
  <2> QED
    BY <1>1, <1>7, <2>1, <2>2, <2>3, <2>4 DEF Looped
<1> QED
  BY <1>1, <1>3, <1>4, <1>5, <1>8, <1>9, <1>12 DEF MotionInv, s

LEMMA SampleFrameKeeps ==
  ASSUME MotionInv, SampleFrame
  PROVE  MotionInv'
<1>1. /\ keyframes # <<>> /\ phase = "sample" /\ phase' = phase
      /\ clock' = clock /\ keyframes' = keyframes
      /\ frame' = frame + 1 /\ frame' \in Nat /\ frame' <= FinalFrame /\ FinalFrame' = FinalFrame
      /\ event' \in 2..(Len(keyframes) + 1)
      /\ motion' = MovesOf(keyframes)[event' - 1]
      /\ motion' \in Motions
      /\ \A i \in 2..(event' - 1) : keyframes[i].at <= frame' * FrameTicks
  BY RoundOfTheLoop
<1>2. /\ clock \in Nat /\ frame \in Nat /\ keyframes \in Seq(KeyFrameSet)
      /\ \A i \in 1..Len(samples) : samples[i].frame <= frame
  BY <1>1 DEF MotionInv, MotionTypes, Looped
<1> DEFINE s == Sample(frame', motion')
<1>3. /\ s \in SampleSet /\ s.frame = frame'
      /\ Shows(s, At(motion', frame' * FrameTicks))
      /\ samples \in Seq(SampleSet) /\ samples # <<>>
      /\ \/ samples' = Append(samples, s)
         \/ /\ samples' = samples
            /\ samples[Len(samples)].x = s.x /\ samples[Len(samples)].zoom = s.zoom
  BY SampleAppended
<1> HIDE DEF s
<1>4. \A i \in 1..Len(samples) : samples[i].frame \in Nat
  <2>1. \A i \in 1..Len(samples) : samples[i] \in SampleSet
    BY <1>3, ElementOfSeq
  <2> QED
    BY <2>1 DEF SampleSet
<1>5. /\ samples' \in Seq(SampleSet) /\ samples' # <<>>
      /\ \A i \in 1..Len(samples') : samples'[i].frame <= frame'
      /\ Shows(samples'[Len(samples')], At(motion', frame' * FrameTicks))
  <2>1. CASE samples' = Append(samples, s)
    <3> DEFINE q == Append(samples, s)
    <3>1. /\ q \in Seq(SampleSet) /\ q # <<>>
          /\ Len(samples) \in Nat /\ Len(q) = Len(samples) + 1
          /\ \A i \in 1..Len(samples) : q[i] = samples[i]
          /\ q[Len(samples) + 1] = s
          /\ \A i \in 1..(Len(samples) + 1) : i \in 1..Len(samples) \/ i = Len(samples) + 1
      BY <1>3, Appended
    <3> HIDE DEF q
    <3>2. ASSUME NEW i \in 1..Len(q) PROVE q[i].frame <= frame'
      <4>1. CASE i \in 1..Len(samples)
        <5>1. q[i] = samples[i] /\ samples[i].frame \in Nat /\ samples[i].frame <= frame
          BY <1>2, <1>4, <3>1, <4>1
        <5> QED
          BY <1>1, <1>2, <5>1
      <4>2. CASE i = Len(samples) + 1
        <5>1. q[i].frame = frame'
          BY <1>3, <3>1, <4>2
        <5> QED
          BY <1>1, <5>1
      <4> QED
        BY <3>1, <4>1, <4>2
    <3>3. Shows(q[Len(q)], At(motion', frame' * FrameTicks))
      BY <1>3, <3>1
    <3>4. samples' = q
      BY <2>1 DEF q
    <3> QED
      BY <3>1, <3>2, <3>3, <3>4
  <2>2. CASE samples' = samples /\ samples[Len(samples)].x = s.x /\ samples[Len(samples)].zoom = s.zoom
    <3>1. \A i \in 1..Len(samples) : samples[i].frame <= frame'
      BY <1>1, <1>2, <1>4
    <3>2. Shows(samples[Len(samples)], At(motion', frame' * FrameTicks))
      BY <1>3, <2>2 DEF Shows
    <3> QED
      BY <1>3, <2>2, <3>1, <3>2
  <2> QED
    BY <1>3, <2>1, <2>2
<1>6. MotionTypes'
  <2>1. event' \in Nat
    BY <1>1
  <2> QED
    BY <1>1, <1>2, <1>5, <2>1 DEF MotionTypes
<1>7. Timely'
  BY <1>1 DEF Timely, MotionInv
<1>8. Looped'
  <2>1. /\ event' \in 2..(Len(keyframes') + 1)
        /\ motion' = MovesOf(keyframes')[event' - 1]
        /\ \A i \in 2..(event' - 1) : keyframes'[i].at <= frame' * FrameTicks
    BY <1>1
  <2>2. frame' <= FinalFrame'
    BY <1>1
  <2> QED
    BY <1>1, <1>5, <2>1, <2>2 DEF Looped
<1> QED
  BY <1>6, <1>7, <1>8 DEF MotionInv

LEMMA MotionNext == MotionInv /\ [FramesNext]_framesVars => MotionInv'
<1> SUFFICES ASSUME MotionInv, [FramesNext]_framesVars PROVE MotionInv'
  OBVIOUS
<1>1. CASE Elapse
  <2>1. /\ phase = "capture" /\ phase' = phase /\ clock' = clock + 1 /\ keyframes' = keyframes
        /\ frame' = frame /\ event' = event /\ motion' = motion /\ samples' = samples
    BY <1>1 DEF Elapse
  <2>2. clock \in Nat /\ \A i \in 1..Len(keyframes) : keyframes[i].at \in Nat
    BY KeyFramesTyped DEF MotionInv, MotionTypes
  <2>3. MotionTypes'
    BY <2>1, <2>2 DEF MotionInv, MotionTypes
  <2>4. Timely'
    <3>1. \A i \in 1..Len(keyframes) : keyframes[i].at <= clock + 1
      BY <2>2 DEF MotionInv, Timely
    <3> QED
      BY <2>1, <3>1 DEF MotionInv, Timely
  <2>5. Looped'
    BY <2>1 DEF MotionInv, Looped
  <2> QED
    BY <2>3, <2>4, <2>5 DEF MotionInv
<1>2. CASE StopCapture
  BY <1>2, StopKeeps
<1>3. CASE SampleFrame
  BY <1>3, SampleFrameKeeps
<1>4. CASE RenderSamples
  <2>1. /\ phase = "sample" /\ phase' = "rendered" /\ clock' = clock /\ keyframes' = keyframes
        /\ frame' = frame /\ event' = event /\ motion' = motion /\ samples' = samples
        /\ frame >= FinalFrame
    BY <1>4 DEF RenderSamples
  <2>2. frame \in Nat /\ FinalFrame \in Nat /\ frame <= FinalFrame /\ FinalFrame' = FinalFrame
    BY <2>1, FinalFrameFacts, FinalFrameStays DEF MotionInv, MotionTypes, Looped
  <2>3. frame = FinalFrame
    BY <2>1, <2>2
  <2>4. MotionTypes' /\ Timely'
    BY <2>1 DEF MotionInv, MotionTypes, Timely
  <2>5. Looped'
    BY <2>1, <2>2, <2>3 DEF MotionInv, Looped
  <2> QED
    BY <2>4, <2>5 DEF MotionInv
<1>5. CASE \E pivot \in Pivots, zoom \in {IdleZoom, ActiveZoom} : TrackCamera(pivot, zoom)
  BY <1>5, TrackCameraKeeps
<1>6. CASE UNCHANGED framesVars
  <2>1. FinalFrame' = FinalFrame
    BY <1>6, FinalFrameStays DEF framesVars
  <2> QED
    BY <1>6, <2>1 DEF framesVars, MotionInv, MotionTypes, Timely, Looped
<1> QED
  BY <1>1, <1>2, <1>3, <1>4, <1>5, <1>6 DEF FramesNext
-----------------------------------------------------------------------------
(* What the render shows.                                                  *)

LEMMA PicturedNext == MotionInv /\ Pictured /\ [FramesNext]_framesVars => Pictured'
<1> SUFFICES ASSUME MotionInv, Pictured, [FramesNext]_framesVars PROVE Pictured'
  OBVIOUS
<1> DEFINE Right(ss, n) ==
      \A i \in 1..Len(ss) :
        ShownAt(ss, i, n) => Shows(ss[i], CameraOf(keyframes, n * FrameTicks))
<1>1. CASE StopCapture
  <2>1. SUFFICES ASSUME keyframes # <<>> PROVE Pictured'
    <3>1. keyframes' = keyframes
      BY <1>1, StopKeeps
    <3> QED
      BY <3>1 DEF Pictured
  <2> DEFINE s == Sample(0, motion')
  <2>2. /\ samples' = <<s>> /\ frame' = 0 /\ keyframes' = keyframes /\ phase' = "sample"
        /\ motion' = Still(keyframes[1].view)
    BY <1>1, <2>1, StopKeeps
  <2>3. keyframes \in Seq(KeyFrameSet) /\ Ordered(keyframes)
    BY DEF MotionInv, MotionTypes, Timely
  <2>4. keyframes[1].view \in Points
    BY <2>1, <2>3, KeyFramesTyped
  <2>5. motion' \in Motions
    BY <2>2, <2>4, StillIsMotion
  <2>6. Shows(s, At(motion', 0 * FrameTicks)) /\ 0 * FrameTicks = 0
    BY <2>5, SampleFacts, KeyFramesAssumption
  <2>7. Shows(s, CameraOf(keyframes, 0))
    BY <2>1, <2>2, <2>3, <2>6, CameraAtZero
  <2> HIDE DEF s
  <2>8. /\ Len(samples') = 1 /\ samples'[1] = s
        /\ \A n \in 0..frame' : n = 0 /\ n * FrameTicks = 0
        /\ \A i \in 1..Len(samples') : i = 1
    BY <2>2, <2>6
  <2>9. \A n \in 0..frame' : \A i \in 1..Len(samples') :
          Shows(samples'[i], CameraOf(keyframes, n * FrameTicks))
    BY <2>7, <2>8
  <2> QED
    BY <2>2, <2>9 DEF Pictured
<1>2. CASE SampleFrame
  <2>1. /\ keyframes # <<>> /\ phase = "sample" /\ phase' = phase /\ keyframes' = keyframes
        /\ frame' = frame + 1 /\ frame' \in Nat
    BY <1>2, RoundOfTheLoop
  <2>2. /\ frame \in Nat
        /\ \A i \in 1..Len(samples) : samples[i].frame <= frame
        /\ \A n \in 0..frame : Right(samples, n)
    BY <2>1 DEF MotionInv, MotionTypes, Looped, Pictured
  <2> DEFINE s == Sample(frame', motion')
             N == Len(samples)
  <2>3. /\ s \in SampleSet /\ s.frame = frame'
        /\ Shows(s, CameraOf(keyframes, frame' * FrameTicks))
        /\ samples \in Seq(SampleSet) /\ samples # <<>>
        /\ \/ samples' = Append(samples, s)
           \/ /\ samples' = samples
              /\ samples[Len(samples)].x = s.x /\ samples[Len(samples)].zoom = s.zoom
    BY <1>2, SampleAppended
  <2> HIDE DEF s
  <2>4. N \in Nat /\ \A i \in 1..N : samples[i].frame \in Nat
    <3>1. N \in Nat /\ \A i \in 1..N : samples[i] \in SampleSet
      BY <2>3, LenProperties, ElementOfSeq
    <3> QED
      BY <3>1 DEF SampleSet
  <2>5. \A n \in 0..frame' : n \in 0..frame \/ n = frame'
    BY <2>1, <2>2
  <2>6. CASE samples' = Append(samples, s)
    <3> DEFINE q == Append(samples, s)
    <3>1. /\ Len(q) = N + 1
          /\ \A i \in 1..N : q[i] = samples[i]
          /\ q[N + 1] = s
          /\ \A i \in 1..(N + 1) : i \in 1..N \/ i = N + 1
      BY <2>3, Appended
    <3> HIDE DEF q
    <3>2. ASSUME NEW n \in 0..frame PROVE Right(q, n)
      <4> SUFFICES ASSUME NEW i \in 1..Len(q), ShownAt(q, i, n)
                   PROVE  Shows(q[i], CameraOf(keyframes, n * FrameTicks))
        OBVIOUS
      <4>1. i # N + 1
        <5>1. SUFFICES ASSUME i = N + 1 PROVE FALSE
          OBVIOUS
        <5>2. N # 0
          BY <2>3, EmptySeq
        <5>3. N \in 1..(i - 1) /\ q[N + 1].frame = frame'
          BY <2>3, <2>4, <3>1, <5>1, <5>2
        <5>4. n >= frame'
          BY <5>3 DEF ShownAt
        <5> QED
          BY <2>1, <2>2, <5>4
      <4>2. i \in 1..N /\ q[i] = samples[i]
        BY <3>1, <4>1
      <4>3. ShownAt(samples, i, n)
        <5>1. i = N \/ n < samples[i + 1].frame
          <6>1. SUFFICES ASSUME i # N PROVE n < samples[i + 1].frame
            OBVIOUS
          <6>2. i + 1 \in 1..N /\ i # Len(q)
            BY <2>4, <3>1, <4>2, <6>1
          <6>3. n < q[i + 1].frame
            BY <6>2 DEF ShownAt
          <6> QED
            BY <3>1, <6>2, <6>3
        <5>2. ASSUME NEW j \in 1..(i - 1) PROVE n >= samples[j + 1].frame
          <6>1. j + 1 \in 1..N
            BY <2>4, <4>2
          <6>2. n >= q[j + 1].frame
            BY DEF ShownAt
          <6> QED
            BY <3>1, <6>1, <6>2
        <5> QED
          BY <5>1, <5>2 DEF ShownAt
      <4> QED
        BY <2>2, <4>2, <4>3
    <3>3. Right(q, frame')
      <4> SUFFICES ASSUME NEW i \in 1..Len(q), ShownAt(q, i, frame')
                   PROVE  Shows(q[i], CameraOf(keyframes, frame' * FrameTicks))
        OBVIOUS
      <4>1. i = N + 1
        <5>1. SUFFICES ASSUME i # N + 1 PROVE FALSE
          OBVIOUS
        <5>2. i + 1 \in 1..(N + 1) /\ i # Len(q)
          BY <2>4, <3>1, <5>1
        <5>3. frame' < q[i + 1].frame
          BY <5>2 DEF ShownAt
        <5>4. q[i + 1].frame \in Nat /\ q[i + 1].frame <= frame'
          BY <2>1, <2>2, <2>3, <2>4, <3>1, <5>2
        <5> QED
          BY <2>1, <5>3, <5>4
      <4> QED
        BY <2>3, <3>1, <4>1
    <3>4. samples' = q
      BY <2>6 DEF q
    <3>5. \A n \in 0..frame' : Right(q, n)
      BY <2>5, <3>2, <3>3
    <3> QED
      BY <2>1, <3>4, <3>5 DEF Pictured
  <2>7. CASE samples' = samples /\ samples[N].x = s.x /\ samples[N].zoom = s.zoom
    <3>1. Right(samples, frame')
      <4> SUFFICES ASSUME NEW i \in 1..N, ShownAt(samples, i, frame')
                   PROVE  Shows(samples[i], CameraOf(keyframes, frame' * FrameTicks))
        OBVIOUS
      <4>1. i = N
        <5>1. SUFFICES ASSUME i # N PROVE FALSE
          OBVIOUS
        <5>2. i + 1 \in 1..N
          BY <2>4, <5>1
        <5>3. frame' < samples[i + 1].frame
          BY <5>1 DEF ShownAt
        <5> QED
          BY <2>1, <2>2, <2>4, <5>2, <5>3
      <4> QED
        BY <2>3, <2>7, <4>1 DEF Shows
    <3>2. \A n \in 0..frame' : Right(samples, n)
      BY <2>2, <2>5, <3>1
    <3> QED
      BY <2>1, <2>7, <3>2 DEF Pictured
  <2> QED
    BY <2>3, <2>6, <2>7
<1>3. CASE RenderSamples
  BY <1>3 DEF RenderSamples, Pictured
<1>4. CASE Elapse \/ \E pivot \in Pivots, zoom \in {IdleZoom, ActiveZoom} : TrackCamera(pivot, zoom)
  <2>1. phase = "capture" /\ phase' = phase
    BY <1>4 DEF Elapse, TrackCamera
  <2> QED
    BY <2>1 DEF Pictured
<1>5. CASE UNCHANGED framesVars
  BY <1>5 DEF framesVars, Pictured
<1> QED
  BY <1>1, <1>2, <1>3, <1>4, <1>5 DEF FramesNext

\* Some sample is shown at every frame.
LEMMA SomeShown ==
  ASSUME NEW S, NEW ss \in Seq(S), ss # <<>>, NEW n \in Nat,
         \A i \in 1..Len(ss) : ss[i].frame \in Int
  PROVE  \E i \in 1..Len(ss) : ShownAt(ss, i, n)
<1>1. Len(ss) \in Nat /\ Len(ss) >= 1
  BY EmptySeq, LenProperties
<1> DEFINE stops(i) == i = Len(ss) \/ n < ss[i + 1].frame
           B == {i \in 1..Len(ss) : stops(i)}
<1>2. Len(ss) \in B /\ B \subseteq Nat
  BY <1>1
<1>3. PICK b \in B : \A i \in B : b <= i
  BY <1>2, LeastNatural
<1>4. ASSUME NEW j \in 1..(b - 1) PROVE n >= ss[j + 1].frame
  <2>1. j \in 1..Len(ss) /\ ~(b <= j) /\ j + 1 \in 1..Len(ss)
    BY <1>1
  <2>2. ~stops(j)
    BY <1>3, <2>1
  <2> QED
    BY <2>1, <2>2
<1> QED
  BY <1>4 DEF ShownAt

LEMMA ShownIs ==
  ASSUME samples \in Seq(SampleSet), samples # <<>>, NEW n \in Nat
  PROVE  \E i \in 1..Len(samples) : ShownAt(samples, i, n) /\ Shown(n) = samples[i]
<1>1. DOMAIN samples = 1..Len(samples) /\ \A i \in 1..Len(samples) : samples[i].frame \in Int
  <2>1. DOMAIN samples = 1..Len(samples) /\ \A i \in 1..Len(samples) : samples[i] \in SampleSet
    BY LenProperties, ElementOfSeq
  <2> QED
    BY <2>1 DEF SampleSet
<1>2. \E i \in DOMAIN samples : ShownAt(samples, i, n)
  BY <1>1, SomeShown
<1> DEFINE shown == CHOOSE i \in DOMAIN samples : ShownAt(samples, i, n)
<1>3. Shown(n) = samples[shown]
  BY DEF Shown, ShownAt
<1>4. shown \in DOMAIN samples /\ ShownAt(samples, shown, n)
  BY <1>2
<1> QED
  BY <1>1, <1>3, <1>4

LEMMA RenderedRight == MotionInv /\ Pictured => RenderFollowsCamera
<1> SUFFICES ASSUME MotionInv, Pictured, phase = "rendered", keyframes # <<>>,
                    NEW n \in 0..LastFrame
             PROVE  Shows(Shown(n), Camera(n * FrameTicks))
  BY DEF RenderFollowsCamera, Shows
<1> DEFINE K == Len(keyframes)
           C(m) == CameraOf(keyframes, m * FrameTicks)
<1>1. /\ clock \in Nat /\ frame \in Nat /\ keyframes \in Seq(KeyFrameSet)
      /\ samples \in Seq(SampleSet) /\ samples # <<>> /\ frame = FinalFrame
      /\ \A i \in 1..Len(samples) : samples[i].frame <= frame
      /\ \A m \in 0..frame : \A i \in 1..Len(samples) :
           ShownAt(samples, i, m) => Shows(samples[i], C(m))
  BY DEF MotionInv, MotionTypes, Looped, Pictured
<1>2. LastFrame \in Nat /\ n \in Nat
  BY <1>1, FinalFrameFacts
<1>3. PICK i \in 1..Len(samples) : ShownAt(samples, i, n) /\ Shown(n) = samples[i]
  BY <1>1, <1>2, ShownIs
<1>4. Camera(n * FrameTicks) = C(n)
  BY CameraIsMove
<1>5. CASE n \in 0..frame
  BY <1>1, <1>3, <1>4, <1>5
<1>6. CASE ~(n \in 0..frame)
  <2>1. PICK e \in Nat : /\ TransitionEnd(keyframes[K].at) = FrameTicks * e
                         /\ FinalFrame <= e /\ (FinalFrame = LastFrame \/ FinalFrame = e)
    BY <1>1, FinalFrameFacts
  <2>2. frame = e /\ n > e
    BY <1>1, <1>2, <1>6, <2>1
  <2>3. FrameTicks * e = e * FrameTicks /\ n * FrameTicks >= e * FrameTicks
        /\ e * FrameTicks \in Nat /\ n * FrameTicks \in Nat
    <3>1. FrameTicks \in Nat
      BY KeyFramesAssumption
    <3>2. n - e \in Nat
      BY <1>2, <2>2
    <3>3. (n - e) * FrameTicks \in Nat /\ (n - e) * FrameTicks = n * FrameTicks - e * FrameTicks
      BY <1>2, <3>1, <3>2
    <3> QED
      BY <1>2, <3>1, <3>3
  <2>4. C(n) = C(e)
    BY <1>1, <2>1, <2>3, CameraRests
  <2>5. \A k \in 1..Len(samples) : samples[k].frame \in Nat
    <3>1. \A k \in 1..Len(samples) : samples[k] \in SampleSet
      BY <1>1, ElementOfSeq
    <3> QED
      BY <3>1 DEF SampleSet
  <2>6. i = Len(samples)
    <3>1. SUFFICES ASSUME i # Len(samples) PROVE FALSE
      OBVIOUS
    <3>2. n < samples[i + 1].frame /\ i + 1 \in 1..Len(samples)
      BY <1>1, <1>3, <3>1, LenProperties DEF ShownAt
    <3> QED
      BY <1>1, <1>2, <2>2, <2>5, <3>2
  <2>7. PICK k \in 1..Len(samples) : ShownAt(samples, k, e)
    <3>1. \A k \in 1..Len(samples) : samples[k].frame \in Int
      BY <2>5
    <3> QED
      BY <1>1, <3>1, SomeShown
  <2>8. k = Len(samples)
    <3>1. SUFFICES ASSUME k # Len(samples) PROVE FALSE
      OBVIOUS
    <3>2. e < samples[k + 1].frame /\ k + 1 \in 1..Len(samples)
      BY <1>1, <2>7, <3>1, LenProperties DEF ShownAt
    <3> QED
      BY <1>1, <2>2, <2>5, <3>2
  <2>9. Shows(samples[k], C(e))
    <3>1. e \in 0..frame
      BY <2>2
    <3> QED
      BY <1>1, <2>7, <3>1
  <2> QED
    BY <1>3, <1>4, <2>4, <2>6, <2>8, <2>9
<1> QED
  BY <1>5, <1>6
-----------------------------------------------------------------------------
(* What a recording costs.                                                 *)

LEMMA FramesIsNat == Frames \in Nat \ {0}
<1> DEFINE a == 2 * Transition + FrameTicks
           c == 2 * FrameTicks
<1>1. a \in Nat /\ c \in Nat \ {0}
  BY KeyFramesAssumption
<1> HIDE DEF a, c
<1>2. a \div c \in Nat
  BY <1>1
<1> QED
  BY <1>2 DEF Frames, a, c

\* Between the start of a move and its end lie no more frames.
LEMMA FramesOfAMove ==
  ASSUME NEW at \in Nat, NEW n \in Nat, NEW e \in Nat,
         TransitionEnd(at) = FrameTicks * e, at <= n * FrameTicks, n <= e
  PROVE  (n * FrameTicks - at) \div FrameTicks + 1 <= Frames
<1> DEFINE F == FrameTicks
           a == 2 * Transition + F
           C == a \div (2 * F)
<1>1. F \in Nat \ {0} /\ Transition \in Nat /\ a \in Nat /\ 2 * F \in Nat \ {0} /\ n * F \in Nat
  BY KeyFramesAssumption
<1>2. PICK f \in Nat \ {0} : /\ TransitionEnd(at) = F * f
                             /\ f * (2 * F) <= 2 * (at + Transition) + F
  BY EndFacts
<1>3. f = e
  <2>1. F * f = F * e
    BY <1>2
  <2>2. (F * f) \div F = f /\ (F * e) \div F = e
    <3>1. f * F = F * f /\ e * F = F * e
      BY <1>1, <1>2
    <3>2. (f * F) \div F = f /\ (e * F) \div F = e
      BY <1>1, <1>2, WholeQuotient
    <3> QED
      BY <3>1, <3>2
  <2> QED
    BY <2>1, <2>2
<1>4. C \in Int /\ a < (C + 1) * (2 * F)
  BY <1>1, QuotientBounds
<1> HIDE DEF a, C
<1>5. n * F - at < (C + 1) * F
  <2>1. n * (2 * F) <= e * (2 * F)
    <3>1. (e - n) \in Nat
      OBVIOUS
    <3>2. (e - n) * (2 * F) >= 0 /\ (e - n) * (2 * F) = e * (2 * F) - n * (2 * F)
      BY <1>1, <3>1
    <3>3. e * (2 * F) \in Int /\ n * (2 * F) \in Int
      BY <1>1
    <3> QED
      BY <3>2, <3>3
  <2>2. n * (2 * F) = 2 * (n * F) /\ (C + 1) * (2 * F) = 2 * ((C + 1) * F) /\ (C + 1) * F \in Int
    BY <1>1, <1>4
  <2>3. e * (2 * F) <= 2 * at + a /\ e * (2 * F) \in Int
    BY <1>1, <1>2, <1>3 DEF a
  <2> QED
    BY <1>1, <1>4, <2>1, <2>2, <2>3
<1>6. (n * F - at) \div F <= C
  <2>1. n * F - at \in Int
    BY <1>1
  <2> QED
    BY <1>1, <1>4, <1>5, <2>1, QuotientBelow
<1>7. (n * F - at) \div F \in Int
  <2>1. n * F - at \in Int
    BY <1>1
  <2> QED
    BY <1>1, <2>1, QuotientIsInt
<1> DEFINE p == (n * F - at) \div F
<1> HIDE DEF p
<1>8. p <= C /\ p \in Int
  BY <1>6, <1>7 DEF p
<1>9. p + 1 <= C + 1
  BY <1>4, <1>8
<1> QED
  BY <1>9 DEF p, Frames, C, a

\* One frame more.
LEMMA NextQuotient ==
  ASSUME NEW at \in Nat, NEW n \in Nat, at <= n * FrameTicks
  PROVE  /\ (n * FrameTicks - at) \div FrameTicks \in Nat
         /\ (n * FrameTicks - at) \div FrameTicks + 1
              <= ((n + 1) * FrameTicks - at) \div FrameTicks
         /\ ((n + 1) * FrameTicks - at) \div FrameTicks \in Nat
<1> DEFINE F == FrameTicks
           p == (n * F - at) \div F
           q == ((n + 1) * F - at) \div F
<1>1. F \in Nat \ {0} /\ n * F \in Nat /\ (n + 1) * F = n * F + F /\ (n + 1) * F \in Nat
  BY KeyFramesAssumption
<1>2. n * F - at \in Int /\ (n + 1) * F - at \in Int
  BY <1>1
<1>3. p \in Int /\ p * F <= n * F - at
  BY <1>1, <1>2, QuotientBounds
<1>4. 0 <= p
  <2>1. 0 * F <= n * F - at
    BY <1>1
  <2> QED
    BY <1>1, <1>2, <2>1, QuotientAbove
<1> HIDE DEF p
<1>5. (p + 1) * F <= (n + 1) * F - at
  <2>1. (p + 1) * F = p * F + F /\ p * F \in Int
    BY <1>1, <1>3
  <2> QED
    BY <1>1, <1>3, <2>1
<1>6. p + 1 <= q /\ p + 1 \in Int /\ q \in Int
  <2>1. p + 1 \in Int
    BY <1>3
  <2>2. p + 1 <= q
    BY <1>1, <1>2, <1>5, <2>1, QuotientAbove
  <2>3. q \in Int
    BY <1>1, <1>2, QuotientIsInt
  <2> QED
    BY <2>1, <2>2, <2>3
<1> HIDE DEF q
<1>7. p \in Nat /\ q \in Nat /\ p + 1 <= q
  BY <1>3, <1>4, <1>6
<1> QED
  BY <1>7 DEF p, q

\* A round of the loop pays for its sample out of the allowance of its move.
LEMMA PricedRound ==
  ASSUME MotionInv, Priced, SampleFrame
  PROVE  Priced'
<1> DEFINE F == FrameTicks
           C == Frames
           K == Len(keyframes)
           L == Len(samples)
           M == Len(samples')
           f == frame'
           j == event
           k == event'
           p == (frame * F - keyframes[j - 1].at) \div F
           q == (f * F - keyframes[k - 1].at) \div F
<1>1. /\ keyframes # <<>> /\ phase = "sample" /\ phase' = phase
      /\ clock' = clock /\ keyframes' = keyframes
      /\ f = frame + 1 /\ f \in Nat /\ f <= FinalFrame /\ FinalFrame' = FinalFrame
      /\ j \in 2..(K + 1) /\ k \in j..(K + 1) /\ k \in 2..(K + 1)
      /\ motion = MovesOf(keyframes)[j - 1] /\ motion' = MovesOf(keyframes)[k - 1]
      /\ motion' \in Motions
      /\ \A i \in 2..(k - 1) : keyframes[i].at <= f * F
  BY RoundOfTheLoop
<1>2. /\ clock \in Nat /\ frame \in Nat /\ keyframes \in Seq(KeyFrameSet) /\ motion \in Motions
      /\ FinalFrame \in Nat /\ frame < FinalFrame
      /\ Shows(samples[L], At(motion, frame * F))
      /\ \A i \in 2..(j - 1) : keyframes[i].at <= frame * F
      /\ IF j = 2 THEN L = 1 ELSE L <= 1 + (j - 3) * C + Lesser(C, p + 1)
      /\ F \in Nat \ {0} /\ C \in Nat \ {0} /\ K \in Nat
  <2>1. clock \in Nat /\ frame \in Nat /\ keyframes \in Seq(KeyFrameSet) /\ motion \in Motions
    BY DEF MotionInv, MotionTypes
  <2>2. FinalFrame \in Nat
    BY <2>1, FinalFrameFacts
  <2>3. frame < FinalFrame
    BY <1>1, <2>1, <2>2
  <2>4. /\ Shows(samples[L], At(motion, frame * F))
        /\ \A i \in 2..(j - 1) : keyframes[i].at <= frame * F
    BY <1>1 DEF MotionInv, Looped
  <2>5. IF j = 2 THEN L = 1 ELSE L <= 1 + (j - 3) * C + Lesser(C, p + 1)
    BY <1>1, <2>3 DEF Priced, FramesSoFar
  <2>6. F \in Nat \ {0} /\ C \in Nat \ {0} /\ K \in Nat
    BY <2>1, FramesIsNat, KeyFramesAssumption, LenProperties
  <2> QED
    BY <2>1, <2>2, <2>3, <2>4, <2>5, <2>6
<1> DEFINE s == Sample(f, motion')
<1>3. /\ Shows(s, At(motion', f * F)) /\ s \in SampleSet
      /\ samples \in Seq(SampleSet)
      /\ samples' = Append(samples, s) \/ samples' = samples
      /\ samples[L].x = s.x /\ samples[L].zoom = s.zoom /\ ~Settled => samples' = samples
  BY SampleAppended
<1>4. L \in Nat /\ M \in Nat /\ L <= M /\ M <= L + 1
  <2>1. L \in Nat /\ Len(Append(samples, s)) = L + 1
    BY <1>3, Appended
  <2> QED
    BY <1>3, <2>1
<1> HIDE DEF s
<1>5. ASSUME At(motion', f * F) = At(motion, frame * F), ~Settled PROVE M = L
  <2>1. samples[L].x = s.x /\ samples[L].zoom = s.zoom
    BY <1>2, <1>3, <1>5 DEF Shows
  <2> QED
    BY <1>3, <1>5, <2>1
<1>6. SUFFICES /\ M <= 1 + (K - 1) * C
               /\ f < FinalFrame => IF k = 2 THEN M = 1 ELSE M <= 1 + (k - 3) * C + Lesser(C, q + 1)
  BY <1>1 DEF Priced, FramesSoFar
<1>7. /\ frame * F \in Nat /\ f * F \in Nat /\ frame * F <= f * F
      /\ \A i \in 1..K : keyframes[i].at \in Nat
  <2>1. frame * F \in Nat /\ f * F \in Nat
    BY <1>1, <1>2
  <2>2. frame * F <= f * F
    <3>1. frame \in Int /\ f \in Int /\ frame <= f /\ F \in Nat
      BY <1>1, <1>2
    <3> QED
      BY <3>1, Monotone
  <2> QED
    BY <1>2, <2>1, <2>2, KeyFramesTyped
<1> HIDE DEF f, j, k, K, L, M, C, F
<1>8. /\ (k - 3) * C \in Int /\ (k - 2) * C = (k - 3) * C + C /\ (k - 2) * C <= (K - 1) * C
      /\ (K - 1) * C \in Int /\ (j - 3) * C \in Int /\ (j - 2) * C = (j - 3) * C + C
      /\ (k - 2) * C \in Int /\ (j - 2) * C \in Int
      /\ j \in Int /\ k \in Int /\ j <= k /\ k <= K + 1 /\ j >= 2 /\ k >= 2
      /\ 0 <= (K - 1) * C
  <2>1. j \in Int /\ k \in Int /\ j <= k /\ k <= K + 1 /\ j >= 2 /\ k >= 2 /\ K >= 1
    BY <1>1, <1>2
  <2>2. (k - 2) * C <= (K - 1) * C /\ (k - 2) * C \in Int /\ (K - 1) * C \in Int
    <3>1. k - 2 \in Int /\ K - 1 \in Int /\ k - 2 <= K - 1
      BY <1>2, <2>1
    <3> QED
      BY <1>2, <3>1, Monotone
  <2>3. /\ (k - 3) * C \in Int /\ (k - 2) * C = (k - 3) * C + C
        /\ (j - 3) * C \in Int /\ (j - 2) * C = (j - 3) * C + C /\ (j - 2) * C \in Int
    BY <1>2, <2>1
  <2>4. 0 <= (K - 1) * C
    <3>1. K - 1 \in Nat
      BY <1>2, <2>1
    <3> QED
      BY <1>2, <3>1
  <2> QED
    BY <2>1, <2>2, <2>3, <2>4
<1>9. ASSUME k # 2 PROVE q \in Nat /\ Lesser(C, q + 1) \in 1..C
  <2>1. k - 1 \in 2..(k - 1) /\ k - 1 \in 1..K
    BY <1>8, <1>9, <1>2
  <2>2. keyframes[k - 1].at \in Nat /\ keyframes[k - 1].at <= f * F
    BY <1>1, <1>7, <2>1 DEF k, f, F
  <2>3. f \in Nat
    BY <1>1 DEF f
  <2>4. q \in Nat
    BY <2>2, <2>3, NextQuotient DEF F
  <2> HIDE DEF q
  <2> QED
    BY <1>2, <2>4 DEF Lesser
<1>10. ASSUME j # 2 PROVE p \in Nat /\ Lesser(C, p + 1) \in 1..C
  <2>1. j - 1 \in 2..(j - 1) /\ j - 1 \in 1..K
    BY <1>2, <1>8, <1>10
  <2>2. keyframes[j - 1].at \in Nat /\ keyframes[j - 1].at <= frame * F
    BY <1>2, <1>7, <2>1 DEF j, F
  <2>3. p \in Nat
    BY <1>2, <2>2, NextQuotient DEF F
  <2> HIDE DEF p
  <2> QED
    BY <1>2, <2>3 DEF Lesser
<1>11. CASE j < k
  <2>1. (j - 2) * C <= (k - 3) * C /\ k # 2
    <3>1. j - 2 \in Int /\ k - 3 \in Int /\ j - 2 <= k - 3 /\ k # 2
      BY <1>8, <1>11
    <3> QED
      BY <1>2, <3>1, Monotone
  <2>2. Lesser(C, q + 1) \in 1..C
    BY <1>9, <2>1
  <2> HIDE DEF p, q
  <2>3. L <= 1 + (k - 3) * C
    <3>1. CASE j = 2
      <4>1. L = 1 /\ (j - 2) * C = 0
        BY <1>2, <3>1
      <4> QED
        BY <1>8, <2>1, <4>1
    <3>2. CASE j # 2
      <4>1. L <= 1 + (j - 3) * C + Lesser(C, p + 1) /\ Lesser(C, p + 1) \in 1..C
        BY <1>2, <1>10, <3>2
      <4> QED
        BY <1>2, <1>4, <1>8, <2>1, <4>1
    <3> QED
      BY <3>1, <3>2
  <2> DEFINE x == Lesser(C, q + 1)
  <2> HIDE DEF x
  <2>4. x \in 1..C
    BY <2>2 DEF x
  <2>5. M <= 1 + (k - 3) * C + x
    BY <1>2, <1>4, <1>8, <2>3, <2>4
  <2>6. M <= 1 + (K - 1) * C
    BY <1>2, <1>4, <1>8, <2>4, <2>5
  <2> QED
    BY <2>1, <2>5, <2>6 DEF x
<1>12. CASE j = k /\ j = 2
  <2>1. motion' = motion /\ motion.end = 0
    BY <1>1, <1>2, <1>12, MovesAreMotions DEF j, k
  <2>2. At(motion', f * F) = At(motion, frame * F)
    <3>1. At(motion, f * F) = motion.to /\ At(motion, frame * F) = motion.to
      <4>1. f * F >= motion.end /\ frame * F >= motion.end
        BY <1>7, <2>1
      <4> QED
        BY <1>2, <1>7, <4>1, AtFacts
    <3> QED
      BY <2>1, <3>1
  <2>3. ~Settled
    BY <1>12 DEF Settled, j, k
  <2>4. M = L /\ L = 1
    BY <1>2, <1>5, <1>12, <2>2, <2>3
  <2> QED
    BY <1>2, <1>8, <1>12, <2>4
<1>13. CASE j = k /\ j # 2
  <2> DEFINE at == keyframes[j - 1].at
  <2>1. j - 1 \in 2..K /\ j - 1 \in 2..(j - 1) /\ j - 1 \in 1..K
    BY <1>2, <1>8, <1>13
  <2>2. at \in Nat /\ at <= frame * F /\ at <= f * F
    <3>1. at \in Nat /\ at <= frame * F
      BY <1>2, <1>7, <2>1 DEF j, F
    <3> HIDE DEF at
    <3> QED
      BY <1>7, <3>1
  <2>3. /\ motion' = motion /\ motion.end = TransitionEnd(at)
    BY <1>1, <1>2, <1>13, <2>1, MovesAreMotions DEF j, k, K
  <2>4. PICK e \in Nat \ {0} : TransitionEnd(at) = F * e
    BY <2>2, EndFacts DEF F
  <2>5. p + 1 <= q /\ p \in Nat /\ q \in Nat
    <3>1. q = ((frame + 1) * F - at) \div F
      BY <1>1, <1>13 DEF f
    <3> QED
      BY <1>2, <2>2, <3>1, NextQuotient DEF F
  <2>6. L <= 1 + (k - 3) * C + Lesser(C, p + 1)
    BY <1>2, <1>13
  <2>7. CASE f <= e
    <3>1. q + 1 <= C
      <4>1. f \in Nat /\ e \in Nat
        BY <1>1 DEF f
      <4>2. q = (f * F - at) \div F
        BY <1>13
      <4> HIDE DEF q, at
      <4>3. (f * FrameTicks - at) \div FrameTicks + 1 <= Frames
        BY <2>2, <2>4, <2>7, <4>1, FramesOfAMove DEF F
      <4> QED
        BY <4>2, <4>3 DEF C, F
    <3> HIDE DEF p, q
    <3>2. Lesser(C, q + 1) = q + 1 /\ Lesser(C, p + 1) = p + 1
      BY <1>2, <2>5, <3>1 DEF Lesser
    <3>3. M <= 1 + (k - 3) * C + (q + 1)
      BY <1>4, <1>8, <2>5, <2>6, <3>2
    <3>4. M <= 1 + (K - 1) * C
      BY <1>2, <1>4, <1>8, <2>5, <3>1, <3>3
    <3> QED
      BY <1>13, <3>2, <3>3, <3>4
  <2>8. CASE ~(f <= e)
    <3>1. At(motion', f * F) = At(motion, frame * F)
      <4>1. F * e <= frame * F /\ F * e \in Nat
        <5>1. e \in Int /\ frame \in Int /\ e <= frame /\ F \in Nat
          BY <1>1, <1>2, <2>8 DEF f
        <5>2. e * F <= frame * F /\ F * e = e * F /\ F * e \in Nat
          BY <5>1, Monotone
        <5> QED
          BY <5>2
      <4>2. frame * F >= motion.end /\ f * F >= motion.end
        BY <1>7, <2>3, <2>4, <4>1
      <4>3. At(motion, f * F) = motion.to /\ At(motion, frame * F) = motion.to
        BY <1>2, <1>7, <4>2, AtFacts
      <4> QED
        BY <2>3, <4>3
    <3>2. CASE ~Settled
      <4>1. M = L
        BY <1>5, <3>1, <3>2
      <4> HIDE DEF p, q
      <4>2. Lesser(C, p + 1) <= Lesser(C, q + 1) /\ Lesser(C, q + 1) \in 1..C
        BY <1>2, <2>5 DEF Lesser
      <4> DEFINE x == Lesser(C, p + 1)
                 y == Lesser(C, q + 1)
      <4>3. x \in Int /\ y \in Int /\ x <= y /\ y <= C
        BY <1>2, <2>5, <4>2 DEF Lesser
      <4> HIDE DEF x, y
      <4>4. L <= 1 + (k - 3) * C + x
        BY <2>6 DEF x
      <4>5. M <= 1 + (k - 3) * C + y /\ M <= 1 + (K - 1) * C
        BY <1>2, <1>4, <1>8, <4>1, <4>3, <4>4
      <4> QED
        BY <1>13, <4>5 DEF y
    <3>3. CASE Settled
      <4>1. f = FinalFrame
        BY <3>3 DEF Settled, f
      <4>2. j - 1 # K
        <5>1. SUFFICES ASSUME j - 1 = K PROVE FALSE
          OBVIOUS
        <5>2. PICK d \in Nat : TransitionEnd(at) = F * d /\ FinalFrame <= d
          BY <1>1, <1>2, <5>1, FinalFrameFacts DEF K, F
        <5>3. e < d /\ F * e = F * d
          BY <1>1, <1>2, <2>4, <2>8, <4>1, <5>2 DEF f
        <5>4. (d - e) * F > 0 /\ (d - e) * F = F * d - F * e /\ F * d \in Int /\ F * e \in Int
          BY <1>2, <5>3
        <5> QED
          BY <5>3, <5>4
      <4> HIDE DEF p, q
      <4>3. (k - 1) * C <= (K - 1) * C /\ (k - 1) * C = (k - 2) * C + C
        <5>1. k - 1 \in Int /\ K - 1 \in Int /\ k - 1 <= K - 1
          BY <1>2, <1>8, <1>13, <4>2
        <5>2. (k - 1) * C <= (K - 1) * C
          BY <1>2, <5>1, Monotone
        <5>3. (k - 1) * C = (k - 2) * C + C
          BY <1>2, <1>8
        <5> QED
          BY <5>2, <5>3
      <4> DEFINE x == Lesser(C, p + 1)
      <4>4. x \in 1..C
        BY <1>10, <1>13
      <4> HIDE DEF x
      <4>5. L <= 1 + (k - 3) * C + x
        BY <2>6 DEF x
      <4>6. M <= 1 + (K - 1) * C
        BY <1>2, <1>4, <1>8, <4>3, <4>4, <4>5
      <4> QED
        BY <1>1, <1>2, <4>1, <4>6 DEF f
    <3> QED
      BY <3>2, <3>3
  <2> QED
    BY <2>7, <2>8
<1> QED
  BY <1>8, <1>11, <1>12, <1>13
-----------------------------------------------------------------------------
(* How moves come to their targets.                                        *)

\* q is between p and the target b, where p is on the side of a.
Approaches(p, q, b) == (p <= q /\ q <= b) \/ (b <= q /\ q <= p)

LEMMA Between ==
  ASSUME NEW a \in Int, NEW b \in Int, NEW c \in Nat \ {0},
         NEW v \in 0..c, NEW w \in 0..c, v <= w
  PROVE  Approaches(a + ((b - a) * v) \div c, a + ((b - a) * w) \div c, b)
<1> DEFINE g == b - a
           p == (g * v) \div c
           q == (g * w) \div c
<1>1. g \in Int /\ g * v \in Int /\ g * w \in Int /\ g * c \in Int
  OBVIOUS
<1>2. (g * c) \div c = g
  BY <1>1, WholeQuotient
<1> HIDE DEF g
<1>3. CASE g >= 0
  <2>1. v * g <= w * g /\ w * g <= c * g
    <3>1. g \in Nat /\ v \in Int /\ w \in Int /\ c \in Int /\ w <= c
      BY <1>1, <1>3
    <3> QED
      BY <3>1, Monotone
  <2>2. g * v <= g * w /\ g * w <= g * c
    BY <1>1, <2>1
  <2>3. p <= q /\ q <= g /\ p \in Int /\ q \in Int
    BY <1>1, <1>2, <2>2, QuotientMonotone
  <2> HIDE DEF p, q
  <2>4. a + p <= a + q /\ a + q <= b
    BY <2>3 DEF g
  <2> QED
    BY <2>4 DEF Approaches, p, q, g
<1>4. CASE ~(g >= 0)
  <2>1. v * (-g) <= w * (-g) /\ w * (-g) <= c * (-g)
    <3>1. -g \in Nat /\ v \in Int /\ w \in Int /\ c \in Int /\ w <= c
      BY <1>1, <1>4
    <3> QED
      BY <3>1, Monotone
  <2>2. g * w <= g * v /\ g * c <= g * w
    <3>1. v * (-g) = -(g * v) /\ w * (-g) = -(g * w) /\ c * (-g) = -(g * c)
      BY <1>1
    <3> QED
      BY <1>1, <2>1, <3>1
  <2>3. q <= p /\ g <= q /\ p \in Int /\ q \in Int
    BY <1>1, <1>2, <2>2, QuotientMonotone
  <2> HIDE DEF p, q
  <2>4. a + q <= a + p /\ b <= a + q
    BY <2>3 DEF g
  <2> QED
    BY <2>4 DEF Approaches, p, q, g
<1> QED
  BY <1>3, <1>4

LEMMA CubesMonotone ==
  ASSUME NEW a \in Nat, NEW b \in Nat, a <= b
  PROVE  a * a * a <= b * b * b /\ a * a * a \in Nat /\ b * b * b \in Nat
<1>1. a * a <= b * b /\ a * a \in Nat /\ b * b \in Nat
  <2>1. a * a <= b * a
    BY Monotone
  <2>2. a * b <= b * b
    BY Monotone
  <2>3. a * b = b * a /\ a * a \in Nat /\ b * b \in Nat /\ a * b \in Nat
    OBVIOUS
  <2> QED
    BY <2>1, <2>2, <2>3
<1> DEFINE p == a * a
           q == b * b
<1>2. p * a <= q * a
  <2>1. p \in Int /\ q \in Int /\ p <= q
    BY <1>1
  <2> HIDE DEF p, q
  <2> QED
    BY <2>1, Monotone
<1>3. a * q <= b * q
  <2>1. q \in Nat
    BY <1>1
  <2> HIDE DEF q
  <2> QED
    BY <2>1, Monotone
<1>4. p \in Nat /\ q \in Nat
  BY <1>1
<1> HIDE DEF p, q
<1>5. p * a \in Nat /\ q * b \in Nat /\ q * a = a * q /\ b * q = q * b /\ q * a \in Nat
  BY <1>4
<1>6. p * a <= q * b
  BY <1>2, <1>3, <1>5
<1> QED
  BY <1>5, <1>6 DEF p, q

\* A move comes closer to its target all the time.
LEMMA AtApproaches ==
  ASSUME NEW m \in Motions, NEW t \in Nat, NEW u \in Nat, t <= u
  PROVE  /\ Approaches(At(m, t).x, At(m, u).x, m.to.x)
         /\ Approaches(At(m, t).zoom, At(m, u).zoom, m.to.zoom)
<1> DEFINE d == m.end - m.start
           goneT == Elapsed(m, t)
           goneU == Elapsed(m, u)
           leftT == d - goneT
           leftU == d - goneU
<1>1. /\ m.from \in Points /\ m.to \in Points /\ m.start \in Nat /\ m.end \in Nat
      /\ m.start <= m.end /\ d \in Nat
  BY DEF Motions
<1>2. /\ goneT \in 0..d /\ goneU \in 0..d /\ goneT <= goneU
      /\ leftT \in 0..d /\ leftU \in 0..d /\ leftU <= leftT
  BY <1>1 DEF Elapsed, Lesser, Greater
<1>3. /\ m.from.x \in Int /\ m.to.x \in Int /\ m.from.zoom \in Int /\ m.to.zoom \in Int
  BY <1>1 DEF Points
<1>4. CASE d = 0
  <2>1. At(m, t) = m.to /\ At(m, u) = m.to
    BY <1>1, <1>4 DEF At
  <2> QED
    BY <1>3, <2>1 DEF Approaches
<1>5. CASE d # 0
  <2> DEFINE c == d * d * d
             v == c - leftT * leftT * leftT
             w == c - leftU * leftU * leftU
             X(i) == m.from.x + ((m.to.x - m.from.x) * i) \div c
             Z(i) == m.from.zoom + ((m.to.zoom - m.from.zoom) * i) \div d
  <2>1. At(m, t) = [x |-> X(v), zoom |-> Z(goneT)] /\ At(m, u) = [x |-> X(w), zoom |-> Z(goneU)]
    BY <1>1, <1>5 DEF At
  <2>2. v \in 0..c /\ w \in 0..c /\ v <= w /\ c \in Nat \ {0} /\ d \in Nat \ {0}
    <3>1. /\ leftU * leftU * leftU <= leftT * leftT * leftT
          /\ leftT * leftT * leftT <= c
          /\ leftT * leftT * leftT \in Nat /\ leftU * leftU * leftU \in Nat
      <4>1. d \in Nat /\ leftT \in Nat /\ leftU \in Nat /\ leftU <= leftT /\ leftT <= d
        BY <1>1, <1>2
      <4> HIDE DEF d, leftT, leftU
      <4> QED
        BY <4>1, CubesMonotone
    <3>2. c \in Nat \ {0} /\ d \in Nat \ {0}
      BY <1>1, <1>5, CubeFacts
    <3> DEFINE y == leftT * leftT * leftT
               z == leftU * leftU * leftU
    <3>3. z <= y /\ y <= c /\ y \in Nat /\ z \in Nat
      BY <3>1
    <3> HIDE DEF c, y, z
    <3>4. c - y \in 0..c /\ c - z \in 0..c /\ c - y <= c - z
      BY <3>2, <3>3
    <3> QED
      BY <3>2, <3>4 DEF y, z
  <2> HIDE DEF v, w, c, d, goneT, goneU
  <2>3. Approaches(X(v), X(w), m.to.x)
    BY <1>3, <2>2, Between
  <2>4. Approaches(Z(goneT), Z(goneU), m.to.zoom)
    BY <1>2, <1>3, <2>2, Between
  <2> HIDE DEF X, Z
  <2> QED
    BY <2>1, <2>3, <2>4
<1> QED
  BY <1>4, <1>5

\* A picture under way comes no frame farther from its target, and is on it in
\* time.
LEMMA PictureSettles ==
  ASSUME MotionInv, Pictured, phase = "rendered", keyframes # <<>>,
         NEW n \in 1..LastFrame, NEW k, k = Latest(n * FrameTicks)
  PROVE  /\ k = Latest(n * FrameTicks - FrameTicks) =>
              /\ Distance(Shown(n).x, keyframes[k].view.x)
                   <= Distance(Shown(n - 1).x, keyframes[k].view.x)
              /\ Distance(Shown(n).zoom, keyframes[k].view.zoom)
                   <= Distance(Shown(n - 1).zoom, keyframes[k].view.zoom)
         /\ \/ k = 1
            \/ 2 * (n * FrameTicks - keyframes[k].at) >= 2 * Transition + FrameTicks
            => /\ Shown(n).x = keyframes[k].view.x
               /\ Shown(n).zoom = keyframes[k].view.zoom
<1> DEFINE u == n * FrameTicks
           t == u - FrameTicks
           mv == MovesOf(keyframes)
           view == keyframes[k].view
<1>1. /\ keyframes \in Seq(KeyFrameSet) /\ clock \in Nat
      /\ LastFrame \in Nat /\ n - 1 \in 0..LastFrame /\ n \in 0..LastFrame
  <2>1. keyframes \in Seq(KeyFrameSet) /\ clock \in Nat
    BY DEF MotionInv, MotionTypes
  <2>2. LastFrame \in Nat
    BY <2>1, FinalFrameFacts
  <2> QED
    BY <2>1, <2>2
<1>2. u \in Nat /\ t \in Nat /\ t <= u /\ t = (n - 1) * FrameTicks
  <2>1. FrameTicks \in Nat /\ n - 1 \in Nat
    BY <1>1, KeyFramesAssumption
  <2>2. (n - 1) * FrameTicks \in Nat /\ (n - 1) * FrameTicks = n * FrameTicks - FrameTicks
    BY <1>1, <2>1
  <2> QED
    BY <1>1, <2>1, <2>2
<1>3. Shows(Shown(n), Camera(u)) /\ Shows(Shown(n - 1), Camera(t))
  <2>1. \A m \in 0..LastFrame : Shows(Shown(m), Camera(m * FrameTicks))
    BY RenderedRight DEF RenderFollowsCamera, Shows
  <2> QED
    BY <1>1, <1>2, <2>1
<1> HIDE DEF u, t
<1>4. k \in 1..Len(keyframes) /\ IsLatest(keyframes, k, u) /\ LatestOf(keyframes, u) = k
  <2>1. PICK i \in 1..Len(keyframes) : IsLatest(keyframes, i, u)
    BY <1>1, <1>2, LatestExists
  <2>2. LatestOf(keyframes, u) = i
    BY <1>1, <1>2, <2>1, LatestIs
  <2>3. k = LatestOf(keyframes, u)
    BY DEF Latest, LatestOf, IsLatest, u
  <2> QED
    BY <2>1, <2>2, <2>3
<1>5. Camera(u) = At(mv[k], u)
  BY <1>4, CameraIsMove DEF CameraOf
<1>6. mv[k] \in Motions /\ mv[k].to = Exact(view) /\ view \in Points
  BY <1>1, <1>4, MovesAreMotions, KeyFramesTyped
<1>7. /\ mv[k].to.x = view.x * Unit /\ mv[k].to.zoom = view.zoom
      /\ view.x \in Int /\ view.zoom \in Int /\ view.x * Unit \in Int
      /\ Rounded(view.x * Unit, Unit) = view.x
  <2>1. view.x \in Int /\ view.zoom \in Int /\ Unit \in Nat
    BY <1>6, KeyFramesAssumption DEF Points
  <2>2. Rounded(view.x * Unit, Unit) = view.x
    BY <2>1, KeyFramesAssumption, RoundedExact
  <2> QED
    BY <1>6, <2>1, <2>2 DEF Exact
<1> HIDE DEF mv, view
<1>8. ASSUME k = Latest(t)
      PROVE  /\ Distance(Shown(n).x, view.x) <= Distance(Shown(n - 1).x, view.x)
             /\ Distance(Shown(n).zoom, view.zoom) <= Distance(Shown(n - 1).zoom, view.zoom)
  <2>1. Camera(t) = At(mv[k], t)
    BY <1>8 DEF Camera, MovesOf, mv
  <2> DEFINE p == At(mv[k], t)
             q == At(mv[k], u)
  <2>2. /\ Approaches(p.x, q.x, view.x * Unit) /\ Approaches(p.zoom, q.zoom, view.zoom)
    BY <1>2, <1>6, <1>7, AtApproaches
  <2>3. p.x \in Int /\ q.x \in Int /\ p.zoom \in Int /\ q.zoom \in Int
    <3>1. p \in Points /\ q \in Points
      BY <1>2, <1>6, AtFacts
    <3> QED
      BY <3>1 DEF Points
  <2>4. /\ Shown(n).x = Rounded(q.x, Unit) /\ Shown(n).zoom = q.zoom
        /\ Shown(n - 1).x = Rounded(p.x, Unit) /\ Shown(n - 1).zoom = p.zoom
    BY <1>3, <1>5, <2>1 DEF Shows
  <2> HIDE DEF p, q
  <2>5. \A i, j, b \in Int : Approaches(i, j, b) => Distance(j, b) <= Distance(i, b)
    BY DEF Approaches, Distance, Greater, Lesser
  <2>6. Approaches(Rounded(p.x, Unit), Rounded(q.x, Unit), view.x)
        /\ Rounded(p.x, Unit) \in Int /\ Rounded(q.x, Unit) \in Int
    <3>1. Unit \in Nat \ {0}
      BY KeyFramesAssumption
    <3>2. CASE p.x <= q.x /\ q.x <= view.x * Unit
      <4>1. /\ Rounded(p.x, Unit) <= Rounded(q.x, Unit)
            /\ Rounded(p.x, Unit) \in Int /\ Rounded(q.x, Unit) \in Int
        BY <2>3, <3>1, <3>2, RoundedMonotone
      <4>2. Rounded(q.x, Unit) <= view.x
        BY <1>7, <2>3, <3>1, <3>2, RoundedMonotone
      <4> QED
        BY <4>1, <4>2 DEF Approaches
    <3>3. CASE view.x * Unit <= q.x /\ q.x <= p.x
      <4>1. /\ Rounded(q.x, Unit) <= Rounded(p.x, Unit)
            /\ Rounded(p.x, Unit) \in Int /\ Rounded(q.x, Unit) \in Int
        BY <2>3, <3>1, <3>3, RoundedMonotone
      <4>2. view.x <= Rounded(q.x, Unit)
        BY <1>7, <2>3, <3>1, <3>3, RoundedMonotone
      <4> QED
        BY <4>1, <4>2 DEF Approaches
    <3> QED
      BY <2>2, <3>2, <3>3 DEF Approaches
  <2>7. Distance(Rounded(q.x, Unit), view.x) <= Distance(Rounded(p.x, Unit), view.x)
    BY <1>7, <2>5, <2>6
  <2>8. Distance(q.zoom, view.zoom) <= Distance(p.zoom, view.zoom)
    BY <1>7, <2>2, <2>3, <2>5
  <2> QED
    BY <2>4, <2>7, <2>8
<1>9. ASSUME k = 1 \/ 2 * (u - keyframes[k].at) >= 2 * Transition + FrameTicks
      PROVE  Shown(n).x = view.x /\ Shown(n).zoom = view.zoom
  <2>1. u >= mv[k].end
    <3>1. CASE k = 1
      BY <1>1, <1>2, <3>1, MovesAreMotions DEF mv
    <3>2. CASE k # 1
      <4>1. k \in 2..Len(keyframes) /\ keyframes[k].at \in Nat
        BY <1>1, <1>4, <3>2, KeyFramesTyped
      <4>2. mv[k].end = TransitionEnd(keyframes[k].at)
        BY <1>1, <4>1, MovesAreMotions DEF mv
      <4>3. PICK e \in Nat \ {0} :
              /\ TransitionEnd(keyframes[k].at) = FrameTicks * e
              /\ e * (2 * FrameTicks) <= 2 * (keyframes[k].at + Transition) + FrameTicks
        BY <4>1, EndFacts
      <4>4. /\ e * (2 * FrameTicks) = 2 * (FrameTicks * e) /\ FrameTicks * e \in Nat
            /\ FrameTicks \in Nat /\ Transition \in Nat
        BY KeyFramesAssumption
      <4> DEFINE at == keyframes[k].at
      <4>5. at \in Nat /\ 2 * (u - at) >= 2 * Transition + FrameTicks
        BY <1>9, <3>2, <4>1
      <4> HIDE DEF at
      <4>6. 2 * (FrameTicks * e) <= 2 * (at + Transition) + FrameTicks
        BY <4>3, <4>4 DEF at
      <4>7. FrameTicks * e <= u
        BY <1>2, <4>4, <4>5, <4>6
      <4> QED
        BY <4>2, <4>3, <4>7
    <3> QED
      BY <3>1, <3>2
  <2>2. At(mv[k], u) = mv[k].to
    BY <1>2, <1>6, <2>1, AtFacts
  <2> QED
    BY <1>3, <1>5, <1>7, <2>2 DEF Shows
<1> QED
  BY <1>8, <1>9 DEF u, t, view
-----------------------------------------------------------------------------
(* How fast moves are.                                                     *)

LEMMA Cancel ==
  ASSUME NEW a \in Int, NEW b \in Int, NEW c \in Nat \ {0}, a * c <= b * c
  PROVE  a <= b
<1> SUFFICES ASSUME b + 1 <= a PROVE FALSE
  OBVIOUS
<1>1. (b + 1) * c <= a * c
  <2>1. b + 1 \in Int /\ c \in Nat
    OBVIOUS
  <2> QED
    BY <2>1, Monotone
<1>2. (b + 1) * c = b * c + c /\ b * c \in Int /\ a * c \in Int
  OBVIOUS
<1> QED
  BY <1>1, <1>2

LEMMA DistanceFacts ==
  \A a, b \in Int :
    /\ Distance(a, b) \in Nat
    /\ Distance(a, b) = Distance(b, a)
    /\ a <= b => Distance(a, b) = b - a
    /\ \A c \in Int : /\ Distance(c + a, c + b) = Distance(a, b)
                      /\ Distance(a, c) <= Distance(a, b) + Distance(b, c)
BY DEF Distance, Greater, Lesser

\* Part of a way of length g, from v to w of c, in whole numbers.
LEMMA PartOfAWay ==
  ASSUME NEW g \in Int, NEW S \in Nat, -S <= g, g <= S, NEW c \in Nat \ {0},
         NEW v \in Nat, NEW w \in Nat, v <= w
  PROVE  (Distance((g * v) \div c, (g * w) \div c) - 1) * c <= S * (w - v)
<1> DEFINE p == (g * v) \div c
           q == (g * w) \div c
<1>1. g * v \in Int /\ g * w \in Int
  OBVIOUS
<1>2. /\ p \in Int /\ p * c <= g * v /\ g * v < (p + 1) * c
      /\ q \in Int /\ q * c <= g * w /\ g * w < (q + 1) * c
  BY <1>1, QuotientBounds
<1> HIDE DEF p, q
<1>3. w - v \in Nat /\ g * (w - v) = g * w - g * v /\ (-g) * (w - v) = g * v - g * w
  OBVIOUS
<1>4. g * (w - v) <= S * (w - v) /\ (-g) * (w - v) <= S * (w - v) /\ S * (w - v) \in Nat
  <2> DEFINE h == w - v
  <2>1. h \in Nat
    BY <1>3
  <2> HIDE DEF h
  <2>2. g * h <= S * h
    BY <2>1, Monotone
  <2>3. (-g) * h <= S * h
    <3>1. -g \in Int /\ -g <= S
      OBVIOUS
    <3> QED
      BY <2>1, <3>1, Monotone
  <2> QED
    BY <2>1, <2>2, <2>3 DEF h
<1>5. CASE p <= q
  <2>1. Distance(p, q) = q - p
    BY <1>2, <1>5, DistanceFacts
  <2>2. (q - p - 1) * c = q * c - (p + 1) * c /\ q * c \in Int /\ (p + 1) * c \in Int
    BY <1>2
  <2>3. (q - p - 1) * c <= g * (w - v)
    BY <1>1, <1>2, <1>3, <2>2
  <2>4. (q - p - 1) * c \in Int /\ g * (w - v) \in Int
    BY <1>2, <1>3
  <2> QED
    BY <1>4, <2>1, <2>3, <2>4 DEF p, q
<1>6. CASE q <= p
  <2>1. Distance(p, q) = p - q
    BY <1>2, <1>6, DistanceFacts
  <2>2. (p - q - 1) * c = p * c - (q + 1) * c /\ p * c \in Int /\ (q + 1) * c \in Int
    BY <1>2
  <2>3. (p - q - 1) * c <= (-g) * (w - v)
    BY <1>1, <1>2, <1>3, <2>2
  <2>4. (p - q - 1) * c \in Int /\ (-g) * (w - v) \in Int
    BY <1>2, <1>3
  <2> QED
    BY <1>4, <2>1, <2>3, <2>4 DEF p, q
<1> QED
  BY <1>2, <1>5, <1>6

LEMMA ProductMonotone ==
  ASSUME NEW a \in Nat, NEW b \in Nat, NEW c \in Nat, NEW d \in Nat, a <= c, b <= d
  PROVE  a * b <= c * d
<1>1. a * b <= c * b
  BY Monotone
<1>2. b * c <= d * c
  BY Monotone
<1>3. b * c = c * b /\ d * c = c * d /\ a * b \in Nat /\ c * b \in Nat /\ c * d \in Nat
  OBVIOUS
<1> QED
  BY <1>1, <1>2, <1>3

\* The cubic curve is steepest where it starts.
LEMMA CubeStep ==
  ASSUME NEW a \in Nat, NEW b \in Nat, NEW d \in Nat, b <= a, a <= d
  PROVE  a * a * a - b * b * b <= (3 * (d * d)) * (a - b)
<1>1. a * a <= d * d /\ a * b <= d * d /\ b * b <= d * d
  BY ProductMonotone
<1> DEFINE s == a * a + a * b + b * b
           r == 3 * (d * d)
           h == a - b
<1>2. s \in Nat /\ r \in Nat /\ h \in Nat
  <2>1. a * a \in Nat /\ a * b \in Nat /\ b * b \in Nat /\ d * d \in Nat
    OBVIOUS
  <2> QED
    BY <2>1
<1>3. s <= r
  <2>1. a * a \in Nat /\ a * b \in Nat /\ b * b \in Nat /\ d * d \in Nat
    OBVIOUS
  <2> QED
    BY <1>1, <2>1
<1>4. a * a * a - b * b * b = s * h
  OBVIOUS
<1>5. s * h <= r * h
  <2> HIDE DEF s, r, h
  <2> QED
    BY <1>2, <1>3, Monotone
<1> QED
  BY <1>4, <1>5

\* From "so much of the way in so many ticks" to a speed that all moves keep.
LEMMA Speed ==
  ASSUME NEW D \in Nat, NEW d \in Nat \ {0}, D <= 2 * d, NEW e \in Int, NEW r \in Nat,
         e * d <= r
  PROVE  D * e <= 2 * r
<1>1. CASE e >= 0
  <2>1. D * e <= (2 * d) * e
    <3>1. e \in Nat /\ 2 * d \in Int
      BY <1>1
    <3> QED
      BY <3>1, Monotone
  <2>2. (2 * d) * e = 2 * (e * d) /\ e * d \in Int /\ D * e \in Int
    OBVIOUS
  <2> QED
    BY <2>1, <2>2
<1>2. CASE ~(e >= 0)
  <2>1. D * (-e) \in Nat
    BY <1>2
  <2>2. D * e = -(D * (-e))
    OBVIOUS
  <2> QED
    BY <2>1, <2>2
<1> QED
  BY <1>1, <1>2

\* What a move of at least D / 2 ticks gets on in a while.
LEMMA MoveSpeed ==
  ASSUME NEW m \in Motions, NEW t \in Nat, NEW u \in Nat, t <= u, NEW D \in Nat,
         m.end = m.start \/ D <= 2 * (m.end - m.start),
         NEW S \in Nat, Distance(m.from.x, m.to.x) <= S,
         NEW Z \in Nat, Distance(m.from.zoom, m.to.zoom) <= Z
  PROVE  /\ D * (Distance(At(m, t).x, At(m, u).x) - 1) <= (6 * S) * (u - t)
         /\ D * (Distance(At(m, t).zoom, At(m, u).zoom) - 1) <= (2 * Z) * (u - t)
<1> DEFINE d == m.end - m.start
           goneT == Elapsed(m, t)
           goneU == Elapsed(m, u)
           leftT == d - goneT
           leftU == d - goneU
           h == goneU - goneT
           k == u - t
<1>1. /\ m.from \in Points /\ m.to \in Points /\ m.start \in Nat /\ m.end \in Nat
      /\ m.start <= m.end /\ d \in Nat
  BY DEF Motions
<1>2. /\ goneT \in 0..d /\ goneU \in 0..d /\ goneT <= goneU
      /\ leftT \in 0..d /\ leftU \in 0..d /\ leftU <= leftT
      /\ h \in Nat /\ h <= k /\ h = leftT - leftU /\ k \in Nat
  BY <1>1 DEF Elapsed, Lesser, Greater
<1>3. /\ m.from.x \in Int /\ m.to.x \in Int /\ m.from.zoom \in Int /\ m.to.zoom \in Int
  BY <1>1 DEF Points
<1>4. CASE d = 0
  <2>1. At(m, t) = m.to /\ At(m, u) = m.to
    BY <1>1, <1>4 DEF At
  <2>2. /\ Distance(m.to.x, m.to.x) - 1 = -1 /\ Distance(m.to.zoom, m.to.zoom) - 1 = -1
    BY <1>3 DEF Distance, Greater, Lesser
  <2>3. D * (-1) <= 0
    OBVIOUS
  <2>4. (6 * S) * k \in Nat /\ (2 * Z) * k \in Nat
    <3>1. 6 * S \in Nat /\ 2 * Z \in Nat /\ k \in Nat
      BY <1>2
    <3> HIDE DEF k
    <3> QED
      BY <3>1
  <2> QED
    BY <2>1, <2>2, <2>3, <2>4
<1>5. CASE d # 0
  <2> DEFINE c == d * d * d
             v == c - leftT * leftT * leftT
             w == c - leftU * leftU * leftU
             gx == m.to.x - m.from.x
             gz == m.to.zoom - m.from.zoom
             X(i) == (gx * i) \div c
             W(i) == (gz * i) \div d
  <2>1. /\ At(m, t).x = m.from.x + X(v) /\ At(m, t).zoom = m.from.zoom + W(goneT)
        /\ At(m, u).x = m.from.x + X(w) /\ At(m, u).zoom = m.from.zoom + W(goneU)
    BY <1>1, <1>5 DEF At
  <2>2. /\ d \in Nat \ {0} /\ D <= 2 * d
        /\ gx \in Int /\ -S <= gx /\ gx <= S
        /\ gz \in Int /\ -Z <= gz /\ gz <= Z
    BY <1>1, <1>3, <1>5 DEF Distance, Greater, Lesser
  <2>3. c \in Nat \ {0} /\ d * d \in Nat \ {0}
    BY <1>1, <1>5, CubeFacts
  <2> DEFINE y == leftT * leftT * leftT
             z == leftU * leftU * leftU
  <2>4. z <= y /\ y <= c /\ y \in Nat /\ z \in Nat /\ y - z <= (3 * (d * d)) * h
    <3>1. d \in Nat /\ leftT \in Nat /\ leftU \in Nat /\ leftU <= leftT /\ leftT <= d
      BY <1>1, <1>2
    <3>2. h = leftT - leftU
      BY <1>2
    <3> HIDE DEF d, leftT, leftU, h
    <3>3. z <= y /\ y <= c /\ y \in Nat /\ z \in Nat
      BY <3>1, CubesMonotone
    <3>4. y - z <= (3 * (d * d)) * (leftT - leftU)
      BY <3>1, CubeStep
    <3> QED
      BY <3>2, <3>3, <3>4
  <2>5. v \in Nat /\ w \in Nat /\ v <= w /\ w - v = y - z
    <3> HIDE DEF c, d, leftT, leftU, h
    <3>1. v = c - y /\ w = c - z
      OBVIOUS
    <3> HIDE DEF y, z, v, w
    <3> QED
      BY <2>3, <2>4, <3>1
  <2>6. c = d * (d * d)
    BY <1>1
  <2> HIDE DEF v, w, y, z, c, gx, gz, goneT, goneU, leftT, leftU, h, k
  <2> DEFINE e == Distance(X(v), X(w)) - 1
             f == Distance(W(goneT), W(goneU)) - 1
  <2>7. e * c <= S * (w - v) /\ f * d <= Z * (goneU - goneT)
    <3>1. goneT \in Nat /\ goneU \in Nat
      BY <1>1, <1>2
    <3> HIDE DEF d
    <3> QED
      BY <1>2, <2>2, <2>3, <2>5, <3>1, PartOfAWay
  <2>8. /\ X(v) \in Int /\ X(w) \in Int /\ W(goneT) \in Int /\ W(goneU) \in Int
        /\ e \in Int /\ f \in Int
    <3>1. gx * v \in Int /\ gx * w \in Int
      BY <2>2, <2>5
    <3>2. gz * goneT \in Int /\ gz * goneU \in Int
      BY <1>1, <1>2, <2>2
    <3>3. X(v) \in Int /\ X(w) \in Int /\ W(goneT) \in Int /\ W(goneU) \in Int
      BY <2>2, <2>3, <3>1, <3>2, QuotientIsInt
    <3>4. \A a, b \in Int : Distance(a, b) - 1 \in Int
      BY DEF Distance, Greater, Lesser
    <3> HIDE DEF X, W
    <3> QED
      BY <3>3, <3>4
  <2>9. /\ Distance(At(m, t).x, At(m, u).x) - 1 = e
        /\ Distance(At(m, t).zoom, At(m, u).zoom) - 1 = f
    <3>1. \A a, b, i \in Int : Distance(i + a, i + b) = Distance(a, b)
      BY DistanceFacts
    <3> HIDE DEF X, W
    <3>2. /\ Distance(m.from.x + X(v), m.from.x + X(w)) = Distance(X(v), X(w))
          /\ Distance(m.from.zoom + W(goneT), m.from.zoom + W(goneU))
               = Distance(W(goneT), W(goneU))
      BY <1>3, <2>8, <3>1
    <3> QED
      BY <2>1, <3>2
  <2>10. h = goneU - goneT /\ h \in Nat /\ h <= k /\ k \in Nat /\ k = u - t
    BY <1>2 DEF h, k
  <2> HIDE DEF X, W, e, f, d
  <2>11. e * d <= 3 * (S * k)
    <3> DEFINE b == d * d
    <3>1. b \in Nat \ {0} /\ d \in Nat \ {0}
      BY <2>2, <2>3
    <3>2. e * (d * b) <= S * ((3 * b) * h)
      <4>1. S * (w - v) <= S * ((3 * b) * h)
        <5> DEFINE p == w - v
                   q == (3 * b) * h
        <5>1. p \in Int /\ q \in Int /\ p <= q
          BY <2>3, <2>4, <2>5, <2>10
        <5>2. p = w - v /\ q = (3 * b) * h
          OBVIOUS
        <5> HIDE DEF p, q
        <5>3. p * S <= q * S /\ p * S = S * p /\ q * S = S * q
          BY <5>1, Monotone
        <5> QED
          BY <5>2, <5>3
      <4>2. S * (w - v) \in Int /\ S * ((3 * b) * h) \in Int /\ e * c \in Int
        BY <2>3, <2>5, <2>8, <2>10
      <4> QED
        BY <2>6, <2>7, <4>1, <4>2
    <3> HIDE DEF b
    <3>3. e * (d * b) = (e * d) * b /\ S * ((3 * b) * h) = (3 * (S * h)) * b
      BY <2>8, <2>10, <3>1
    <3>4. e * d \in Int /\ 3 * (S * h) \in Int
      BY <2>2, <2>8, <2>10
    <3>5. e * d <= 3 * (S * h)
      BY <3>1, <3>2, <3>3, <3>4, Cancel
    <3>6. S * h <= S * k /\ S * h \in Nat /\ S * k \in Nat
      BY <2>10, ProductMonotone
    <3> QED
      BY <3>4, <3>5, <3>6
  <2>12. f * d <= Z * k
    <3>1. Z * h <= Z * k /\ Z * h \in Nat /\ Z * k \in Nat
      BY <2>10, ProductMonotone
    <3>2. f * d <= Z * h
      BY <2>7, <2>10
    <3>3. f * d \in Int
      BY <2>2, <2>8
    <3> QED
      BY <3>1, <3>2, <3>3
  <2>13. 3 * (S * k) \in Nat /\ Z * k \in Nat
    <3>1. S * k \in Nat /\ Z * k \in Nat
      BY <2>10
    <3> QED
      BY <3>1
  <2>14. D * e <= 2 * (3 * (S * k)) /\ D * f <= 2 * (Z * k)
    BY <2>2, <2>8, <2>11, <2>12, <2>13, Speed
  <2>15. 2 * (3 * (S * k)) = (6 * S) * k /\ 2 * (Z * k) = (2 * Z) * k
    BY <2>10
  <2> QED
    BY <2>9, <2>10, <2>14, <2>15
<1> QED
  BY <1>4, <1>5

\* All crops lie in one interval of the length Span.
LEMMA SpanFacts ==
  ASSUME keyframes \in Seq(KeyFrameSet), keyframes # <<>>
  PROVE  /\ Span \in Nat
         /\ \E lo \in Nat : \A k \in 1..Len(keyframes) :
              lo <= keyframes[k].view.x /\ keyframes[k].view.x <= lo + Span
<1> DEFINE xs == {keyframes[k].view.x : k \in DOMAIN keyframes}
           far(d) == /\ \E x, y \in xs : Distance(x, y) = d
                     /\ \A x, y \in xs : Distance(x, y) <= d
           ds == {n \in 0..Width : \E x, y \in xs : Distance(x, y) + n = Width}
<1>1. Width \in Nat /\ DOMAIN keyframes = 1..Len(keyframes) /\ 1 \in DOMAIN keyframes
  BY KeyFramesTyped, KeyFramesAssumption
<1>2. xs \subseteq 0..Width /\ xs # {} /\ xs \subseteq Nat
  <2>1. \A k \in DOMAIN keyframes : keyframes[k].view.x \in 0..Width
    BY <1>1, KeyFramesTyped DEF Views
  <2> QED
    BY <1>1, <2>1
<1> HIDE DEF xs
<1>3. \A x, y \in xs : Distance(x, y) \in 0..Width
  BY <1>1, <1>2 DEF Distance, Greater, Lesser
<1>4. \E d \in 0..Width : far(d)
  <2>1. \A x, y \in xs : Width - Distance(x, y) \in ds
    <3> SUFFICES ASSUME NEW x \in xs, NEW y \in xs PROVE Width - Distance(x, y) \in ds
      OBVIOUS
    <3> DEFINE e == Distance(x, y)
    <3>1. e \in 0..Width
      BY <1>3
    <3>2. Width - e \in 0..Width /\ e + (Width - e) = Width
      <4> HIDE DEF e
      <4> QED
        BY <1>1, <3>1
    <3> QED
      BY <3>2
  <2>2. ds \subseteq Nat /\ ds # {}
    <3>1. PICK x \in xs : TRUE
      BY <1>2
    <3>2. Width - Distance(x, x) \in ds
      BY <2>1
    <3> QED
      BY <3>2
  <2> HIDE DEF ds
  <2>3. PICK n \in ds : \A m \in ds : n <= m
    BY <2>2, LeastNatural
  <2>4. PICK x \in xs, y \in xs : n \in 0..Width /\ Distance(x, y) + n = Width
    BY <2>3 DEF ds
  <2>5. ASSUME NEW i \in xs, NEW j \in xs PROVE Distance(i, j) <= Distance(x, y)
    <3> DEFINE e == Distance(x, y)
               f == Distance(i, j)
    <3>1. e \in 0..Width /\ f \in 0..Width /\ n \in 0..Width
      BY <1>3, <2>4
    <3>2. e + n = Width /\ n <= Width - f
      BY <2>1, <2>3, <2>4
    <3> HIDE DEF e, f
    <3>3. f <= e
      BY <1>1, <3>1, <3>2
    <3> QED
      BY <3>3 DEF e, f
  <2>6. far(Distance(x, y)) /\ Distance(x, y) \in 0..Width
    BY <1>3, <2>4, <2>5
  <2> HIDE DEF far
  <2> QED
    BY <2>6
<1>5. Span \in 0..Width /\ far(Span)
  <2>1. Span = CHOOSE d \in 0..Width : far(d)
    BY DEF Span, xs
  <2> HIDE DEF far
  <2> QED
    BY <1>4, <2>1
<1>6. PICK lo \in xs : \A x \in xs : lo <= x
  BY <1>2, LeastNatural
<1>7. \A x \in xs : lo <= x /\ x <= lo + Span
  <2> SUFFICES ASSUME NEW x \in xs PROVE lo <= x /\ x <= lo + Span
    OBVIOUS
  <2>1. Distance(lo, x) <= Span /\ lo <= x
    BY <1>5, <1>6
  <2>2. Distance(lo, x) = x - lo
    BY <1>2, <1>6, <2>1, DistanceFacts
  <2> QED
    BY <1>1, <1>2, <1>5, <2>1, <2>2
<1>8. Span \in Nat /\ lo \in Nat
  BY <1>1, <1>2, <1>5
<1>9. \A k \in 1..Len(keyframes) : keyframes[k].view.x \in xs
  BY <1>1 DEF xs
<1> QED
  BY <1>7, <1>8, <1>9

\* The point is in the picture whose left edge is among positions lo to hi.
Inside(lo, hi, p) ==
  /\ lo * Unit <= p.x /\ p.x <= hi * Unit
  /\ IdleZoom <= p.zoom /\ p.zoom <= ActiveZoom

LEMMA InsideBetween ==
  ASSUME NEW lo \in Nat, NEW hi \in Nat, NEW p \in Points, NEW q \in Points, NEW b \in Points,
         Inside(lo, hi, p), Inside(lo, hi, b),
         Approaches(p.x, q.x, b.x), Approaches(p.zoom, q.zoom, b.zoom)
  PROVE  Inside(lo, hi, q)
<1> DEFINE l == lo * Unit
           r == hi * Unit
<1>1. l \in Nat /\ r \in Nat /\ Unit \in Nat
  BY KeyFramesAssumption
<1>2. /\ p.x \in Int /\ p.zoom \in Int /\ q.x \in Int /\ q.zoom \in Int
      /\ b.x \in Int /\ b.zoom \in Int
  BY DEF Points
<1>3. l <= q.x /\ q.x <= r
  <2>1. l <= p.x /\ p.x <= r /\ l <= b.x /\ b.x <= r
    BY DEF Inside
  <2> HIDE DEF l, r
  <2> QED
    BY <1>1, <1>2, <2>1 DEF Approaches
<1>4. IdleZoom <= q.zoom /\ q.zoom <= ActiveZoom
  BY <1>1, <1>2 DEF Inside, Approaches, IdleZoom, ActiveZoom
<1> QED
  BY <1>3, <1>4 DEF Inside

LEMMA InsideDistance ==
  ASSUME NEW lo \in Nat, NEW s \in Nat, NEW p \in Points, NEW q \in Points,
         Inside(lo, lo + s, p), Inside(lo, lo + s, q)
  PROVE  Distance(p.x, q.x) <= Unit * s /\ Distance(p.zoom, q.zoom) <= Unit
<1> DEFINE l == lo * Unit
           r == Unit * s
<1>1. l \in Nat /\ r \in Nat /\ Unit \in Nat /\ (lo + s) * Unit = l + r
  BY KeyFramesAssumption
<1>2. /\ p.x \in Int /\ p.zoom \in Int /\ q.x \in Int /\ q.zoom \in Int
  BY DEF Points
<1>3. /\ l <= p.x /\ p.x <= l + r /\ l <= q.x /\ q.x <= l + r
      /\ Unit <= p.zoom /\ p.zoom <= 2 * Unit /\ Unit <= q.zoom /\ q.zoom <= 2 * Unit
  BY <1>1 DEF Inside, IdleZoom, ActiveZoom
<1> HIDE DEF l, r
<1>4. Distance(p.x, q.x) <= r /\ Distance(p.zoom, q.zoom) <= Unit
  BY <1>1, <1>2, <1>3 DEF Distance, Greater, Lesser
<1> QED
  BY <1>4 DEF r

\* However moves interrupt each other, the camera stays among the crops.
LEMMA MovesStayInside ==
  ASSUME NEW kf \in Seq(KeyFrameSet), kf # <<>>, Ordered(kf),
         NEW lo \in Nat, NEW hi \in Nat,
         \A k \in 1..Len(kf) : lo <= kf[k].view.x /\ kf[k].view.x <= hi
  PROVE  \A k \in 1..Len(kf) :
           /\ Inside(lo, hi, MovesOf(kf)[k].from) /\ Inside(lo, hi, MovesOf(kf)[k].to)
           /\ \A u \in Nat : u >= MovesOf(kf)[k].start => Inside(lo, hi, At(MovesOf(kf)[k], u))
<1> DEFINE mv == MovesOf(kf)
           K == Len(kf)
           Good(k) == /\ Inside(lo, hi, mv[k].from)
                      /\ \A u \in Nat : u >= mv[k].start => Inside(lo, hi, At(mv[k], u))
           B == {k \in 1..K : ~Good(k)}
<1>1. K \in Nat /\ K >= 1
  BY KeyFramesTyped
<1>2. \A k \in 1..K : /\ mv[k] \in Motions /\ mv[k].to = Exact(kf[k].view)
                      /\ mv[k].from \in Points /\ mv[k].to \in Points
                      /\ mv[k].start \in Nat /\ mv[k].end \in Nat /\ mv[k].start <= mv[k].end
  BY MovesAreMotions DEF Motions
<1>3. \A k \in 1..K : Inside(lo, hi, mv[k].to)
  <2> SUFFICES ASSUME NEW k \in 1..K PROVE Inside(lo, hi, Exact(kf[k].view))
    BY <1>2
  <2>1. /\ kf[k].view.x \in Nat /\ kf[k].view.zoom \in {IdleZoom, ActiveZoom}
        /\ lo <= kf[k].view.x /\ kf[k].view.x <= hi /\ Unit \in Nat
    BY KeyFramesTyped, KeyFramesAssumption DEF Views
  <2>2. lo * Unit <= kf[k].view.x * Unit /\ kf[k].view.x * Unit <= hi * Unit
    BY <2>1, Monotone
  <2> QED
    BY <2>1, <2>2 DEF Inside, Exact, IdleZoom, ActiveZoom
<1>4. /\ mv[1].end = 0 /\ mv[1].start = 0 /\ mv[1].from = mv[1].to
      /\ \A k \in 2..K : /\ mv[k].from = At(mv[k - 1], kf[k].at)
                         /\ mv[k].start = kf[k].at /\ mv[k].start < mv[k].end
  <2>1. mv[1].end = 0 /\ mv[1].start = 0
    BY <1>1, <1>2, MovesAreMotions
  <2>2. mv[1].from = mv[1].to
    <3>1. MovesOf(kf)[1] = Still(kf[1].view)
      BY MovesOfFacts
    <3>2. mv[1] = Still(kf[1].view)
      BY <3>1
    <3> HIDE DEF mv
    <3> QED
      BY <3>2 DEF Still
  <2>3. \A k \in 2..K : /\ mv[k].from = At(mv[k - 1], kf[k].at)
                        /\ mv[k].start = kf[k].at /\ mv[k].start < mv[k].end
    BY MovesAreMotions
  <2> QED
    BY <2>1, <2>2, <2>3
<1>5. ASSUME NEW k \in 1..K, k # 1 => Good(k - 1) PROVE Good(k)
  <2>1. CASE k = 1
    <3>1. \A u \in Nat : At(mv[1], u) = mv[1].to
      BY <1>1, <1>2, <1>4, AtFacts
    <3> HIDE DEF mv
    <3> QED
      BY <1>3, <1>4, <2>1, <3>1
  <2>2. CASE k # 1
    <3>1. k \in 2..K /\ k - 1 \in 1..K
      BY <1>1, <2>2
    <3>2. kf[k].at \in Nat /\ kf[k].at >= mv[k - 1].start
      <4>1. CASE k - 1 = 1
        BY <1>4, <3>1, <4>1, KeyFramesTyped
      <4>2. CASE k - 1 # 1
        <5>1. k - 1 \in 2..K /\ k - 1 <= k
          BY <1>1, <3>1, <4>2
        <5>2. mv[k - 1].start = kf[k - 1].at
          BY <1>4, <5>1
        <5>3. kf[k - 1].at <= kf[k].at
          BY <3>1, <5>1 DEF Ordered
        <5>4. kf[k - 1].at \in Nat /\ kf[k].at \in Nat
          BY <3>1, KeyFramesTyped
        <5> QED
          BY <5>2, <5>3, <5>4
      <4> QED
        BY <4>1, <4>2
    <3>3. Inside(lo, hi, mv[k].from)
      <4>1. mv[k].from = At(mv[k - 1], kf[k].at)
        BY <1>4, <3>1
      <4>2. Good(k - 1)
        BY <1>5, <2>2
      <4> QED
        BY <3>2, <4>1, <4>2
    <3>4. ASSUME NEW u \in Nat, u >= mv[k].start PROVE Inside(lo, hi, At(mv[k], u))
      <4>1. At(mv[k], mv[k].start) = mv[k].from
        BY <1>2, <1>4, <3>1, AtFacts
      <4>2. /\ Approaches(mv[k].from.x, At(mv[k], u).x, mv[k].to.x)
            /\ Approaches(mv[k].from.zoom, At(mv[k], u).zoom, mv[k].to.zoom)
        <5>1. mv[k] \in Motions /\ mv[k].start \in Nat /\ mv[k].start <= u
          BY <1>2, <3>4
        <5> HIDE DEF mv
        <5> QED
          BY <4>1, <5>1, AtApproaches
      <4>3. At(mv[k], u) \in Points /\ mv[k].from \in Points /\ mv[k].to \in Points
        BY <1>2, AtFacts
      <4>4. Inside(lo, hi, mv[k].to)
        BY <1>3
      <4> HIDE DEF mv
      <4> QED
        BY <3>3, <4>2, <4>3, <4>4, InsideBetween
    <3> QED
      BY <3>3, <3>4
  <2> QED
    BY <2>1, <2>2
<1> HIDE DEF Good
<1>6. B = {}
  <2> SUFFICES ASSUME B # {} PROVE FALSE
    OBVIOUS
  <2>1. B \subseteq Nat
    BY <1>1
  <2>2. PICK k \in B : \A m \in B : k <= m
    BY <2>1, LeastNatural
  <2>3. k \in 1..K /\ ~Good(k)
    BY <2>2
  <2>4. k # 1 /\ ~Good(k - 1)
    BY <1>5, <2>3
  <2>5. k - 1 \in B
    BY <1>1, <2>3, <2>4
  <2> QED
    BY <2>2, <2>3, <2>5
<1>7. \A k \in 1..K : Good(k)
  BY <1>6
<1> QED
  BY <1>3, <1>7 DEF Good

LEMMA AddWays ==
  ASSUME NEW D \in Nat, NEW s \in Nat, NEW a \in Int, NEW b \in Int, NEW c \in Int,
         NEW j \in Int, NEW h \in Int, NEW k \in Int,
         D * (Distance(a, b) - j) <= s * h, D * (Distance(b, c) - 1) <= s * k
  PROVE  D * (Distance(a, c) - (j + 1)) <= s * (h + k)
<1> DEFINE x == Distance(a, b)
           y == Distance(b, c)
           z == Distance(a, c)
<1>1. x \in Nat /\ y \in Nat /\ z \in Nat /\ z <= x + y
  BY DistanceFacts
<1> HIDE DEF x, y, z
<1>2. D * (z - (j + 1)) <= D * ((x - j) + (y - 1))
  <2> DEFINE p == z - (j + 1)
             q == (x - j) + (y - 1)
  <2>1. p \in Int /\ q \in Int /\ p <= q
    BY <1>1
  <2> HIDE DEF p, q
  <2>2. p * D <= q * D /\ p * D = D * p /\ q * D = D * q
    BY <2>1, Monotone
  <2> QED
    BY <2>2 DEF p, q
<1>3. /\ D * ((x - j) + (y - 1)) = D * (x - j) + D * (y - 1)
      /\ s * (h + k) = s * h + s * k
      /\ D * (x - j) \in Int /\ D * (y - 1) \in Int /\ s * h \in Int /\ s * k \in Int
      /\ D * (z - (j + 1)) \in Int
  BY <1>1
<1>4. D * (x - j) <= s * h /\ D * (y - 1) <= s * k
  BY DEF x, y
<1> QED
  BY <1>2, <1>3, <1>4 DEF z

\* No move is more than half a frame shorter than a transition.
LEMMA MovesTakeTime ==
  ASSUME NEW t \in Nat
  PROVE  2 * Transition - FrameTicks <= 2 * (TransitionEnd(t) - t)
<1>1. PICK e \in Nat \ {0} :
        /\ TransitionEnd(t) = FrameTicks * e
        /\ 2 * (t + Transition) + FrameTicks < (e + 1) * (2 * FrameTicks)
  BY EndFacts
<1>2. (e + 1) * (2 * FrameTicks) = 2 * (FrameTicks * e) + 2 * FrameTicks
  BY KeyFramesAssumption
<1>3. FrameTicks * e \in Nat /\ FrameTicks \in Nat /\ Transition \in Nat
  BY KeyFramesAssumption
<1> QED
  BY <1>1, <1>2, <1>3

\* Since time t0, in the course of the moves k0 to k, the camera has come no farther
\* than the curve is steep, and a fraction for every move.
LEMMA MovesTravel ==
  ASSUME NEW kf \in Seq(KeyFrameSet), kf # <<>>, Ordered(kf),
         NEW lo \in Nat, NEW S \in Nat,
         \A k \in 1..Len(kf) : lo <= kf[k].view.x /\ kf[k].view.x <= lo + S,
         NEW t0 \in Nat, NEW k0 \in 1..Len(kf), IsLatest(kf, k0, t0)
  PROVE  \A k \in k0..Len(kf) : \A u \in Nat :
           u >= t0 /\ (k = k0 \/ u >= kf[k].at) =>
             /\ (2 * Transition - FrameTicks)
                  * (Distance(At(MovesOf(kf)[k0], t0).x, At(MovesOf(kf)[k], u).x)
                       - (k - k0 + 1))
                  <= (6 * (Unit * S)) * (u - t0)
             /\ (2 * Transition - FrameTicks)
                  * (Distance(At(MovesOf(kf)[k0], t0).zoom, At(MovesOf(kf)[k], u).zoom)
                       - (k - k0 + 1))
                  <= (2 * Unit) * (u - t0)
<1> DEFINE mv == MovesOf(kf)
           K == Len(kf)
           D == 2 * Transition - FrameTicks
           P(k, t) == At(mv[k], t)
           fast(p, q, j, h) == /\ D * (Distance(p.x, q.x) - j) <= (6 * (Unit * S)) * h
                               /\ D * (Distance(p.zoom, q.zoom) - j) <= (2 * Unit) * h
           Good(k) == \A u \in Nat : u >= t0 /\ (k = k0 \/ u >= kf[k].at) =>
                        fast(P(k0, t0), P(k, u), k - k0 + 1, u - t0)
           B == {k \in k0..K : ~Good(k)}
<1>1. K \in Nat /\ K >= 1 /\ \A k \in 1..K : kf[k].at \in Nat
  BY KeyFramesTyped
<1>2. D \in Nat /\ Unit \in Nat /\ 6 * (Unit * S) \in Nat /\ 2 * Unit \in Nat /\ Unit * S \in Nat
  <2>1. Unit * S \in Nat
    BY KeyFramesAssumption
  <2> QED
    BY <2>1, KeyFramesAssumption
<1>3. \A k \in 1..K : /\ mv[k] \in Motions
                      /\ mv[k].start \in Nat /\ mv[k].end \in Nat
                      /\ mv[k].from \in Points /\ mv[k].to \in Points
                      /\ \A t \in Nat : P(k, t) \in Points
  BY MovesAreMotions, AtFacts DEF Motions
<1>4. ASSUME NEW k \in 1..K
      PROVE  mv[k].end = mv[k].start \/ D <= 2 * (mv[k].end - mv[k].start)
  <2>1. CASE k = 1
    <3>1. mv[1].end = 0 /\ mv[1].start <= mv[1].end /\ mv[1].start \in Nat
      BY <1>1, MovesAreMotions DEF Motions
    <3> QED
      BY <2>1, <3>1
  <2>2. CASE k # 1
    <3>1. k \in 2..K
      BY <1>1, <2>2
    <3>2. mv[k].start = kf[k].at /\ mv[k].end = TransitionEnd(kf[k].at) /\ kf[k].at \in Nat
      BY <1>1, <3>1, MovesAreMotions
    <3> QED
      BY <3>2, MovesTakeTime
  <2> QED
    BY <2>1, <2>2
<1>5. ASSUME NEW k \in 1..K
      PROVE  /\ Distance(mv[k].from.x, mv[k].to.x) <= Unit * S
             /\ Distance(mv[k].from.zoom, mv[k].to.zoom) <= Unit
  <2>1. lo + S \in Nat
    OBVIOUS
  <2>2. Inside(lo, lo + S, mv[k].from) /\ Inside(lo, lo + S, mv[k].to)
    BY <2>1, MovesStayInside
  <2> QED
    BY <1>3, <2>2, InsideDistance
<1>6. ASSUME NEW k \in 1..K, NEW t \in Nat, NEW u \in Nat, t <= u
      PROVE  fast(P(k, t), P(k, u), 1, u - t)
  <2>1. mv[k] \in Motions
    BY <1>3
  <2>2. mv[k].end = mv[k].start \/ D <= 2 * (mv[k].end - mv[k].start)
    BY <1>4
  <2>3. /\ Distance(mv[k].from.x, mv[k].to.x) <= Unit * S
        /\ Distance(mv[k].from.zoom, mv[k].to.zoom) <= Unit
    BY <1>5
  <2> HIDE DEF mv, D
  <2> QED
    BY <1>2, <1>6, <2>1, <2>2, <2>3, MoveSpeed
<1> HIDE DEF fast, P, mv
<1>7. ASSUME NEW k \in k0..K, k # k0 => Good(k - 1) PROVE Good(k)
  <2>0. k \in 1..K /\ k0 \in Nat /\ k \in Nat
    BY <1>1
  <2> SUFFICES ASSUME NEW u \in Nat, u >= t0, k = k0 \/ u >= kf[k].at
               PROVE  fast(P(k0, t0), P(k, u), k - k0 + 1, u - t0)
    OBVIOUS
  <2>1. CASE k = k0
    <3>1. k - k0 + 1 = 1
      BY <2>0, <2>1
    <3> QED
      BY <1>6, <2>1, <3>1
  <2>2. CASE k # k0
    <3> DEFINE at == kf[k].at
    <3>1. /\ k \in 2..K /\ k - 1 \in 1..K /\ k - 1 \in k0..K /\ k \in (k0 + 1)..K
          /\ at \in Nat
      BY <1>1, <2>0, <2>2
    <3>2. t0 < at /\ at <= u
      BY <2>2, <3>1 DEF IsLatest
    <3>3. kf[k - 1].at <= at
      BY <2>0, <3>1 DEF Ordered
    <3>4. fast(P(k0, t0), P(k - 1, at), (k - 1) - k0 + 1, at - t0)
      <4>1. Good(k - 1)
        BY <1>7, <2>2
      <4>2. at >= t0 /\ at >= kf[k - 1].at
        BY <1>1, <3>1, <3>2, <3>3
      <4> HIDE DEF at
      <4> QED
        BY <3>1, <4>1, <4>2
    <3>5. P(k, at) = P(k - 1, at)
      <4>1. /\ mv[k].from = At(mv[k - 1], at) /\ mv[k].start = at
            /\ mv[k].end = TransitionEnd(at) /\ at < TransitionEnd(at)
        BY <3>1, MovesAreMotions DEF mv
      <4>2. At(mv[k], at) = mv[k].from
        BY <1>3, <2>0, <3>1, <4>1, AtFacts
      <4> QED
        BY <4>1, <4>2 DEF P
    <3>6. fast(P(k, at), P(k, u), 1, u - at)
      BY <1>6, <2>0, <3>1, <3>2
    <3> DEFINE p == P(k0, t0)
               q == P(k, at)
               r == P(k, u)
               j == (k - 1) - k0 + 1
               h == at - t0
               i == u - at
    <3>7. /\ p.x \in Int /\ p.zoom \in Int /\ q.x \in Int /\ q.zoom \in Int
          /\ r.x \in Int /\ r.zoom \in Int
      <4>1. p \in Points /\ q \in Points /\ r \in Points
        BY <1>3, <2>0, <3>1
      <4> QED
        BY <4>1 DEF Points
    <3>8. j \in Int /\ h \in Int /\ i \in Int /\ h + i = u - t0 /\ j + 1 = k - k0 + 1
      <4>1. at \in Nat /\ u \in Nat /\ t0 \in Nat
        BY <3>1
      <4> HIDE DEF at
      <4>2. h \in Int /\ i \in Int /\ h + i = u - t0
        BY <4>1
      <4>3. j \in Int /\ j + 1 = k - k0 + 1
        BY <2>0
      <4> QED
        BY <4>2, <4>3
    <3>9. fast(p, q, j, h) /\ fast(q, r, 1, i)
      BY <3>4, <3>5, <3>6
    <3> HIDE DEF p, q, r, j, h, i, D
    <3>10. fast(p, r, j + 1, h + i)
      BY <1>2, <3>7, <3>8, <3>9, AddWays DEF fast
    <3> QED
      BY <3>8, <3>10 DEF p, r
  <2> QED
    BY <2>1, <2>2
<1> HIDE DEF Good
<1>8. B = {}
  <2> SUFFICES ASSUME B # {} PROVE FALSE
    OBVIOUS
  <2>1. B \subseteq Nat
    BY <1>1
  <2>2. PICK k \in B : \A m \in B : k <= m
    BY <2>1, LeastNatural
  <2>3. k \in k0..K /\ ~Good(k)
    BY <2>2
  <2>4. k # k0 /\ ~Good(k - 1)
    BY <1>7, <2>3
  <2>5. k - 1 \in B
    BY <1>1, <2>3, <2>4
  <2> QED
    BY <1>1, <2>2, <2>3, <2>5
<1>9. \A k \in k0..K : Good(k)
  BY <1>8
<1> QED
  BY <1>9 DEF Good, fast, P, mv

\* A whole pixel that is shown is half a pixel off at most.
LEMMA RoundedNear ==
  ASSUME NEW n \in Int, NEW d \in Nat \ {0}
  PROVE  /\ 2 * (d * Rounded(n, d)) - d <= 2 * n
         /\ 2 * n <= 2 * (d * Rounded(n, d)) + d
         /\ Rounded(n, d) \in Int /\ d * Rounded(n, d) \in Int
<1> DEFINE q == n \div d
           r == n % d
<1>1. q \in Int /\ r \in 0..(d - 1) /\ n = d * q + r
  BY Remainders
<1>2. \/ Rounded(n, d) = q + 1 /\ 2 * r >= d
      \/ Rounded(n, d) = q /\ 2 * r <= d
  <2>1. Rounded(n, d) = IF 2 * r > d \/ (2 * r = d /\ q % 2 = 1) THEN q + 1 ELSE q
    BY DEF Rounded
  <2> HIDE DEF q, r
  <2> QED
    BY <1>1, <2>1
<1> HIDE DEF q, r
<1>3. d * (q + 1) = d * q + d /\ d * q \in Int
  BY <1>1
<1> QED
  BY <1>1, <1>2, <1>3

LEMMA RoundedDistance ==
  ASSUME NEW n \in Int, NEW m \in Int, NEW d \in Nat \ {0}
  PROVE  /\ d * (Distance(Rounded(n, d), Rounded(m, d)) - 1) <= Distance(n, m)
         /\ Distance(Rounded(n, d), Rounded(m, d)) \in Nat
<1> DEFINE p == Rounded(n, d)
           q == Rounded(m, d)
           x == d * p
           y == d * q
<1>1. /\ 2 * x - d <= 2 * n /\ 2 * n <= 2 * x + d /\ p \in Int /\ x \in Int
      /\ 2 * y - d <= 2 * m /\ 2 * m <= 2 * y + d /\ q \in Int /\ y \in Int
  BY RoundedNear
<1> HIDE DEF p, q
<1>2. CASE p <= q
  <2>1. Distance(p, q) = q - p
    BY <1>1, <1>2, DistanceFacts
  <2>2. d * (q - p - 1) = y - x - d
    BY <1>1
  <2> HIDE DEF x, y
  <2>3. y - x - d <= Distance(n, m)
    BY <1>1 DEF Distance, Greater, Lesser
  <2> QED
    BY <1>1, <1>2, <2>1, <2>2, <2>3 DEF p, q
<1>3. CASE q <= p
  <2>1. Distance(p, q) = p - q
    BY <1>1, <1>3, DistanceFacts
  <2>2. d * (p - q - 1) = x - y - d
    BY <1>1
  <2> HIDE DEF x, y
  <2>3. x - y - d <= Distance(n, m)
    BY <1>1 DEF Distance, Greater, Lesser
  <2> QED
    BY <1>1, <1>3, <2>1, <2>2, <2>3 DEF p, q
<1> QED
  BY <1>1, <1>2, <1>3

\* In one frame the picture moves no faster than the curve's steepest part.
LEMMA PictureKeepsPace ==
  ASSUME MotionInv, Pictured, phase = "rendered", keyframes # <<>>,
         NEW n \in 1..LastFrame
  PROVE  /\ (2 * Transition - FrameTicks)
              * (Unit * (Distance(Shown(n - 1).x, Shown(n).x) - 1) - MaxFrames)
              <= 6 * FrameTicks * (Unit * Span)
         /\ (2 * Transition - FrameTicks)
              * (Distance(Shown(n - 1).zoom, Shown(n).zoom) - MaxFrames)
              <= 2 * FrameTicks * Unit
<1> DEFINE u == n * FrameTicks
           t == (n - 1) * FrameTicks
           mv == MovesOf(keyframes)
           D == 2 * Transition - FrameTicks
<1>1. /\ keyframes \in Seq(KeyFrameSet) /\ clock \in Nat
      /\ Ordered(keyframes) /\ Len(keyframes) <= MaxFrames
      /\ LastFrame \in Nat /\ n - 1 \in 0..LastFrame /\ n \in 0..LastFrame
  <2>1. /\ keyframes \in Seq(KeyFrameSet) /\ clock \in Nat
        /\ Ordered(keyframes) /\ Len(keyframes) <= MaxFrames
    BY DEF MotionInv, MotionTypes, Timely
  <2>2. LastFrame \in Nat
    BY <2>1, FinalFrameFacts
  <2> QED
    BY <2>1, <2>2
<1>2. u \in Nat /\ t \in Nat /\ t <= u /\ u - t = FrameTicks
  <2>1. FrameTicks \in Nat /\ n - 1 \in Nat
    BY <1>1, KeyFramesAssumption
  <2>2. (n - 1) * FrameTicks \in Nat /\ (n - 1) * FrameTicks = n * FrameTicks - FrameTicks
    BY <1>1, <2>1
  <2> QED
    BY <1>1, <2>1, <2>2
<1>3. Shows(Shown(n), Camera(u)) /\ Shows(Shown(n - 1), Camera(t))
  <2>1. \A m \in 0..LastFrame : Shows(Shown(m), Camera(m * FrameTicks))
    BY RenderedRight DEF RenderFollowsCamera, Shows
  <2> QED
    BY <1>1, <2>1
<1> HIDE DEF u, t
<1>4. PICK k \in 1..Len(keyframes) : IsLatest(keyframes, k, u)
  BY <1>1, <1>2, LatestExists
<1>5. PICK k0 \in 1..Len(keyframes) : IsLatest(keyframes, k0, t)
  BY <1>1, <1>2, LatestExists
<1> DEFINE p == At(mv[k0], t)
           q == At(mv[k], u)
           j == k - k0 + 1
<1>6. Camera(u) = q /\ Camera(t) = p
  <2>1. LatestOf(keyframes, u) = k /\ LatestOf(keyframes, t) = k0
    BY <1>1, <1>2, <1>4, <1>5, LatestIs
  <2> QED
    BY <2>1, CameraIsMove DEF CameraOf
<1>7. /\ p.x \in Int /\ p.zoom \in Int /\ q.x \in Int /\ q.zoom \in Int
  <2>1. mv[k] \in Motions /\ mv[k0] \in Motions
    BY <1>1, MovesAreMotions
  <2>2. p \in Points /\ q \in Points
    <3> HIDE DEF mv
    <3> QED
      BY <1>2, <2>1, AtFacts
  <2> QED
    BY <2>2 DEF Points
<1>8. k \in k0..Len(keyframes) /\ (k = k0 \/ u >= keyframes[k].at)
  <2>1. Len(keyframes) \in Nat /\ \A i \in 1..Len(keyframes) : keyframes[i].at \in Nat
    BY <1>1, KeyFramesTyped
  <2>2. CASE k < k0
    <3>1. k0 \in (k + 1)..Len(keyframes) /\ k0 # 1
      BY <2>1, <2>2
    <3>2. keyframes[k0].at > u /\ keyframes[k0].at <= t
      BY <1>4, <1>5, <3>1 DEF IsLatest
    <3> QED
      BY <1>2, <2>1, <3>2
  <2>3. CASE k >= k0
    <3>1. k \in k0..Len(keyframes) /\ k \in Nat /\ k0 \in Nat
      BY <2>1, <2>3
    <3>2. k = k0 \/ k # 1
      BY <2>3
    <3> QED
      BY <1>4, <3>1, <3>2, <2>1, <1>2 DEF IsLatest
  <2> QED
    BY <2>1, <2>2, <2>3
<1>9. j \in Int /\ j <= MaxFrames
  BY <1>1, <1>8, KeyFramesTyped, KeyFramesAssumption
<1>10. PICK lo \in Nat : \A i \in 1..Len(keyframes) :
         lo <= keyframes[i].view.x /\ keyframes[i].view.x <= lo + Span
  BY <1>1, SpanFacts
<1>11. Span \in Nat
  BY <1>1, SpanFacts
<1>12. /\ D * (Distance(p.x, q.x) - j) <= (6 * (Unit * Span)) * FrameTicks
       /\ D * (Distance(p.zoom, q.zoom) - j) <= (2 * Unit) * FrameTicks
  <2>1. u >= t
    BY <1>2
  <2>2. /\ D * (Distance(p.x, q.x) - (k - k0 + 1)) <= (6 * (Unit * Span)) * (u - t)
        /\ D * (Distance(p.zoom, q.zoom) - (k - k0 + 1)) <= (2 * Unit) * (u - t)
    BY <1>1, <1>2, <1>5, <1>8, <1>10, <1>11, <2>1, MovesTravel
  <2> HIDE DEF p, q, D
  <2> QED
    BY <1>2, <2>2
<1>13. D \in Nat /\ Unit \in Nat \ {0} /\ FrameTicks \in Nat /\ MaxFrames \in Nat
  BY KeyFramesAssumption
<1> DEFINE step == Distance(Shown(n - 1).x, Shown(n).x)
           change == Distance(Shown(n - 1).zoom, Shown(n).zoom)
<1>14. change = Distance(p.zoom, q.zoom) /\ change \in Nat
  BY <1>3, <1>6, <1>7, DistanceFacts DEF Shows
<1>15. Unit * (step - 1) <= Distance(p.x, q.x) /\ step \in Nat /\ Distance(p.x, q.x) \in Nat
  <2>1. Shown(n).x = Rounded(q.x, Unit) /\ Shown(n - 1).x = Rounded(p.x, Unit)
    BY <1>3, <1>6 DEF Shows
  <2> HIDE DEF p, q
  <2>2. /\ Unit * (Distance(Rounded(p.x, Unit), Rounded(q.x, Unit)) - 1) <= Distance(p.x, q.x)
        /\ Distance(Rounded(p.x, Unit), Rounded(q.x, Unit)) \in Nat
    BY <1>7, <1>13, RoundedDistance
  <2>3. Distance(p.x, q.x) \in Nat
    BY <1>7, DistanceFacts
  <2> QED
    BY <2>1, <2>2, <2>3
<1> DEFINE e == Distance(p.x, q.x)
           s == Unit * (step - 1)
<1>16. s \in Int /\ s <= e /\ e \in Nat
  BY <1>13, <1>15
<1> HIDE DEF p, q, j, D, step, change, e, s
<1>17. (s - MaxFrames) * D <= (e - j) * D /\ (change - MaxFrames) * D <= (change - j) * D
  <2>1. /\ s - MaxFrames \in Int /\ e - j \in Int /\ s - MaxFrames <= e - j
        /\ change - MaxFrames \in Int /\ change - j \in Int
        /\ change - MaxFrames <= change - j
    BY <1>9, <1>13, <1>14, <1>16
  <2> QED
    BY <1>13, <2>1, Monotone
<1>18. /\ (s - MaxFrames) * D = D * (s - MaxFrames) /\ (e - j) * D = D * (e - j)
       /\ (change - MaxFrames) * D = D * (change - MaxFrames)
       /\ (change - j) * D = D * (change - j)
       /\ (s - MaxFrames) * D \in Int /\ (e - j) * D \in Int
       /\ (change - MaxFrames) * D \in Int /\ (change - j) * D \in Int
  BY <1>9, <1>13, <1>14, <1>16
<1>19. /\ (6 * (Unit * Span)) * FrameTicks = 6 * FrameTicks * (Unit * Span)
       /\ (2 * Unit) * FrameTicks = 2 * FrameTicks * Unit
       /\ 6 * FrameTicks * (Unit * Span) \in Int /\ 2 * FrameTicks * Unit \in Int
  <2> DEFINE a == Unit * Span
  <2>1. a \in Nat
    BY <1>11, <1>13
  <2> HIDE DEF a
  <2>2. (6 * a) * FrameTicks = 6 * FrameTicks * a /\ 6 * FrameTicks * a \in Int
    BY <1>13, <2>1
  <2>3. (2 * Unit) * FrameTicks = 2 * FrameTicks * Unit /\ 2 * FrameTicks * Unit \in Int
    BY <1>13
  <2> QED
    BY <2>2, <2>3 DEF a
<1>20. D * (s - MaxFrames) <= 6 * FrameTicks * (Unit * Span)
  <2>1. D * (e - j) <= 6 * FrameTicks * (Unit * Span)
    BY <1>12, <1>19 DEF e
  <2> QED
    BY <1>17, <1>18, <1>19, <2>1
<1>21. D * (change - MaxFrames) <= 2 * FrameTicks * Unit
  <2>1. D * (change - j) <= 2 * FrameTicks * Unit
    BY <1>12, <1>14, <1>19
  <2> QED
    BY <1>17, <1>18, <1>19, <2>1
<1> QED
  BY <1>20, <1>21 DEF D, s, step, change

LEMMA PictureGlides == MotionInv /\ Pictured => MovesGlide
<1> SUFFICES ASSUME MotionInv, Pictured, phase = "rendered", keyframes # <<>>,
                    NEW n \in 1..LastFrame, NEW k, k = Latest(n * FrameTicks)
             PROVE  /\ k = Latest(n * FrameTicks - FrameTicks) =>
                         /\ Distance(Shown(n).x, keyframes[k].view.x)
                              <= Distance(Shown(n - 1).x, keyframes[k].view.x)
                         /\ Distance(Shown(n).zoom, keyframes[k].view.zoom)
                              <= Distance(Shown(n - 1).zoom, keyframes[k].view.zoom)
                    /\ \/ k = 1
                       \/ 2 * (n * FrameTicks - keyframes[k].at) >= 2 * Transition + FrameTicks
                       => /\ Shown(n).x = keyframes[k].view.x
                          /\ Shown(n).zoom = keyframes[k].view.zoom
                    /\ (2 * Transition - FrameTicks)
                         * (Unit * (Distance(Shown(n - 1).x, Shown(n).x) - 1) - MaxFrames)
                         <= 6 * FrameTicks * (Unit * Span)
                    /\ (2 * Transition - FrameTicks)
                         * (Distance(Shown(n - 1).zoom, Shown(n).zoom) - MaxFrames)
                         <= 2 * FrameTicks * Unit
  BY DEF MovesGlide
<1> QED
  BY PictureSettles, PictureKeepsPace
-----------------------------------------------------------------------------
(* The theorems.                                                           *)

LEMMA PricedNext == MotionInv /\ Priced /\ [FramesNext]_framesVars => Priced'
<1> SUFFICES ASSUME MotionInv, Priced, [FramesNext]_framesVars PROVE Priced'
  OBVIOUS
<1>1. CASE StopCapture
  <2>1. /\ samples' = <<Sample(0, motion')>> /\ frame' = 0 /\ event' = 2
        /\ keyframes' = keyframes /\ phase' = "sample"
    BY <1>1, StopKeeps
  <2>2. Len(samples') = 1
    BY <2>1
  <2>3. keyframes # <<>> => 1 <= 1 + (Len(keyframes) - 1) * Frames
    <3>1. SUFFICES ASSUME keyframes # <<>> PROVE 1 <= 1 + (Len(keyframes) - 1) * Frames
      OBVIOUS
    <3>2. Len(keyframes) - 1 \in Nat /\ Frames \in Nat
      BY <3>1, FramesIsNat, KeyFramesTyped DEF MotionInv, MotionTypes
    <3>3. (Len(keyframes) - 1) * Frames \in Nat
      BY <3>2
    <3> QED
      BY <3>3
  <2> QED
    BY <2>1, <2>2, <2>3 DEF Priced
<1>2. CASE SampleFrame
  BY <1>2, PricedRound
<1>3. CASE RenderSamples
  <2>1. /\ phase = "sample" /\ keyframes' = keyframes /\ frame' = frame /\ event' = event
        /\ samples' = samples /\ clock' = clock
    BY <1>3 DEF RenderSamples
  <2>2. FinalFrame' = FinalFrame
    BY <2>1, FinalFrameStays
  <2>3. FramesSoFar' = FramesSoFar
    BY <2>1 DEF FramesSoFar
  <2> QED
    BY <2>1, <2>2, <2>3 DEF Priced
<1>4. CASE Elapse \/ \E pivot \in Pivots, zoom \in {IdleZoom, ActiveZoom} : TrackCamera(pivot, zoom)
  <2>1. phase = "capture" /\ phase' = phase
    BY <1>4 DEF Elapse, TrackCamera
  <2> QED
    BY <2>1 DEF Priced
<1>5. CASE UNCHANGED framesVars
  <2>1. FinalFrame' = FinalFrame /\ FramesSoFar' = FramesSoFar
    BY <1>5, FinalFrameStays DEF framesVars, FramesSoFar
  <2> QED
    BY <1>5, <2>1 DEF framesVars, Priced
<1> QED
  BY <1>1, <1>2, <1>3, <1>4, <1>5 DEF FramesNext

LEMMA PricedCosts == MotionInv /\ Priced => RestsCostNothing
<1> SUFFICES ASSUME MotionInv, Priced, phase # "capture"
             PROVE  Len(samples) <= 1 + Greater(0, Len(keyframes) - 1) * Frames
  BY DEF RestsCostNothing, Frames
<1>1. keyframes \in Seq(KeyFrameSet) /\ Frames \in Nat /\ Len(keyframes) \in Nat
  BY FramesIsNat, LenProperties DEF MotionInv, MotionTypes
<1>2. CASE keyframes = <<>>
  <2>1. Len(keyframes) = 0 /\ Len(samples) = 1
    BY <1>2 DEF Priced
  <2>2. Greater(0, Len(keyframes) - 1) = 0
    BY <2>1 DEF Greater
  <2> QED
    BY <1>1, <2>1, <2>2
<1>3. CASE keyframes # <<>>
  <2>1. Len(keyframes) >= 1
    BY <1>1, <1>3, KeyFramesTyped
  <2>2. Greater(0, Len(keyframes) - 1) = Len(keyframes) - 1
    <3>1. \A m \in Nat : Greater(0, m) = m
      BY DEF Greater
    <3>2. Len(keyframes) - 1 \in Nat
      BY <1>1, <2>1
    <3> QED
      BY <3>1, <3>2
  <2> QED
    BY <1>3, <2>2 DEF Priced
<1> QED
  BY <1>2, <1>3

LEMMA MotionInvHolds == FramesSpec => [](MotionInv /\ Pictured /\ Priced)
<1>1. FramesInit => MotionInv /\ Pictured /\ Priced
  BY MotionInit DEF FramesInit, Pictured, Priced
<1>2. MotionInv /\ Pictured /\ Priced /\ [FramesNext]_framesVars => (MotionInv /\ Pictured /\ Priced)'
  BY MotionNext, PicturedNext, PricedNext
<1> QED
  BY <1>1, <1>2, PTL DEF FramesSpec

\* However key frames fall between the frames and interrupt each other, every
\* frame of a saved recording shows the camera that the key frames describe.
THEOREM RecordingFollowsCamera == FramesSpec => []RenderFollowsCamera
BY MotionInvHolds, RenderedRight, PTL

\* However fast key frames follow each other, the picture glides: it comes to rest
\* on its target in time and never jumps, on any display and at any frame rate.
THEOREM RecordingGlides == FramesSpec => []MovesGlide
BY MotionInvHolds, PictureGlides, PTL

\* The samples of a recording are bounded by its moves, not by its length.
THEOREM RecordingIsAffordable == FramesSpec => []RestsCostNothing
BY MotionInvHolds, PricedCosts, PTL
=============================================================================
