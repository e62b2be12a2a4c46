-------------------------- MODULE ShowcaseCameraProofs --------------------------
(***************************************************************************)
(* Theorems about ShowcaseCamera, for any display, any number of pointer,  *)
(* timer and operator threads and any number of activities.                *)
(***************************************************************************)
EXTENDS ShowcaseCamera, FiniteSetTheorems, TLAPS

\* Of the timers that may still send the camera home, only the one that is
\* remembered, and that the last pointer action armed, has the current
\* generation; no timer is ahead of it, and none but it is still counting.
LatestTimer ==
  \A t \in Timers :
    /\ gen[t] <= activity
    /\ pc[t] = "counting" => gen[t] = activity
    /\ pc[t] \in {"counting", "due"} /\ gen[t] = activity => t = timer /\ t = armed

ActiveIsTimed ==
  camera.active =>
    \E t \in Timers : pc[t] \in {"counting", "due"} /\ gen[t] = activity

IInv == TypeOK /\ LatestTimer /\ ActiveIsTimed
-----------------------------------------------------------------------------
LEMMA ThreadFacts ==
  /\ Pointers \subseteq Threads /\ Timers \subseteq Threads /\ Operators \subseteq Threads
  /\ Pointers \cap Timers = {} /\ Operators \cap Timers = {}
  /\ NoTimer \notin Timers
BY CameraAssumption DEF Threads

LEMMA ShotFacts ==
  /\ Home \in Shots /\ ~Home.active
  /\ \A s \in Shots : /\ View(s) \in Shots
                      /\ [s EXCEPT !.active = FALSE] \in Shots
                      /\ ~[s EXCEPT !.active = FALSE].active
  /\ \A x \in -1..Width : [active |-> TRUE, pivot |-> Clamp(x)] \in Shots
<1>1. Width \div 2 \in 0..(Width - 1) /\ 0 \in 0..(Width - 1)
  BY CameraAssumption, SMTT(30)
<1>2. \A x \in -1..Width : Clamp(x) \in 0..(Width - 1)
  BY CameraAssumption DEF Clamp
<1> QED
  BY <1>1, <1>2 DEF Home, Shots, View

LEMMA InitIInv == Init => IInv
<1> SUFFICES ASSUME Init PROVE IInv
  OBVIOUS
<1>1. TypeOK
  <2>1. 0 \in 0..MaxActivity
    BY CameraAssumption
  <2>2. /\ activity \in 0..MaxActivity /\ gen \in [Timers -> 0..MaxActivity]
        /\ pc \in [Threads -> Locations]
    BY <2>1 DEF Init, Locations
  <2>3. /\ camera \in Shots /\ shown \in Shots /\ shot \in [Threads -> Shots]
        /\ framed \in Shots \cup {NoView} /\ timer \in Timers \cup {NoTimer}
    BY ShotFacts DEF Init
  <2> QED
    BY <2>2, <2>3 DEF Init, TypeOK
<1>2. LatestTimer
  BY ThreadFacts DEF Init, LatestTimer
<1>3. ActiveIsTimed
  BY ShotFacts DEF Init, ActiveIsTimed
<1> QED
  BY <1>1, <1>2, <1>3 DEF IInv

\* A thread that is through can only be one that no longer counts.
LEMMA DoneFacts ==
  ASSUME TypeOK, NEW t \in Threads, Done(t)
  PROVE  /\ pc' \in [Threads -> Locations] /\ pc'[t] = "idle"
         /\ \A u \in Threads \ {t} : pc'[u] = pc[u]
         /\ shot' \in [Threads -> Shots]
         /\ gen' \in [Timers -> 0..MaxActivity]
         /\ \A u \in Timers \ {t} : gen'[u] = gen[u]
         /\ \A u \in Timers : gen'[u] \in {0, gen[u]}
BY ShotFacts, CameraAssumption DEF TypeOK, Done, Locations

\* A thread that leaves the camera's timers alone.
LEMMA OthersKeepIInv ==
  ASSUME IInv, TypeOK', UNCHANGED <<camera, activity, timer, armed>>,
         NEW u \in Threads, u \in Timers => pc[u] \notin {"counting", "due"},
         u \in Timers => pc'[u] \notin {"counting", "due"},
         \A t \in Threads \ {u} : pc'[t] = pc[t],
         \A t \in Timers : gen'[t] \in {0, gen[t]} /\ (t # u => gen'[t] = gen[t])
  PROVE  IInv'
<1> USE DEF IInv
<1>1. LatestTimer'
  BY ThreadFacts DEF LatestTimer, TypeOK
<1>2. ActiveIsTimed'
  BY ThreadFacts DEF ActiveIsTimed
<1> QED BY <1>1, <1>2

\* Each activity leaves one timer that counts: its own.
LEMMA FollowKeepsIInv ==
  ASSUME IInv, NEW p \in Pointers, NEW t \in Timers, NEW x \in -1..Width, Follow(p, t, x)
  PROVE  IInv'
<1> USE DEF IInv
<1> DEFINE new == [active |-> TRUE, pivot |-> Clamp(x)]
<1>1. /\ p \in Threads /\ t \in Threads /\ p # t /\ p \notin Timers
      /\ new \in Shots /\ new.active
  BY ThreadFacts, ShotFacts
<1>2. /\ pc[p] = "idle" /\ pc[t] = "idle" /\ activity < MaxActivity
      /\ camera' = new /\ timer' = t /\ activity' = activity + 1 /\ armed' = t
      /\ shot' = [shot EXCEPT ![p] = IF new # camera THEN new ELSE Home]
      /\ UNCHANGED <<capturing, framed, shown>>
  BY DEF Follow, NextActivity
<1>3. /\ pc' \in [Threads -> Locations]
      /\ pc'[p] \in {"track", "idle"} /\ pc'[t] = "counting"
      /\ \A u \in Threads \ {p, t} : u # timer => pc'[u] = pc[u]
      /\ \A u \in Threads \ {p, t} :
           u = timer => pc'[u] = IF pc[u] = "counting" THEN "idle" ELSE pc[u]
  <2>1. pc' = [[u \in Threads |-> IF u = timer THEN CancelTimer(u) ELSE pc[u]]
                 EXCEPT ![t] = "counting",
                        ![p] = IF new # camera THEN "track" ELSE "idle"]
    BY DEF Follow
  <2>2. pc'[p] \in {"track", "idle"} /\ pc'[t] = "counting"
    BY <2>1, <1>1
  <2>3. ASSUME NEW u \in Threads \ {p, t}
        PROVE  pc'[u] = IF u = timer /\ pc[u] = "counting" THEN "idle" ELSE pc[u]
    BY <2>1 DEF CancelTimer
  <2>4. \A u \in Threads : pc'[u] \in Locations
    BY <2>2, <2>3 DEF TypeOK, Locations
  <2> QED
    BY <2>1, <2>2, <2>3, <2>4
<1>4. /\ gen' \in [Timers -> 0..MaxActivity] /\ gen'[t] = activity + 1
      /\ \A u \in Timers \ {t} :
           gen'[u] = IF pc'[u] = "idle" THEN 0 ELSE gen[u]
  <2>1. gen' = [[u \in Timers |-> IF pc'[u] = "idle" THEN 0 ELSE gen[u]]
                 EXCEPT ![t] = TimerGeneration(activity)]
    BY DEF Follow
  <2>2. activity + 1 \in 0..MaxActivity
    BY <1>2, CameraAssumption DEF TypeOK
  <2>3. gen'[t] = activity + 1
    BY <2>1 DEF TimerGeneration, NextActivity
  <2>4. ASSUME NEW u \in Timers \ {t}
        PROVE  gen'[u] = IF pc'[u] = "idle" THEN 0 ELSE gen[u]
    BY <2>1
  <2>5. \A u \in Timers : gen'[u] \in 0..MaxActivity
    BY <2>2, <2>3, <2>4, CameraAssumption DEF TypeOK
  <2> QED
    BY <2>1, <2>3, <2>4, <2>5
<1>5. TypeOK'
  <2>1. shot' \in [Threads -> Shots] /\ crossed' \in BOOLEAN
    BY <1>1, <1>2, ShotFacts DEF TypeOK, Follow, Cross
  <2> QED
    BY <1>1, <1>2, <1>3, <1>4, <2>1, CameraAssumption DEF TypeOK
<1>6. \A u \in Timers \ {t} : pc'[u] # "counting"
  BY <1>1, <1>3, ThreadFacts DEF LatestTimer
<1>7. LatestTimer'
  BY <1>1, <1>2, <1>3, <1>4, <1>6, ThreadFacts DEF LatestTimer, TypeOK
<1>8. ActiveIsTimed'
  BY <1>1, <1>2, <1>3, <1>4 DEF ActiveIsTimed
<1> QED
  BY <1>5, <1>7, <1>8

LEMMA StepIInv == IInv /\ [Next]_vars => IInv'
<1> SUFFICES ASSUME IInv, [Next]_vars PROVE IInv'
  OBVIOUS
<1> USE DEF IInv
<1>1. ASSUME NEW p \in Pointers, NEW t \in Timers, NEW x \in -1..Width, Follow(p, t, x)
      PROVE  IInv'
  BY <1>1, FollowKeepsIInv
<1>2. ASSUME NEW t \in Timers, TimeOut(t) PROVE IInv'
  <2>1. /\ pc' \in [Threads -> Locations] /\ pc'[t] = "due" /\ pc[t] = "counting"
        /\ \A u \in Threads \ {t} : pc'[u] = pc[u]
    BY <1>2, ThreadFacts DEF TimeOut, TypeOK, Locations
  <2>2. TypeOK'
    BY <1>2, <2>1 DEF TimeOut, TypeOK
  <2> QED
    BY <1>2, <2>1, <2>2, ThreadFacts DEF TimeOut, LatestTimer, ActiveIsTimed
<1>3. ASSUME NEW t \in Timers, ReturnToIdle(t) PROVE IInv'
  <2>1. t \in Threads /\ pc[t] = "due" /\ crossed' \in BOOLEAN
        /\ UNCHANGED <<activity, capturing, framed, shown, armed>>
    BY <1>3, ThreadFacts DEF ReturnToIdle, Cross, TypeOK
  <2>2. CASE gen[t] # activity \/ ~camera.active
    <3>1. Done(t) /\ UNCHANGED <<camera, timer>>
      BY <1>3, <2>2 DEF ReturnToIdle
    <3>2. TypeOK'
      BY <2>1, <3>1, DoneFacts DEF TypeOK
    <3>3. LatestTimer'
      BY <2>1, <3>1, DoneFacts, ThreadFacts DEF LatestTimer, TypeOK
    <3>4. ActiveIsTimed'
      BY <2>1, <2>2, <3>1, DoneFacts, ThreadFacts DEF ActiveIsTimed
    <3> QED BY <3>2, <3>3, <3>4
  <2>3. CASE gen[t] = activity /\ camera.active
    <3>1. /\ camera' = [camera EXCEPT !.active = FALSE] /\ timer' = NoTimer
          /\ shot' = [shot EXCEPT ![t] = camera']
          /\ pc' = [pc EXCEPT ![t] = "track"] /\ gen' = gen
      BY <1>3, <2>3 DEF ReturnToIdle
    <3>2. camera' \in Shots /\ ~camera'.active
      BY <3>1, ShotFacts DEF TypeOK
    <3>3. TypeOK'
      BY <2>1, <3>1, <3>2 DEF TypeOK, Locations
    <3>4. LatestTimer'
      BY <2>1, <2>3, <3>1, ThreadFacts DEF LatestTimer, TypeOK
    <3> QED
      BY <3>2, <3>3, <3>4 DEF ActiveIsTimed
  <2> QED BY <2>2, <2>3
<1>4. ASSUME NEW o \in Operators, StartRecording(o) PROVE IInv'
  <2>1. o \in Threads /\ o \notin Timers /\ gen' = gen
        /\ UNCHANGED <<camera, activity, timer, armed>>
        /\ \A t \in Threads \ {o} : pc'[t] = pc[t]
    BY <1>4, ThreadFacts DEF StartRecording, TypeOK
  <2>2. TypeOK'
    BY <1>4, <2>1 DEF StartRecording, Cross, TypeOK, Locations
  <2> QED
    BY <2>1, <2>2, OthersKeepIInv
<1>5. ASSUME NEW o \in Operators, ReadCamera(o) PROVE IInv'
  <2>1. o \in Threads /\ o \notin Timers /\ gen' = gen
        /\ UNCHANGED <<camera, activity, timer, armed>>
        /\ \A t \in Threads \ {o} : pc'[t] = pc[t]
    BY <1>5, ThreadFacts DEF ReadCamera, TypeOK
  <2>2. TypeOK'
    BY <1>5, <2>1 DEF ReadCamera, TypeOK, Locations
  <2> QED
    BY <2>1, <2>2, OthersKeepIInv
<1>6. ASSUME NEW t \in Threads, TrackCamera(t) PROVE IInv'
  <2>1. /\ framed' \in Shots \cup {NoView}
        /\ UNCHANGED <<camera, activity, timer, capturing, shown, crossed, armed>>
        /\ pc[t] = "track"
    BY <1>6, ShotFacts DEF TrackCamera, TypeOK
  <2>2. CASE t \in Operators
    <3>1. Done(t)
      BY <1>6, <2>2 DEF TrackCamera
    <3>2. TypeOK'
      BY <2>1, <3>1, DoneFacts DEF TypeOK
    <3> QED
      BY <2>1, <3>1, <3>2, DoneFacts, OthersKeepIInv, Zenon
  <2>3. CASE t \notin Operators
    <3>1. pc' = [pc EXCEPT ![t] = "emit"] /\ shot' = shot /\ gen' = gen
      BY <1>6, <2>3 DEF TrackCamera
    <3>2. TypeOK'
      BY <2>1, <3>1 DEF TypeOK, Locations
    <3>3. \A u \in Threads \ {t} : pc'[u] = pc[u] /\ pc'[t] = "emit"
      BY <3>1 DEF TypeOK
    <3>4. pc'[t] = "emit"
      BY <3>1 DEF TypeOK
    <3> QED
      BY <2>1, <3>1, <3>2, <3>3, <3>4, OthersKeepIInv
  <2> QED BY <2>2, <2>3
<1>7. ASSUME NEW t \in Threads, EmitShot(t) PROVE IInv'
  <2>1. /\ Done(t) /\ shown' = shot[t] /\ pc[t] = "emit"
        /\ UNCHANGED <<camera, activity, timer, capturing, framed, crossed, armed>>
    BY <1>7 DEF EmitShot
  <2>2. TypeOK'
    BY <2>1, DoneFacts DEF TypeOK
  <2> QED
    BY <2>1, <2>2, DoneFacts, OthersKeepIInv
<1>8. CASE EndRecording
  BY <1>8 DEF EndRecording, TypeOK, LatestTimer, ActiveIsTimed
<1>9. CASE UNCHANGED vars
  BY <1>9 DEF vars, TypeOK, LatestTimer, ActiveIsTimed
<1> QED
  BY <1>1, <1>2, <1>3, <1>4, <1>5, <1>6, <1>7, <1>8, <1>9 DEF Next, Listener
-----------------------------------------------------------------------------
\* The camera, its threads and the recorder's last view always have their types;
\* pivots never leave the display.
THEOREM TypeCorrect == Spec => []TypeOK
<1>1. IInv => TypeOK
  BY DEF IInv
<1> QED
  BY <1>1, InitIInv, StepIInv, PTL DEF Spec

\* However often timers are cancelled too late, one that will send an active
\* camera home remains, and no other one counts.
THEOREM CameraIsTimed == Spec => []ActiveCameraHasItsTimer
<1>1. IInv => ActiveCameraHasItsTimer
  BY DEF IInv, LatestTimer, ActiveIsTimed, ActiveCameraHasItsTimer
<1> QED
  BY <1>1, InitIInv, StepIInv, PTL DEF Spec

\* However late timers are cancelled and whichever threads hold them: the timer
\* that sends the camera home is the one that the last pointer action armed.
THEOREM CameraFollowsForTheTimeout == Spec => FollowedForTheTimeout
<1> DEFINE Kept == camera.active /\ ~camera'.active
                     => armed \in Timers /\ pc[armed] = "due" /\ pc'[armed] # "due"
<1>1. IInv /\ [Next]_vars => [Kept]_vars
  <2> SUFFICES ASSUME IInv, Next, camera.active, ~camera'.active
               PROVE  armed \in Timers /\ pc[armed] = "due" /\ pc'[armed] # "due"
    OBVIOUS
  <2>1. camera' # camera
    OBVIOUS
  <2>2. ASSUME NEW p \in Pointers, NEW t \in Timers, NEW x \in -1..Width, Follow(p, t, x)
        PROVE  camera'.active
    BY <2>2 DEF Follow
  <2>3. PICK t \in Timers : ReturnToIdle(t)
    BY <2>1, <2>2 DEF Next, Listener, TimeOut, StartRecording, ReadCamera, TrackCamera,
                      EmitShot, EndRecording
  <2>4. pc[t] = "due" /\ gen[t] = activity /\ pc' = [pc EXCEPT ![t] = "track"]
    BY <2>1, <2>3 DEF ReturnToIdle
  <2>5. t = armed
    BY <2>4 DEF IInv, LatestTimer
  <2> QED
    BY <2>4, <2>5, ThreadFacts DEF IInv, TypeOK
<1> QED
  BY <1>1, InitIInv, StepIInv, PTL DEF Spec, FollowedForTheTimeout
-----------------------------------------------------------------------------
(* The recording shows the same.  While no two threads passed shots on at   *)
(* the same time, whoever passes one has the camera's state, and what it    *)
(* has not told yet is what recorder and observers do not know.             *)

OneAtATime == \A t, u \in Passing : t = u

\* Recorder and observers know the camera's state but for the thread on its way.
Told ==
  /\ \A t \in Passing : pc[t] \in {"track", "emit"} => shot[t] = camera
  /\ Passing \subseteq Operators => shown = camera
  /\ capturing /\ (\A t \in Passing : pc[t] = "emit") => framed = View(camera)

\* Operators read the camera and send no event.
Places ==
  /\ IsFiniteSet(Passing)
  /\ \A t \in Threads : /\ pc[t] = "read" => t \in Operators
                        /\ pc[t] = "emit" => t \notin Operators

PassInv == Places /\ (crossed \/ (OneAtATime /\ Told))

LEMMA InitPass == Init => PassInv
<1> SUFFICES ASSUME Init PROVE PassInv
  OBVIOUS
<1>1. Passing = {}
  BY DEF Init, Passing
<1>2. Places
  BY <1>1, FS_EmptySet DEF Init, Places
<1> QED
  BY <1>1, <1>2 DEF Init, PassInv, OneAtATime, Told

\* A step by which one thread at most sets out.
LEMMA CrossFacts ==
  ASSUME Places, NEW t, Passing' \subseteq Passing \cup {t}
  PROVE  /\ IsFiniteSet(Passing')
         /\ Cross /\ ~crossed' => ~crossed /\ OneAtATime'
<1>1. IsFiniteSet(Passing')
  BY FS_AddElement, FS_Subset DEF Places
<1>2. ASSUME Cross, ~crossed' PROVE ~crossed /\ OneAtATime'
  <2>1. ~crossed /\ ~(Cardinality(Passing') > 1)
    BY <1>2 DEF Cross
  <2>2. Cardinality(Passing') \in Nat
    BY <1>1, FS_CardinalityType
  <2>3. CASE Cardinality(Passing') = 0
    BY <1>1, <2>1, <2>3, FS_EmptySet DEF OneAtATime
  <2>4. CASE Cardinality(Passing') = 1
    <3>1. \E x : Passing' = {x}
      BY <1>1, <2>4, FS_Singleton
    <3> QED
      BY <2>1, <3>1 DEF OneAtATime
  <2> QED
    BY <2>1, <2>2, <2>3, <2>4
<1> QED
  BY <1>1, <1>2

\* A step that changes one thread that is not passing, and leaves what the
\* others pass on.
LEMMA FollowPass ==
  ASSUME IInv, PassInv, NEW p \in Pointers, NEW t \in Timers, NEW x \in -1..Width,
         Follow(p, t, x)
  PROVE  PassInv'
<1> DEFINE new == [active |-> TRUE, pivot |-> Clamp(x)]
<1>1. /\ p \in Threads /\ t \in Threads /\ p # t /\ p \notin Operators
      /\ t \notin Operators
  BY ThreadFacts, CameraAssumption DEF Threads
<1>2. /\ pc[p] = "idle" /\ pc[t] = "idle" /\ camera' = new
      /\ shot' = [shot EXCEPT ![p] = IF new # camera THEN new ELSE Home]
      /\ UNCHANGED <<capturing, framed, shown>> /\ Cross
      /\ pc' = [[u \in Threads |-> IF u = timer THEN CancelTimer(u) ELSE pc[u]]
                 EXCEPT ![t] = "counting",
                        ![p] = IF new # camera THEN "track" ELSE "idle"]
  BY DEF Follow
<1>3. /\ pc'[p] = IF new # camera THEN "track" ELSE "idle"
      /\ pc'[t] = "counting"
  BY <1>1, <1>2
<1>4. \A u \in Threads \ {p, t} :
        pc'[u] = IF u = timer /\ pc[u] = "counting" THEN "idle" ELSE pc[u]
  BY <1>2 DEF CancelTimer
<1> HIDE DEF new
<1>5. /\ Passing' = IF new # camera THEN Passing \cup {p} ELSE Passing
      /\ p \notin Passing /\ t \notin Passing
      /\ \A u \in Passing : pc'[u] = pc[u] /\ shot'[u] = shot[u]
  <2>1. p \notin Passing /\ t \notin Passing
    BY <1>2 DEF Passing
  <2>2. \A u \in Threads \ {p, t} : u \in Passing' <=> u \in Passing
    BY <1>4 DEF Passing
  <2>3. t \notin Passing' /\ (p \in Passing' <=> new # camera)
    BY <1>1, <1>3 DEF Passing
  <2>4. Passing' \subseteq Threads /\ Passing \subseteq Threads
    BY DEF Passing
  <2>5. Passing' = IF new # camera THEN Passing \cup {p} ELSE Passing
    BY <1>1, <2>1, <2>2, <2>3, <2>4
  <2>6. ASSUME NEW u \in Passing PROVE pc'[u] = pc[u] /\ shot'[u] = shot[u]
    <3>1. u \in Threads \ {p, t} /\ pc[u] # "counting"
      BY <2>1, <2>4 DEF Passing
    <3> QED
      BY <1>2, <1>4, <3>1 DEF IInv, TypeOK
  <2> QED
    BY <2>1, <2>5, <2>6
<1>6. Passing' \subseteq Passing \cup {p}
  BY <1>5
<1>7. Places'
  <2>1. \A u \in Threads : pc'[u] \in {"read", "emit"} => pc'[u] = pc[u]
    BY <1>3, <1>4
  <2> QED
    BY <1>6, <2>1, CrossFacts DEF PassInv, Places
<1>8. ASSUME ~crossed' PROVE OneAtATime' /\ Told'
  <2>1. ~crossed /\ OneAtATime'
    BY <1>2, <1>6, <1>8, CrossFacts DEF PassInv
  <2>2. Told
    BY <2>1 DEF PassInv
  <2>3. CASE new = camera
    <3>1. Passing' = Passing /\ camera' = camera /\ View(camera)' = View(camera)
      BY <1>2, <1>5, <2>3 DEF View
    <3>2. \A u \in Passing' : pc'[u] = pc[u] /\ shot'[u] = shot[u]
      BY <1>5, <3>1
    <3> QED
      BY <1>2, <2>1, <2>2, <3>1, <3>2 DEF Told
  <2>4. CASE new # camera
    <3>1. Passing' = {p}
      BY <1>5, <2>1, <2>4 DEF OneAtATime
    <3>2. shot'[p] = camera' /\ pc'[p] = "track"
      BY <1>1, <1>2, <1>3, <2>4 DEF IInv, TypeOK
    <3> QED
      BY <1>1, <2>1, <3>1, <3>2, Zenon DEF Told
  <2> QED
    BY <2>1, <2>3, <2>4
<1> QED
  BY <1>7, <1>8 DEF PassInv

\* A step of one thread that is not a pointer's first one.
LEMMA OnePasses ==
  ASSUME Places, NEW t \in Threads,
         \A u \in Threads \ {t} : pc'[u] = pc[u],
         pc'[t] \in Locations,
         pc'[t] = "read" => t \in Operators, pc'[t] = "emit" => t \notin Operators,
         Cross \/ (crossed' = crossed /\ pc[t] \in {"read", "track", "emit"})
  PROVE  /\ Places'
         /\ PassInv /\ ~crossed' => ~crossed /\ OneAtATime' /\ Told
         /\ PassInv /\ ~crossed' /\ t \in Passing' => Passing' = {t}
         /\ PassInv /\ ~crossed' /\ t \in Passing => Passing = {t}
         /\ t \notin Passing' => Passing' = Passing \ {t}
         /\ t \in Passing' => Passing' = Passing \cup {t}
<1>1. \A u \in Threads \ {t} : u \in Passing' <=> u \in Passing
  BY DEF Passing
<1>2. Passing \subseteq Threads /\ Passing' \subseteq Threads
  BY DEF Passing
<1>3. /\ t \notin Passing' => Passing' = Passing \ {t}
      /\ t \in Passing' => Passing' = Passing \cup {t}
  BY <1>1, <1>2
<1>4. Passing' \subseteq Passing \cup {t}
  BY <1>3
<1>5. Places'
  BY <1>4, CrossFacts DEF Places
<1>6. ASSUME PassInv, ~crossed' PROVE ~crossed /\ OneAtATime' /\ Told
  <2>1. CASE Cross
    BY <1>4, <1>6, <2>1, CrossFacts DEF PassInv
  <2>2. CASE crossed' = crossed /\ pc[t] \in {"read", "track", "emit"}
    <3>1. Passing' \subseteq Passing
      BY <1>4, <2>2 DEF Passing
    <3> QED
      BY <1>6, <2>2, <3>1 DEF PassInv, OneAtATime
  <2> QED
    BY <2>1, <2>2
<1>7. ASSUME PassInv, ~crossed', t \in Passing' PROVE Passing' = {t}
  BY <1>6, <1>7 DEF OneAtATime
<1>8. ASSUME PassInv, ~crossed', t \in Passing PROVE Passing = {t}
  BY <1>6, <1>8 DEF PassInv, OneAtATime
<1> QED
  BY <1>3, <1>5, <1>6, <1>7, <1>8
LEMMA StepPass == IInv /\ PassInv /\ [Next]_vars => PassInv'
<1> SUFFICES ASSUME IInv, PassInv, [Next]_vars PROVE PassInv'
  OBVIOUS
<1>1. TypeOK /\ TypeOK' /\ Places
  BY StepIInv DEF IInv, PassInv
<1>2. ASSUME NEW p \in Pointers, NEW t \in Timers, NEW x \in -1..Width, Follow(p, t, x)
      PROVE  PassInv'
  BY <1>2, FollowPass
<1>3. ASSUME NEW t \in Timers, TimeOut(t) PROVE PassInv'
  <2>1. /\ pc[t] = "counting" /\ pc' = [pc EXCEPT ![t] = "due"]
        /\ UNCHANGED <<camera, shot, capturing, framed, shown, crossed>>
    BY <1>3 DEF TimeOut
  <2>2. Passing' = Passing
    BY <1>1, <2>1 DEF Passing, TypeOK
  <2>3. \A u \in Threads : pc'[u] \in {"read", "emit", "track"} => pc'[u] = pc[u]
    BY <1>1, <2>1 DEF TypeOK
  <2>4. Places' /\ (OneAtATime => OneAtATime')
    BY <1>1, <2>2, <2>3 DEF Places, OneAtATime
  <2>5. \A u \in Passing' : u \in Threads /\ pc'[u] = pc[u]
    BY <2>3 DEF Passing
  <2>6. Told => Told'
    BY <2>1, <2>2, <2>5 DEF Told, View
  <2> QED
    BY <2>1, <2>4, <2>6 DEF PassInv
<1>4. ASSUME NEW t \in Timers, ReturnToIdle(t) PROVE PassInv'
  <2>1. /\ t \in Threads /\ t \notin Operators /\ pc[t] = "due" /\ t \notin Passing
        /\ UNCHANGED <<capturing, framed, shown>> /\ Cross
    BY <1>4, ThreadFacts DEF ReturnToIdle, Passing
  <2>2. CASE gen[t] # activity \/ ~camera.active
    <3>1. Done(t) /\ UNCHANGED camera
      BY <1>4, <2>2 DEF ReturnToIdle
    <3>2. /\ pc'[t] = "idle" /\ t \notin Passing'
          /\ \A u \in Threads \ {t} : pc'[u] = pc[u] /\ shot'[u] = shot[u]
      BY <1>1, <2>1, <3>1 DEF Done, TypeOK, Passing
    <3>3. /\ Places' /\ Passing' = Passing
          /\ (~crossed' => ~crossed /\ OneAtATime' /\ Told)
      BY <1>1, <2>1, <3>2, OnePasses DEF Locations
    <3>4. \A u \in Passing' : pc'[u] = pc[u] /\ shot'[u] = shot[u]
      BY <2>1, <3>2, <3>3 DEF Passing
    <3>5. Told => Told'
      BY <2>1, <3>1, <3>3, <3>4 DEF Told, View
    <3> QED
      BY <3>3, <3>5 DEF PassInv
  <2>3. CASE gen[t] = activity /\ camera.active
    <3>1. /\ camera' = [camera EXCEPT !.active = FALSE]
          /\ shot' = [shot EXCEPT ![t] = camera'] /\ pc' = [pc EXCEPT ![t] = "track"]
      BY <1>4, <2>3 DEF ReturnToIdle
    <3>2. /\ pc'[t] = "track" /\ shot'[t] = camera' /\ t \in Passing'
          /\ \A u \in Threads \ {t} : pc'[u] = pc[u]
      BY <1>1, <2>1, <3>1 DEF TypeOK, Passing
    <3>3. Places' /\ (~crossed' => ~crossed /\ OneAtATime' /\ Passing' = {t})
      BY <1>1, <2>1, <3>2, OnePasses DEF Locations
    <3>4. ~crossed' => Told'
      BY <2>1, <3>2, <3>3 DEF Told
    <3> QED
      BY <3>3, <3>4 DEF PassInv
  <2> QED
    BY <2>2, <2>3
<1>5. ASSUME NEW o \in Operators, StartRecording(o) PROVE PassInv'
  <2>1. /\ o \in Threads /\ pc' = [pc EXCEPT ![o] = "read"] /\ Cross /\ pc[o] = "idle"
        /\ UNCHANGED <<camera, shot, shown>>
    BY <1>5, ThreadFacts DEF StartRecording
  <2>2. /\ pc'[o] = "read" /\ o \in Passing'
        /\ \A u \in Threads \ {o} : pc'[u] = pc[u]
    BY <1>1, <2>1 DEF TypeOK, Passing
  <2>3. /\ Places' /\ Passing' = Passing \cup {o} /\ o \notin Passing
        /\ (~crossed' => ~crossed /\ OneAtATime' /\ Told /\ Passing' = {o})
    BY <1>1, <2>1, <2>2, OnePasses DEF Locations, Passing
  <2>4. ~crossed' => Told'
    <3>1. ~crossed' => shown = camera
      BY <2>3 DEF Told
    <3> QED
      BY <2>1, <2>2, <2>3, <3>1 DEF Told
  <2> QED
    BY <2>3, <2>4 DEF PassInv
<1>6. ASSUME NEW o \in Operators, ReadCamera(o) PROVE PassInv'
  <2>1. /\ o \in Threads /\ pc' = [pc EXCEPT ![o] = "track"] /\ pc[o] = "read"
        /\ shot' = [shot EXCEPT ![o] = camera] /\ o \in Passing
        /\ UNCHANGED <<camera, capturing, framed, shown, crossed>>
    BY <1>6, ThreadFacts DEF ReadCamera, Passing
  <2>2. /\ pc'[o] = "track" /\ shot'[o] = camera /\ o \in Passing'
        /\ \A u \in Threads \ {o} : pc'[u] = pc[u]
    BY <1>1, <2>1 DEF TypeOK, Passing
  <2>3. /\ Places'
        /\ (~crossed' => ~crossed /\ OneAtATime' /\ Told /\ Passing' = {o} /\ Passing = {o})
    BY <1>1, <2>1, <2>2, OnePasses DEF Locations
  <2>4. ~crossed' => Told'
    <3>1. ~crossed' => shown = camera
      BY <1>6, <2>3 DEF Told
    <3> QED
      BY <2>1, <2>2, <2>3, <3>1 DEF Told
  <2> QED
    BY <2>3, <2>4 DEF PassInv
<1>7. ASSUME NEW t \in Threads, TrackCamera(t) PROVE PassInv'
  <2>1. /\ pc[t] = "track" /\ t \in Passing
        /\ framed' = IF capturing THEN View(shot[t]) ELSE framed
        /\ UNCHANGED <<camera, capturing, shown, crossed>>
    BY <1>7 DEF TrackCamera, Passing
  <2>2. ~crossed => shot[t] = camera /\ Passing = {t}
    BY <2>1 DEF PassInv, Told, OneAtATime
  <2>3. ~crossed => (capturing => framed' = View(camera))
    BY <2>1, <2>2
  <2>4. CASE t \in Operators
    <3>1. Done(t)
      BY <1>7, <2>4 DEF TrackCamera
    <3>2. /\ pc'[t] = "idle" /\ t \notin Passing'
          /\ \A u \in Threads \ {t} : pc'[u] = pc[u]
      BY <1>1, <3>1 DEF Done, TypeOK, Passing
    <3>3. /\ Places' /\ Passing' = Passing \ {t}
          /\ (~crossed' => ~crossed /\ OneAtATime' /\ Told)
      BY <1>1, <2>1, <3>2, OnePasses DEF Locations
    <3>4. ~crossed' => shown = camera
      BY <2>2, <2>4, <3>3 DEF Told
    <3>5. ~crossed' => Passing' = {}
      BY <2>2, <3>3
    <3>6. View(camera)' = View(camera)
      BY <2>1 DEF View
    <3>7. ~crossed' => Told'
      BY <2>1, <2>3, <3>3, <3>4, <3>5, <3>6 DEF Told
    <3> QED
      BY <3>3, <3>7 DEF PassInv
  <2>5. CASE t \notin Operators
    <3>1. pc' = [pc EXCEPT ![t] = "emit"] /\ shot' = shot
      BY <1>7, <2>5 DEF TrackCamera
    <3>2. /\ pc'[t] = "emit" /\ t \in Passing'
          /\ \A u \in Threads \ {t} : pc'[u] = pc[u]
      BY <1>1, <3>1 DEF TypeOK, Passing
    <3>3. Places' /\ (~crossed' => ~crossed /\ OneAtATime' /\ Passing' = {t})
      BY <1>1, <2>1, <2>5, <3>2, OnePasses DEF Locations
    <3>4. View(camera)' = View(camera) /\ shot'[t] = shot[t]
      BY <2>1, <3>1 DEF View
    <3>5. ~crossed' => Told'
      BY <2>1, <2>2, <2>3, <2>5, <3>3, <3>4 DEF Told
    <3> QED
      BY <3>3, <3>5 DEF PassInv
  <2> QED
    BY <2>4, <2>5
<1>8. ASSUME NEW t \in Threads, EmitShot(t) PROVE PassInv'
  <2>1. /\ pc[t] = "emit" /\ t \in Passing /\ shown' = shot[t] /\ Done(t)
        /\ UNCHANGED <<camera, capturing, framed, crossed>>
    BY <1>8 DEF EmitShot, Passing
  <2>2. /\ pc'[t] = "idle" /\ t \notin Passing'
        /\ \A u \in Threads \ {t} : pc'[u] = pc[u]
    BY <1>1, <2>1 DEF Done, TypeOK, Passing
  <2>3. /\ Places' /\ Passing' = Passing \ {t}
        /\ (~crossed' => ~crossed /\ OneAtATime' /\ Told /\ Passing = {t})
    BY <1>1, <2>1, <2>2, OnePasses DEF Locations
  <2>4. ~crossed' => shown' = camera /\ (capturing => framed = View(camera))
    BY <2>1, <2>3 DEF Told
  <2>5. View(camera)' = View(camera)
    BY <2>1 DEF View
  <2>6. ~crossed' => Told'
    BY <2>1, <2>3, <2>4, <2>5 DEF Told
  <2> QED
    BY <2>3, <2>6 DEF PassInv
<1>9. CASE EndRecording
  <2>1. /\ ~capturing' /\ UNCHANGED <<camera, pc, shot, shown, crossed>>
    BY <1>9 DEF EndRecording
  <2>2. Passing' = Passing
    BY <2>1 DEF Passing
  <2> QED
    BY <2>1, <2>2 DEF PassInv, Places, OneAtATime, Told
<1>10. CASE UNCHANGED vars
  <2>1. Passing' = Passing /\ View(camera)' = View(camera)
    BY <1>10 DEF vars, Passing, View
  <2> QED
    BY <1>10, <2>1 DEF vars, PassInv, Places, OneAtATime, Told
<1> QED
  BY <1>2, <1>3, <1>4, <1>5, <1>6, <1>7, <1>8, <1>9, <1>10 DEF Next, Listener

\* Whenever a recording starts, and however the steps of pointers, timers and
\* operators follow each other: as long as no two threads passed shots on at the
\* same time, the recording ends each passage on the view observers have.
THEOREM RecordingAgrees == Spec => []RecordingShowsTheSame
<1>1. PassInv => RecordingShowsTheSame
  <2> SUFFICES ASSUME PassInv, capturing, Passing = {}, ~crossed
               PROVE  framed = View(shown)
    BY DEF RecordingShowsTheSame
  <2>1. Told
    BY DEF PassInv
  <2> QED
    BY <2>1 DEF Told
<1> QED
  BY <1>1, InitIInv, StepIInv, InitPass, StepPass, PTL DEF Spec
=============================================================================
