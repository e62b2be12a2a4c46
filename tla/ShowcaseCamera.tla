----------------------------- MODULE ShowcaseCamera -----------------------------
(***************************************************************************)
(* The presentation camera (desktop/control/showcase.py): the threads that *)
(* report pointer activity, the idle timers, and the listeners, which run  *)
(* after the camera's lock was given back and pass each shot on to the     *)
(* recorder's key frames and then to the event log.  A recording starts in *)
(* the middle of it (desktop/control/api.py).                              *)
(***************************************************************************)
EXTENDS Integers, FiniteSets

CONSTANTS
  Width,        \* display width; one axis stands for both
  Pointers,     \* threads whose pointer actions succeed
  Timers,       \* threading.Timer threads that exist at a time
  Operators,    \* threads that start a recording
  NoTimer,
  NoView,       \* a recording without a key frame
  MaxActivity   \* bound on pointer actions

ASSUME CameraAssumption ==
  /\ Width \in Nat \ {0} /\ MaxActivity \in Nat
  /\ Pointers \cap Timers = {} /\ Pointers \cap Operators = {}
  /\ Timers \cap Operators = {} /\ NoTimer \notin Timers

Threads == Pointers \cup Timers \cup Operators

Shots == [active : BOOLEAN, pivot : 0..(Width - 1)]

\* camera_crop: at zoom 1 the crop is the whole display wherever the pivot is.
View(shot) == IF shot.active THEN shot ELSE [shot EXCEPT !.pivot = 0]

VARIABLES
  camera,     \* _active and _pivot
  activity,   \* _activity_generation
  timer,      \* _idle_timer
  pc,         \* per thread
  gen,        \* ... of a timer: the generation it was armed for
  shot,       \* ... the state it passes to the listeners
  capturing,  \* is the recorder's ffmpeg alive?
  framed,     \* view of the recorder's last key frame
  shown,      \* state in the last showcase.camera event, or the initial one
  crossed,    \* history: listeners, or a start, have run beside each other
  armed       \* history: the timer that the last pointer action armed

vars == <<camera, activity, timer, pc, gen, shot, capturing, framed, shown,
          crossed, armed>>

Home == [active |-> FALSE, pivot |-> Width \div 2]

Locations == {"idle", "counting", "due", "read", "track", "emit"}

TypeOK ==
  /\ camera \in Shots
  /\ activity \in 0..MaxActivity
  /\ timer \in Timers \cup {NoTimer}
  /\ pc \in [Threads -> Locations]
  /\ gen \in [Timers -> 0..MaxActivity]
  /\ shot \in [Threads -> Shots]
  /\ capturing \in BOOLEAN
  /\ framed \in Shots \cup {NoView}
  /\ shown \in Shots
  /\ crossed \in BOOLEAN
  /\ armed \in Timers \cup {NoTimer}

Init ==
  /\ camera = Home
  /\ activity = 0
  /\ timer = NoTimer
  /\ pc = [t \in Threads |-> "idle"]
  /\ gen = [t \in Timers |-> 0]
  /\ shot = [t \in Threads |-> Home]
  /\ capturing = FALSE
  /\ framed = NoView
  /\ shown = Home
  /\ crossed = FALSE
  /\ armed = NoTimer

\* Threads on the way from the camera to the recorder and the event log.
Passing == {t \in Threads : pc[t] \in {"read", "track", "emit"}}

Cross == crossed' = (crossed \/ Cardinality(Passing') > 1)

\* A thread that is through: nothing of its shot or generation is left.
Done(t) ==
  /\ pc' = [pc EXCEPT ![t] = "idle"]
  /\ shot' = [shot EXCEPT ![t] = Home]
  /\ gen' = [u \in Timers |-> IF u = t THEN 0 ELSE gen[u]]

Clamp(x) == IF x < 0 THEN 0 ELSE IF x >= Width THEN Width - 1 ELSE x

\* Fault: the old timer is forgotten, not cancelled.
ForgetTimer(t) == pc[t]

\* Timer.cancel: a timer that is past its wait goes on.
CancelTimer(t) == IF pc[t] = "counting" THEN "idle" ELSE pc[t]

\* Fault: a pointer action leaves the generation as it is.
SameActivity(n) == n

\* _activity_generation += 1
NextActivity(n) == n + 1

\* Fault: the timer gets the generation before this activity.
StaleGeneration(n) == n

\* The generation that a pointer action's timer is armed with.
TimerGeneration(n) == NextActivity(n)
-----------------------------------------------------------------------------
\* follow, up to the end of its lock: centre on the pointer, cancel the old
\* timer, arm a new one, and notify only if the state is a new one.
Follow(p, t, x) ==
  /\ pc[p] = "idle" /\ pc[t] = "idle"
  /\ activity < MaxActivity
  /\ LET new == [active |-> TRUE, pivot |-> Clamp(x)]
     IN  /\ camera' = new
         /\ shot' = [shot EXCEPT ![p] = IF new # camera THEN new ELSE Home]
         /\ pc' = [[u \in Threads |-> IF u = timer THEN CancelTimer(u) ELSE pc[u]]
                     EXCEPT ![t] = "counting",
                            ![p] = IF new # camera THEN "track" ELSE "idle"]
  /\ activity' = NextActivity(activity)
  /\ timer' = t /\ armed' = t
  /\ gen' = [[u \in Timers |-> IF pc'[u] = "idle" THEN 0 ELSE gen[u]]
               EXCEPT ![t] = TimerGeneration(activity)]
  /\ Cross
  /\ UNCHANGED <<capturing, framed, shown>>

\* The timeout passes; the timer has seen that nobody cancelled it.
TimeOut(t) ==
  /\ pc[t] = "counting"
  /\ pc' = [pc EXCEPT ![t] = "due"]
  /\ UNCHANGED <<camera, activity, timer, gen, shot, capturing, framed, shown, crossed,
                 armed>>

\* _return_to_idle, up to the end of its lock.
ReturnToIdle(t) ==
  /\ pc[t] = "due"
  /\ IF gen[t] # activity \/ ~camera.active
       THEN Done(t) /\ UNCHANGED <<camera, timer>>
       ELSE /\ camera' = [camera EXCEPT !.active = FALSE]
            /\ timer' = NoTimer
            /\ shot' = [shot EXCEPT ![t] = camera']
            /\ pc' = [pc EXCEPT ![t] = "track"]
            /\ UNCHANGED gen
  /\ Cross
  /\ UNCHANGED <<activity, capturing, framed, shown, armed>>

\* ScreenRecorder.track_camera: a key frame while ffmpeg is alive.  Repeating
\* the last view adds none, which leaves the last one as it is.
TrackCamera(t) ==
  /\ pc[t] = "track"
  /\ framed' = IF capturing THEN View(shot[t]) ELSE framed
  /\ IF t \in Operators
       THEN Done(t)
       ELSE pc' = [pc EXCEPT ![t] = "emit"] /\ UNCHANGED <<shot, gen>>
  /\ UNCHANGED <<camera, activity, timer, capturing, shown, crossed, armed>>

\* The rest of _showcase_changed.
EmitShot(t) ==
  /\ pc[t] = "emit"
  /\ shown' = shot[t]
  /\ Done(t)
  /\ UNCHANGED <<camera, activity, timer, capturing, framed, crossed, armed>>

\* Fault: the recorder is not told where the camera is.
StartUntracked(o) ==
  /\ pc[o] = "idle" /\ ~capturing
  /\ capturing' = TRUE
  /\ framed' = NoView
  /\ UNCHANGED <<camera, activity, timer, pc, gen, shot, shown, crossed, armed>>

\* POST /recording/start: first the capture, with no key frames ...
StartRecording(o) ==
  /\ pc[o] = "idle" /\ ~capturing
  /\ capturing' = TRUE
  /\ framed' = NoView
  /\ pc' = [pc EXCEPT ![o] = "read"]
  /\ Cross
  /\ UNCHANGED <<camera, activity, timer, gen, shot, shown, armed>>

\* ... then the camera's state, tracked once its lock was given back.
ReadCamera(o) ==
  /\ pc[o] = "read"
  /\ shot' = [shot EXCEPT ![o] = camera]
  /\ pc' = [pc EXCEPT ![o] = "track"]
  /\ UNCHANGED <<camera, activity, timer, gen, capturing, framed, shown, crossed,
                 armed>>

\* The capture is stopped, or dies.
EndRecording ==
  /\ capturing
  /\ capturing' = FALSE
  /\ framed' = NoView
  /\ UNCHANGED <<camera, activity, timer, pc, gen, shot, shown, crossed, armed>>
-----------------------------------------------------------------------------
Listener(t) == TrackCamera(t) \/ EmitShot(t)

Next ==
  \/ \E p \in Pointers, t \in Timers, x \in -1..Width : Follow(p, t, x)
  \/ \E t \in Timers : TimeOut(t) \/ ReturnToIdle(t)
  \/ \E o \in Operators : StartRecording(o) \/ ReadCamera(o)
  \/ \E t \in Threads : Listener(t)
  \/ EndRecording

\* Timers expire and threads that are under way go on.
Spec ==
  /\ Init /\ [][Next]_vars
  /\ \A t \in Timers : WF_vars(TimeOut(t)) /\ WF_vars(ReturnToIdle(t))
  /\ \A t \in Threads : WF_vars(Listener(t))
-----------------------------------------------------------------------------
\* An active camera has one timer of the latest activity that will send it
\* home, and no other timer is still counting: _idle_timer, of which only the
\* last is remembered, loses none.
ActiveCameraHasItsTimer ==
  /\ camera.active =>
       \E t \in Timers : pc[t] \in {"counting", "due"} /\ gen[t] = activity
  /\ \A t \in Timers : pc[t] = "counting" => gen[t] = activity

\* The camera stays for the whole timeout after the latest pointer action: what
\* sends it home is the very timer which that action armed, once it has waited
\* its time, and never one that was armed for an earlier action, expired just
\* before this one and could no longer be cancelled.
FollowedForTheTimeout ==
  [][ camera.active /\ ~camera'.active
        => armed \in Timers /\ pc[armed] = "due" /\ pc'[armed] # "due" ]_vars

\* Once the pointer rests the camera comes home, whichever timers were
\* cancelled too late.
CameraReturns == \A n \in 1..MaxActivity :
  activity = n ~> activity # n \/ ~camera.active

\* docs/SPEC.md: "the saved 30 fps recording must contain the same movement".
\* As long as no two threads passed shots on at the same time, and with none
\* under way, the last key frame of a capture is the view that observers were
\* last told of, whenever the recording started.
RecordingShowsTheSame ==
  capturing /\ Passing = {} /\ ~crossed => framed = View(shown)
=============================================================================
