------------------------------- MODULE KeyFrames -------------------------------
(***************************************************************************)
(* The camera of a saved recording (desktop/control/recording.py): key     *)
(* frames are recorded while ffmpeg captures, sampled at the frame rate    *)
(* into interrupted eased moves when the recording is saved, and given to  *)
(* the render as a step function of the frame number.                      *)
(* Time is in ticks, positions and zooms are in fractions of a pixel and   *)
(* of 1 (floats); one axis stands for both.                                *)
(***************************************************************************)
EXTENDS Integers, SequencesExt

CONSTANTS
  FrameTicks,   \* ticks per frame, 1 / RECORDING_FRAME_RATE
  Transition,   \* SHOWCASE_TRANSITION_SECONDS in ticks
  Unit,         \* fractions per pixel, and per zoom of 1
  Width,        \* width of the display
  Pivots,       \* pointer positions that the camera follows
  MaxFrames,    \* bound on key frames
  MaxTick       \* bound on the length of a recording

ASSUME KeyFramesAssumption ==
  /\ FrameTicks \in Nat \ {0} /\ Unit \in Nat \ {0}
  /\ Transition \in Nat /\ 2 * Transition > FrameTicks
  /\ Width \in Nat \ {0, 1} /\ Width % 2 = 0
  /\ Pivots \subseteq 0..(Width - 1)
  /\ MaxFrames \in Nat /\ MaxTick \in Nat

IdleZoom   == Unit       \* SHOWCASE_IDLE_ZOOM, 1.0
ActiveZoom == 2 * Unit   \* SHOWCASE_ACTIVE_ZOOM, 2.0

VARIABLES
  phase,      \* "capture", "sample" or "rendered"
  clock,      \* ticks since the capture started
  keyframes,  \* _camera_keyframes
  frame,      \* frame_index of the loop
  event,      \* event_index: the next key frame, from 1
  motion,     \* the transition_* variables
  samples     \* what the loop has sampled

framesVars == <<phase, clock, keyframes, frame, event, motion, samples>>
-----------------------------------------------------------------------------
Lesser(m, n) == IF m < n THEN m ELSE n

Greater(m, n) == IF m < n THEN n ELSE m

Distance(m, n) == Greater(m, n) - Lesser(m, n)

\* Python's round(n / d): halves go to the even neighbour.
Rounded(n, d) ==
  LET q == n \div d
      r == n % d
  IN  IF 2 * r > d \/ (2 * r = d /\ q % 2 = 1) THEN q + 1 ELSE q

\* camera_crop, for the two zooms that the camera has.
CropAt(pivot, zoom) ==
  LET width == Greater(2, 2 * (((Width * Unit) \div zoom) \div 2))
  IN  Lesser(Width - width, Rounded(pivot * (zoom - Unit), zoom))

Views == [x : 0..Width, zoom : {IdleZoom, ActiveZoom}]

View(pivot, zoom) == [x |-> CropAt(pivot, zoom), zoom |-> zoom]

\* The state of transition_from and transition_to, in fractions of a pixel.
Exact(view) == [x |-> view.x * Unit, zoom |-> view.zoom]

Still(view) ==
  [from |-> Exact(view), to |-> Exact(view), start |-> 0, end |-> 0]
-----------------------------------------------------------------------------
(* smooth_camera_keyframes, its helpers.                                   *)

\* transition_end_for: the nearest frame
TransitionEnd(t) ==
  Greater(t, FrameTicks * ((2 * (t + Transition) + FrameTicks) \div (2 * FrameTicks)))

\* Ticks of the move that are over at time t.
Elapsed(m, t) == Lesser(m.end - m.start, Greater(0, t - m.start))

\* position_at (eased) and zoom_at (not eased)
At(m, t) ==
  LET duration == m.end - m.start
      left     == duration - Elapsed(m, t)
      Cube(n)  == n * n * n
  IN  IF duration <= 0
        THEN m.to
        ELSE [x |-> m.from.x + ((m.to.x - m.from.x) * (Cube(duration) - Cube(left)))
                                 \div Cube(duration),
              zoom |-> m.from.zoom + ((m.to.zoom - m.from.zoom) * Elapsed(m, t))
                                       \div duration]

\* Fault: a new move starts where the last one was to end.
RetargetFromTarget(m, k) ==
  [from |-> m.to, to |-> Exact(k.view), start |-> k.at, end |-> TransitionEnd(k.at)]

\* A key frame interrupts the move under way.
Retarget(m, k) ==
  [from |-> At(m, k.at), to |-> Exact(k.view), start |-> k.at, end |-> TransitionEnd(k.at)]

\* last_frame_index of a recording that ends now
LastFrame == Greater(0, (clock + FrameTicks - 1) \div FrameTicks - 1)

\* Fault: the frames end with the last key frame.
FinalFrameAtKeyFrame ==
  IF keyframes = <<>>
    THEN 0
    ELSE Lesser(LastFrame * FrameTicks, Last(keyframes).at) \div FrameTicks

\* final_frame_index; without key frames there is no loop.
FinalFrame ==
  IF keyframes = <<>>
    THEN 0
    ELSE Lesser(LastFrame * FrameTicks, TransitionEnd(Last(keyframes).at)) \div FrameTicks

Sample(n, m) ==
  LET exact == At(m, n * FrameTicks)
  IN  [frame |-> n, x |-> Rounded(exact.x, Unit), zoom |-> exact.zoom]
-----------------------------------------------------------------------------
FramesInit ==
  /\ phase = "capture"
  /\ clock = 0
  /\ keyframes = <<>>
  /\ frame = 0
  /\ event = 1
  /\ motion = Still(View(0, IdleZoom))
  /\ samples = <<>>

Elapse ==
  /\ phase = "capture" /\ clock < MaxTick
  /\ clock' = clock + 1
  /\ UNCHANGED <<phase, keyframes, frame, event, motion, samples>>

\* track_camera while the capture runs: a view that is the last one adds no key
\* frame.
TrackCamera(pivot, zoom) ==
  /\ phase = "capture" /\ Len(keyframes) < MaxFrames
  /\ keyframes # <<>> => Last(keyframes).view # View(pivot, zoom)
  /\ keyframes' = Append(keyframes, [at |-> clock, view |-> View(pivot, zoom)])
  /\ UNCHANGED <<phase, clock, frame, event, motion, samples>>

\* stop, and smooth_camera_keyframes up to its loop.  No key frame: the render
\* shows the whole display.
StopCapture ==
  /\ phase = "capture"
  /\ LET first == IF keyframes = <<>> THEN View(0, IdleZoom) ELSE keyframes[1].view
     IN  /\ motion' = Still(first)
         /\ samples' = <<Sample(0, motion')>>
  /\ event' = 2
  /\ phase' = "sample"
  /\ UNCHANGED <<clock, keyframes, frame>>

\* Fault: a sample for every frame.
WorthASample(sample, settled) == TRUE

\* A sample that differs from the one before it, or the last one.
Needed(sample, settled) ==
  \/ [sample EXCEPT !.frame = 0] # [Last(samples) EXCEPT !.frame = 0]
  \/ settled

\* event_index when the inner loop has stopped at time `now`
NextEvent(now) ==
  CHOOSE e \in event..(Len(keyframes) + 1) :
    /\ \A i \in event..(e - 1) : keyframes[i].at <= now
    /\ e > Len(keyframes) \/ keyframes[e].at > now

\* The inner loop: the key frames before `upTo` interrupt the move one after the
\* other.
Interrupted(upTo) ==
  LET move[i \in (event - 1)..Len(keyframes)] ==
        IF i < event THEN motion ELSE Retarget(move[i - 1], keyframes[i])
  IN  move[upTo - 1]

\* One round of the loop: key frames that are due, then the frame is sampled.
SampleFrame ==
  /\ phase = "sample"
  /\ frame < FinalFrame
  /\ frame' = frame + 1
  /\ LET now == frame' * FrameTicks
     IN  /\ event' = NextEvent(now)
         /\ motion' = Interrupted(event')
         /\ LET settled == event' > 2 /\ frame' = FinalFrame /\ now >= motion'.end
                sample  == Sample(frame', motion')
            IN  samples' = IF Needed(sample, settled) THEN Append(samples, sample)
                                                      ELSE samples
  /\ UNCHANGED <<phase, clock, keyframes>>

\* The render gets the samples.
RenderSamples ==
  /\ phase = "sample"
  /\ frame >= FinalFrame
  /\ phase' = "rendered"
  /\ UNCHANGED <<clock, keyframes, frame, event, motion, samples>>

FramesNext ==
  \/ Elapse \/ StopCapture \/ SampleFrame \/ RenderSamples
  \/ \E pivot \in Pivots, zoom \in {IdleZoom, ActiveZoom} : TrackCamera(pivot, zoom)

FramesSpec == FramesInit /\ [][FramesNext]_framesVars
-----------------------------------------------------------------------------
\* timeline_expression: if(lt(on, f2), v1, if(lt(on, f3), v2, ...)) at frame n.
\* Samples have frames of their own, so that none replaces another.
Shown(n) ==
  samples[CHOOSE i \in DOMAIN samples :
            /\ i = Len(samples) \/ n < samples[i + 1].frame
            /\ \A j \in 1..(i - 1) : n >= samples[j + 1].frame]
-----------------------------------------------------------------------------
(* What the render is to show.                                             *)

\* The last key frame at time t, or the first one before there is any.
Latest(t) ==
  CHOOSE k \in DOMAIN keyframes :
    /\ k = 1 \/ keyframes[k].at <= t
    /\ \A j \in (k + 1)..Len(keyframes) : keyframes[j].at > t

\* The camera at time t: every key frame starts a move from where the move before
\* it has come.
Camera(t) ==
  LET move[k \in DOMAIN keyframes] ==
        IF k = 1
          THEN Still(keyframes[1].view)
          ELSE [from  |-> At(move[k - 1], keyframes[k].at),
                to    |-> Exact(keyframes[k].view),
                start |-> keyframes[k].at,
                end   |-> TransitionEnd(keyframes[k].at)]
  IN  At(move[Latest(t)], t)

\* docs/API.md: "a new target continues from the camera's currently rendered
\* position instead of snapping".  Every frame of the recording shows the camera
\* that the key frames describe, although frames are sampled one by one, several
\* key frames may fall into one, equal samples are left out and sampling ends
\* with the last move.
RenderFollowsCamera ==
  phase = "rendered" /\ keyframes # <<>> =>
    \A n \in 0..LastFrame :
      LET camera == Camera(n * FrameTicks)
      IN  /\ Shown(n).x = Rounded(camera.x, Unit)
          /\ Shown(n).zoom = camera.zoom

\* The crops of all key frames lie this far apart.
Span ==
  LET xs == {keyframes[k].view.x : k \in DOMAIN keyframes}
  IN  CHOOSE d \in 0..Width :
        /\ \E x, y \in xs : Distance(x, y) = d
        /\ \A x, y \in xs : Distance(x, y) <= d

\* test_recording.py: positions are sorted, end on the target and never jump.
\* However moves interrupt each other, the picture comes no frame farther from a
\* target that stays, is on it half a frame after the transition's 240 ms at the
\* latest, and moves in one frame no faster than the curve's steepest part, give or
\* take what a pixel and the moves within the frame are rounded by.
MovesGlide ==
  phase = "rendered" /\ keyframes # <<>> =>
    \A n \in 1..LastFrame :
      LET now    == n * FrameTicks
          k      == Latest(now)
          target == keyframes[k].view
          step   == Distance(Shown(n - 1).x, Shown(n).x)
          change == Distance(Shown(n - 1).zoom, Shown(n).zoom)
      IN  /\ k = Latest(now - FrameTicks) =>
               /\ Distance(Shown(n).x, target.x) <= Distance(Shown(n - 1).x, target.x)
               /\ Distance(Shown(n).zoom, target.zoom)
                    <= Distance(Shown(n - 1).zoom, target.zoom)
          /\ k = 1 \/ 2 * (now - keyframes[k].at) >= 2 * Transition + FrameTicks =>
               Shown(n).x = target.x /\ Shown(n).zoom = target.zoom
          /\ (2 * Transition - FrameTicks) * (Unit * (step - 1) - MaxFrames)
               <= 6 * FrameTicks * (Unit * Span)
          /\ (2 * Transition - FrameTicks) * (change - MaxFrames) <= 2 * FrameTicks * Unit

\* The render's expression nests as deep as there are samples, and ffmpeg limits
\* the nesting: a recording costs samples for its moves only, for none more than
\* a transition's frames, and however long the camera rests.
RestsCostNothing ==
  phase # "capture" =>
    Len(samples) <= 1 + Greater(0, Len(keyframes) - 1)
                          * ((2 * Transition + FrameTicks) \div (2 * FrameTicks) + 1)
=============================================================================
