----------------------------- MODULE ScreenRecorder -----------------------------
(***************************************************************************)
(* Screen recording (desktop/control/recording.py): the one capture slot,  *)
(* the ffmpeg processes, the render that runs outside the recorder's lock, *)
(* and the files, named by the second in which a capture started.  A file  *)
(* is described by the take whose pictures are in it.                      *)
(***************************************************************************)
EXTENDS Integers, FiniteSets

CONSTANTS
  Workers,     \* handler threads of the control API
  MaxTakes,    \* bound on recordings
  MaxSecond,   \* bound on the clock
  Faults       \* what may go wrong in a configuration

ASSUME RecorderAssumption ==
  /\ MaxTakes \in Nat /\ MaxSecond \in Nat \ {0}
  /\ Faults \subseteq {"capture", "render", "big", "crash"}

Takes   == 1..MaxTakes
Seconds == 1..MaxSecond
None    == 0

VARIABLES
  second,     \* what strftime says
  name,       \* the second in a take's file names, None for a take to come
  process,    \* _process and its two paths: the take they belong to, or None
  ffmpeg,     \* takes with a live capture process
  rendering,  \* _rendering
  raw,        \* per second: the take in the hidden source file, or None
  output,     \* per second: the take in the published file, or None
  pc,         \* per handler thread
  job,        \* ... the take it stops
  written,    \* history: takes that came to have pictures
  outcome,    \* history: what became of a take
  orphans     \* history: takes whose capture an API that died has started

vars == <<second, name, process, ffmpeg, rendering, raw, output, pc, job,
          written, outcome, orphans>>

Locations == {"idle", "discard", "check", "render", "size", "finish"}
Outcomes  == {"none", "saved", "discarded", "failed", "dropped"}

TypeOK ==
  /\ second \in Seconds
  /\ name \in [Takes -> Seconds \cup {None}]
  /\ process \in Takes \cup {None}
  /\ ffmpeg \subseteq Takes
  /\ rendering \in BOOLEAN
  /\ raw \in [Seconds -> Takes \cup {None}]
  /\ output \in [Seconds -> Takes \cup {None}]
  /\ pc \in [Workers -> Locations]
  /\ job \in [Workers -> Takes \cup {None}]
  /\ written \subseteq Takes
  /\ outcome \in [Takes -> Outcomes]
  /\ orphans \subseteq Takes
  \* One thread at a time is behind a stopped capture, and the flag says so.
  /\ \A w \in Workers : pc[w] # "idle" => rendering /\ job[w] # None
  /\ \A v, w \in Workers : pc[v] # "idle" /\ pc[w] # "idle" => v = w

Init ==
  /\ second = 1
  /\ name = [n \in Takes |-> None]
  /\ process = None
  /\ ffmpeg = {}
  /\ rendering = FALSE
  /\ raw = [s \in Seconds |-> None]
  /\ output = [s \in Seconds |-> None]
  /\ pc = [w \in Workers |-> "idle"]
  /\ job = [w \in Workers |-> None]
  /\ written = {}
  /\ outcome = [n \in Takes |-> "none"]
  /\ orphans = {}

Tick ==
  /\ second < MaxSecond
  /\ second' = second + 1
  /\ UNCHANGED <<name, process, ffmpeg, rendering, raw, output, pc, job, written, outcome, orphans>>
-----------------------------------------------------------------------------
(* The capture.                                                            *)

\* A finished process does not count, whoever ended it.
Active == process # None /\ process \in ffmpeg

\* Bound: takes are numbered, in the order in which they start.
NextTake(n) == name[n] = None /\ \A m \in 1..(n - 1) : name[m] # None

\* A process that ended by itself is forgotten: its source file stays.
Dropped == IF process = None THEN outcome ELSE [outcome EXCEPT ![process] = "dropped"]

Launch(n) ==
  /\ process' = n
  /\ name' = [name EXCEPT ![n] = second]
  /\ ffmpeg' = ffmpeg \cup {n}
  /\ outcome' = Dropped
  /\ UNCHANGED <<second, rendering, raw, output, pc, job, written, orphans>>

\* Fault: only a render keeps a new recording out.
StartUnchecked(n) ==
  /\ NextTake(n)
  /\ ~rendering
  /\ Launch(n)

\* ScreenRecorder.start; otherwise it answers 409.
Start(n) ==
  /\ NextTake(n)
  /\ ~rendering /\ ~Active
  /\ Launch(n)

\* ffmpeg (-y) has opened its file and pictures are in it.
Capture(n) ==
  /\ n \in ffmpeg
  /\ raw' = [raw EXCEPT ![name[n]] = n]
  /\ written' = written \cup {n}
  /\ UNCHANGED <<second, name, process, ffmpeg, rendering, output, pc, job, outcome, orphans>>

\* ffmpeg ends on its own: no display, no disk space.
CaptureDies(n) ==
  /\ "capture" \in Faults
  /\ n \in ffmpeg
  /\ ffmpeg' = ffmpeg \ {n}
  /\ UNCHANGED <<second, name, process, rendering, raw, output, pc, job, written, outcome, orphans>>
-----------------------------------------------------------------------------
(* stop and discard.                                                       *)

\* Fault: the flag is left for later.
StopUnflagged(w, l) ==
  /\ pc[w] = "idle" /\ process # None
  /\ process' = None
  /\ ffmpeg' = ffmpeg \ {process}
  /\ job' = [job EXCEPT ![w] = process]
  /\ pc' = [pc EXCEPT ![w] = l]
  /\ UNCHANGED <<second, name, rendering, raw, output, written, outcome, orphans>>

\* _stop_capture_locked, with the lock held until ffmpeg is gone; without a
\* process it answers 409.
Stop(w, l) ==
  /\ pc[w] = "idle" /\ process # None
  /\ process' = None
  /\ ffmpeg' = ffmpeg \ {process}
  /\ rendering' = TRUE
  /\ job' = [job EXCEPT ![w] = process]
  /\ pc' = [pc EXCEPT ![w] = l]
  /\ UNCHANGED <<second, name, raw, output, written, outcome, orphans>>

Of(w) == name[job[w]]

Conclude(w, what) ==
  /\ outcome' = [outcome EXCEPT ![job[w]] = what]
  /\ pc' = [pc EXCEPT ![w] = "finish"]
  /\ UNCHANGED <<second, name, process, ffmpeg, rendering, job, written, orphans>>

Discard(w) ==
  /\ pc[w] = "discard"
  /\ raw' = [raw EXCEPT ![Of(w)] = None]
  /\ UNCHANGED output
  /\ Conclude(w, "discarded")

NothingCaptured(w) ==
  /\ pc[w] = "check"
  /\ raw[Of(w)] = None
  /\ UNCHANGED <<raw, output>>
  /\ Conclude(w, "failed")

CheckRaw(w) ==
  /\ pc[w] = "check"
  /\ raw[Of(w)] # None
  /\ pc' = [pc EXCEPT ![w] = "render"]
  /\ UNCHANGED <<second, name, process, ffmpeg, rendering, raw, output, job, written, outcome, orphans>>

\* _render_showcase, to a file of its own that then replaces the output.
Render(w) ==
  /\ pc[w] = "render"
  /\ output' = [output EXCEPT ![Of(w)] = raw[Of(w)]]
  /\ pc' = [pc EXCEPT ![w] = "size"]
  /\ UNCHANGED <<second, name, process, ffmpeg, rendering, raw, job, written, outcome, orphans>>

\* Fault: the failing thread leaves without the finally clause.
RenderFailsForGood(w) ==
  /\ "render" \in Faults
  /\ pc[w] = "render"
  /\ outcome' = [outcome EXCEPT ![job[w]] = "failed"]
  /\ pc' = [pc EXCEPT ![w] = "idle"]
  /\ job' = [job EXCEPT ![w] = None]
  /\ UNCHANGED <<second, name, process, ffmpeg, rendering, raw, output, written, orphans>>

\* ffmpeg fails, takes too long or leaves nothing.
RenderFails(w) ==
  /\ "render" \in Faults
  /\ pc[w] = "render"
  /\ UNCHANGED <<raw, output>>
  /\ Conclude(w, "failed")

\* Fault: the source goes before the size is looked at.
TooBigWithoutSource(w) ==
  /\ "big" \in Faults
  /\ pc[w] = "size"
  /\ output' = [output EXCEPT ![Of(w)] = None]
  /\ raw' = [raw EXCEPT ![Of(w)] = None]
  /\ Conclude(w, "failed")

\* An empty result, or one of more than 512 MiB, is withdrawn.
TooBig(w) ==
  /\ "big" \in Faults
  /\ pc[w] = "size"
  /\ output' = [output EXCEPT ![Of(w)] = None]
  /\ UNCHANGED raw
  /\ Conclude(w, "failed")

Save(w) ==
  /\ pc[w] = "size"
  /\ raw' = [raw EXCEPT ![Of(w)] = None]
  /\ UNCHANGED output
  /\ Conclude(w, "saved")

\* The finally clause, and the answer.
Finish(w) ==
  /\ pc[w] = "finish"
  /\ rendering' = FALSE
  /\ pc' = [pc EXCEPT ![w] = "idle"]
  /\ job' = [job EXCEPT ![w] = None]
  /\ UNCHANGED <<second, name, process, ffmpeg, raw, output, written, outcome, orphans>>

\* The API process dies and supervisord starts it again; ffmpeg goes on.
Crash ==
  /\ "crash" \in Faults
  /\ process' = None
  /\ rendering' = FALSE
  /\ pc' = [w \in Workers |-> "idle"]
  /\ job' = [w \in Workers |-> None]
  /\ orphans' = ffmpeg
  /\ UNCHANGED <<second, name, ffmpeg, raw, output, written, outcome>>
-----------------------------------------------------------------------------
Thread(w) ==
  \/ Discard(w) \/ NothingCaptured(w) \/ CheckRaw(w) \/ Render(w)
  \/ RenderFails(w) \/ TooBig(w) \/ Save(w) \/ Finish(w)

Next ==
  \/ Tick \/ Crash
  \/ \E n \in Takes : Start(n) \/ Capture(n) \/ CaptureDies(n)
  \/ \E w \in Workers : Thread(w) \/ \E l \in {"discard", "check"} : Stop(w, l)

\* Handler threads run; a render is over within its time limit.
Spec == Init /\ [][Next]_vars /\ \A w \in Workers : WF_vars(Thread(w))
-----------------------------------------------------------------------------
\* As long as the API lives, it runs one capture at a time, and none while an
\* earlier one is still being rendered: two threads never start, stop or render
\* beside each other.
OneRecording ==
  /\ Cardinality(ffmpeg \ orphans) <= 1
  /\ (\E w \in Workers : pc[w] # "idle") => ffmpeg \subseteq orphans

\* No other recording started in the second in which take n did.
NamedAlone(n) == \A m \in Takes \ {n} : name[m] # name[n]

\* recording.py: "raw capture retained for recovery".  What was captured is
\* where its outcome says: a saved take under its own name, and a take that is
\* running, failed or was forgotten in its source file, whatever later
\* recordings did -- except one that has the same second in its file names,
\* which overwrites both files.
CapturesAreKept ==
  \A n \in written :
    NamedAlone(n) =>
      /\ outcome[n] = "saved" => output[name[n]] = n
      /\ outcome[n] \in {"none", "failed", "dropped"} => raw[name[n]] = n

\* A stopped recording gives the recorder free again, however the render ends.
RendersEnd == rendering ~> ~rendering
=============================================================================
