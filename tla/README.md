# Verification of Relay

TLA+ specifications of the parts of Relay (a virtual desktop shared by humans
and AI operators) whose correctness depends on order: who controls the desktop,
what a takeover does to input under way, what observers and recordings see, what
a package approval allows, and what reaches a terminal. Each specification is
translated from the source named beside it and checked by TLC on small
instances; of nine components the safety properties that matter most are proved
with TLAPS for all instances.

    tlc -config ControlLease.cfg ControlLease        # any run below
    tlapm ControlProofs.tla                          # the proofs

## 1. The system

| Component | State it keeps | Operations | Who shares it | What is hard about it | What makes it correct |
|---|---|---|---|---|---|
| Control lease (`desktop/control/domain.py`) | owner kind, owner id, absolute expiry | claim (human, agent), heartbeat, release, state, assert, extend | all handler threads, one RLock | lapses only when looked at; `extend_if_owner` revives a lapsed lease; clients die | accepted calls come from the last claimant; live leases are kept; no client blocks the desktop for ever |
| Input controller and `SubprocessRunner` (`desktop/control/input_controller.py`) | generation, held keys and buttons, the one `_current` process | apply, preempt, clean-up | handler threads; the X server; xdotool processes | two locks, nothing locked over a wait; retries; commands cancelled half way | a preempted batch starts nothing and its command is stopped; nothing stays pressed unknown to the controller; takeovers return |
| Event log (`desktop/control/events.py`) | ring of 200 events, subscriber queues | emit, snapshot, subscribe (SSE generator) | all threads | registration, copy and writes interleave with emission; dead clients | streams are gapless and in order; dead streams go |
| Showcase camera (`desktop/control/showcase.py`) | shot, activity generation, idle timer | follow, timer callback, listeners | input threads, timer threads, recorder, event log | timers cancelled too late; listeners run outside the lock | follows for the whole timeout, always comes home |
| Screen recorder (`desktop/control/recording.py`) | capture process and paths, rendering flag, key frames | start, stop, discard, track_camera, render | handler threads, ffmpeg, files | render outside the lock; ffmpeg dies; API restarts; names by the second | one recording; captures are kept; recorder becomes free again |
| Install broker (`desktop/broker/install_broker.py`, `restore_installs.py`, `scripts/entrypoint.sh`) | approvals (memory), manifest (volume), installed packages (container) | approve, install, record, replay at boot | broker threads, apt, Downloads | crash between steps, stale files, container recreation | approvals single-use; nothing installed that was not approved with its digest; answered installs survive |
| HTTP control API (`desktop/control/api.py`) | none of its own | routes that call the components above | | order of its calls | modelled with the component that each handler calls |
| Terminal bridge (`desktop/control/tmux_bridge.py`) | none of its own: the tmux server's sessions, which outlive the API | bootstrap at start, create, destroy, capture, send | handler threads without a lock, shells that end, restarts of the API | a send is two commands; `-t name` falls back to a session whose name begins so; commands are given up after 20 s, carried out or not | a submitted line is the text of its call; a start ends no session but the bootstrap's |
| Computer MCP (`computer-mcp/internal/computer`, `internal/relay`) | none between calls; one agent id for all MCP clients | a tool call reads the cursor, plans a path, claims and posts a batch; a text one delta after the other | HTTP client of the API | pointer read before the claim; calls that overlap; a refusal in the middle; a request that is carried out, or a batch that goes on, after its call was cancelled; a zero that the encoder leaves out | batches fit the API; texts arrive in order and stop at the first failure; paths end at their target |
| Demo script (`tools/relay_showcase_flow.py`) | its position in a fixed plan, whether it started a recording | runtime status, screenshot, START, click, chunks, Enter; DISCARD when it fails | humans who take the lease, operators who record | a call given up after 45 s may be carried out later; cleaning up without touching another's recording | the prompt arrives once and in order; a failed script leaves nothing behind |
| Web client (`web/app.js`, `agent-view.mjs`) | view of the lease, task, transcript | polling, take/release control, SSE reducer | browser | answers out of order, aborted fetches | view follows the server |
| Agent gateway, accessibility, metrics, authentication, scripts | little or none | proxies, wrappers, start-up | | | |

Interactions: the API holds every component in one process; handlers run on
threads of a `ThreadingHTTPServer`. A human claim changes the lease, then calls
`InputController.preempt`; a batch renews the lease before every action; a
pointer action moves the camera, whose listeners write recorder key frames and
events. The installer is a root process of its own behind a UNIX socket.
supervisord restarts both; the container may be recreated from its image while
the volumes stay.

## 2. Modules

| Module | Models | Correspondence |
|---|---|---|
| `Lease` | the value of a `ControlLease` and its methods as functions | `_expires_at` becomes `remaining`, its distance to the clock. Kept as a module of its own because three specifications hold a lease |
| `Handoff` | abstract specification | one controller; humans take from anybody, agents from nobody |
| `ControlLease` | the lease with all its callers | one action per method; `StartBatch`/`BatchAction` are what `/input` does to it; `Tick` is the clock; `GoSilent` a client that dies |
| `InputController`, `MCInputController` | `apply`, `preempt`, `SubprocessRunner`, the xdotool processes and X | a step is what a thread does in one hold of one lock; `pc` names the next statement. `Spawn` is the critical section of `run`, `Reap` its finally clause, `PickVictim`/`StopVictim` the two halves of `cancel_current`, `TakeHeld`/`SpawnCleanup`/`CleanupReturns` the sweep `_release_held`. A command is what it presses and releases: `down`, `up` (button), `hold` (hold_key, drag), `tap` (click, key, text, scroll: not tracked), `plain` |
| `EventLog` | `emit`, `subscribe`, the SSE loop | `Serve` is the generator's loop, one write per step. Its specification is `LogSpec`, with `LogInit` and `LogNext`, so that one module of theorems can extend it and `ControlLease` |
| `ShowcaseCamera` | `follow`, `_return_to_idle`, `_showcase_changed`, `track_camera`, start of a recording | one axis for two; a `Timer` that is past its wait is `due` and cannot be cancelled any more |
| `ScreenRecorder` | `start`, `stop`, `discard`, the render, files | a file holds the number of the take whose pictures are in it |
| `InstallBroker` | `ApprovalStore`, `SystemInstaller`, `InstallManifest`, `restore_installs.main`, `entrypoint.sh` | an APT list is a value, a `.deb` its path and digest; `Effect` is what apt finds at the path; `RecordFails` an unusable manifest; `boot` is the loop variable of the replay |
| `Pacing` | `pacedMove`, `frictionProgress`, `smoothDrag`, `splitDragSteps`, `splitTextDeltas` | pure operators; one axis, and the easing in exact fractions, so that rounding is the code's |
| `ComputerService`, `MCComputerService` | `Service.Execute`, `Client.Apply`, `Release`, and what the API does with their batches | a call is planned (`Execute`, with GET /cursor), then `Claim`, `Post`, and `Accepted` when its batch is done; `Act` is one action of a batch in the API, `Reject` its end by 409 or failure, with the action under way done in part (`DoneInPart`), `Cancel` the client's time limit with the request lost, `ServeLate` with the request carried out all the same. `Marshalled` is what the encoder makes of a coordinate, `Accepts` what the API makes of that. Claim and preemption are one step here; their interleaving is in `InputController` |
| `Terminals`, `MCTerminals` | `TmuxBridge` and the terminal routes, the tmux server | one action per tmux command; `Run` is `_run` with its three outcomes (done, refused, given up); `Meant` is how tmux resolves a target; a session is the list of the keys its pane got. A text is of one of four kinds (`Text`): without a newline, with text after its last newline, ending with one, or taken for flags. `BadName` stands for every parameter that is refused |
| `ShowcaseFlow`, `MCShowcaseFlow` | `run_showcase`, `human_chunks`, `MCPClient.call` | `Send`, `Succeed`, `Fail`, `GiveUp` are the script's side of a call, `Serve` and `ServeLate` the desktop's; composes `Lease`; a prompt is a sequence of letters, spaces and other characters. `HumanCuts` is where `human_chunks` cuts; the default prompt has chunks written by hand (`DefaultCuts`, of which only what holds of `DEFAULT_CHUNKS` is assumed: joined, they are the prompt) |
| `KeyFrames` | `track_camera`, `smooth_camera_keyframes` and its helpers, `camera_crop`, `timeline_expression` | `SampleFrame` is one round of the loop over frames; time in ticks, positions in fractions of a pixel, so that `round` is the code's. `NextEvent` and `Interrupted` are the inner loop over key frames: where it stops, and what has become of the move by then. Its specification is `FramesSpec`, as for `EventLog` |
| `ControlProofs` | theorems about `ControlLease` and `EventLog` | section 5 |
| `RecordingProofs` | theorems about `ScreenRecorder` and `KeyFrames` | section 5 |
| `ComputerServiceProofs`, `InputControllerProofs`, `InstallBrokerProofs`, `ShowcaseCameraProofs`, `ShowcaseFlowProofs`, `TerminalsProofs` | theorems about the module each is named for (`ComputerServiceProofs` about `Pacing`, too) | section 5 |

Definitions whose comment begins with "Fault:" are not part of any behaviour:
each is an action or helper as a plausible mistake would have written it, used
to see that a property notices.

History variables (marked "history") never guard an action.

## 3. Runs

| Run | What it asks | Instance and why it is enough |
|---|---|---|
| `lease` | last claimant only; live leases kept; refinement of `Handoff`; silent clients lose control | 2 agents, 2 humans: every pair of kinds meets. TTLs 2 and 3 ticks: renewed, half-way and lapsed differ, and human and agent TTL too. Batches of 2: a renewal inside a batch and one at its end |
| `input_overlap` | types; a stale command is being stopped; presses are tracked | 2 agents that send again before they are answered, 1 human, 2 handler threads, leases that may lapse at any moment (TTL 1), 1 preemption. Two threads are what it takes for a batch to meet a preemption or another batch. Threads are symmetric; safety only |
| `input_one_operator` | batches and sweeps never cross; takeovers return | 1 agent and 1 human that wait for answers, 2 preemptions, commands that fail or time out, one key known by an alias. Leases do not lapse meanwhile: with clients that wait and TTLs of 12 s and 30 s a takeover (under 2 s per clean-up) does not outlive its lease, and without that the two threads of `input_overlap` do cross. With `NeverCrossed`, what `input_overlap` shows holds without reservation for such clients |
| `events` | gapless streams; delivery; dead streams leave | 2 streams, ring of 2, 4 events: the ring overflows twice, before and after a subscription |
| `camera` | the timer of an active camera; only the last action's timer sends it home; return; the recording ends on what observers saw | 2 pointer threads, 2 timers, 2 activities, 1 recording that starts and ends at any time: a timer can be late once while another is armed |
| `recorder` | one recording per API; captures kept; renders end | 2 threads, 3 takes, 4 seconds, all faults and restarts |
| `install` | approvals single-use, what apt installs approved; answered installs survive; installs end | 2 threads, 2 approvals, one list, one path with two contents, all faults: apt, an unusable manifest, files that change, crashes, recreation with a replay that works, fails or is switched off |
| `terminals` | a submitted line is its call's text; starts end no session | 2 calls, each of any kind; 3 names, one the bootstrap session's, one that begins so, and one apart; 4 kinds of text; time limits, failing creation, restarts. A third call adds nothing that the property tells apart (it relates a line to one other call), and the theorem is for any number. Calls are symmetric; safety only |
| `showcase_flow` | the prompt arrives once; a failed script cleans up; others' recordings are kept; the script ends | 4 prompts (empty; leading and doubled spaces, a word longer than a chunk; punctuation; the default prompt, cut elsewhere than `human_chunks` would), with and without recording, 1 human, 1 other operator, TTLs of 2 ticks |
| `key_frames` | the render shows the camera; moves settle on their targets and glide there without a jump; rests cost nothing | 3 key frames at any of 14 ticks; a frame is 2 ticks and a transition 7, so key frames fall into one frame or one move and a move ends between frames; 3 pivots at both edges and inside; 24 pixels of 100 fractions |
| `computer_calls` | batches fit; texts arrive as a beginning; paths end at their target | 2 calls under one agent id, 1 human, another agent, 3 positions (distances 0, 1, 2), paths capped at 2 steps, so a drag between the ends asks for more than its cap; a text of 3 deltas: after a space, inside a word, the rest; requests that are lost, late, or done in part. Calls are symmetric; safety only |

One further run states what a document of the repository says and what the code
does not do; TLC shows how:

| Run | Sentence | What happens |
|---|---|---|
| `input_stays_held` | docs/TESTING.md:85-86: "no key or mouse button may remain held" | `hold_key` with an alias (`esc`, `pgup`, `del`) is tracked under that name and pressed as the keysym it stands for; the clean-up's `keyup esc` is ignored by xdotool. (Aliases that xdotool knows itself, such as `enter`, are not affected) |

Three more sentences of the documents do not hold, either. The models show it to
whoever asks TLC for the formula, and the passing properties except exactly these cases:

- **An edited `.deb` is installed under the approval of the old one.** README.md:174-175
  says that the approval is "bound to the file's SHA-256 digest". A package is hashed when
  its install is requested and handed to apt by path, after the wait for the
  installer's lock and `apt-get update` (install_broker.py:148-160). A file that is replaced
  in between is installed, and the manifest records the digest that was approved:
  `Approve`, `Install`, `Acquire`, `EditFile`, `AptUpdate`, `AptInstall` violates
  `\A q \in installed : \E id \in DOMAIN issued : issued[id] = q`.
  `ApprovalsAreExactAndSingleUse` is that sentence for every install, with the digest, but
  for threads in `swapped`: nothing else leads there.
- **No path comes to the first column or row.** docs/API.md:92 calls coordinates
  "absolute framebuffer pixels", and service.go:489 accepts every "non-negative [x, y] pair".
  The client's `x,omitempty` and `y,omitempty` (client.go:28-29) leave a zero out, and the
  API refuses the whole batch for want of a coordinate (input_controller.py:295-299): a
  move from 2 to 0 violates `[][Post(c) /\ Holds(lease, Me) => running'[c] # <<>>]_vars`.
- **A recording may keep an older shot than observers were shown.** docs/SPEC.md:32-33:
  "the saved 30 fps recording must contain the same movement". The start of a recording
  reads the camera (api.py:316), a pointer action moves it and tells recorder and
  observers, and then the start's older shot is tracked: until the next movement the
  recording shows the whole desktop while observers are zoomed in. Two listeners that
  overtake each other do the same. `StartRecording`, `ReadCamera`, `Follow`, the pointer's
  `TrackCamera` and `EmitShot`, the start's `TrackCamera` violates
  `capturing /\ Passing = {} => framed = View(shown)`, which `RecordingShowsTheSame` says
  of behaviours in which no two of them were under way together (`crossed`).

Other behaviour of the same kind that the models describe and the properties
leave room for, where the models were made to show it:

- A human claim may be answered while the interrupted batch has still to run its
  `mouseup`: the batch's sweep took the held set, the preemption's found it empty.
- `cancel_current` may hit that very `mouseup`; its failure is ignored and the
  item is in no set any more. A `click`, `key` or `text` that is cancelled between
  press and release is not tracked either. The variable `lost` names these items
  so that `PressesAreTracked` can say that they are the only ones.
- Two overlapping batches of one agent share `_current`; a takeover then cancels
  the newer process only. The variable `crossed` marks these behaviours;
  `NeverCrossed` shows that clients which wait do not get there.
- The computer MCP reads the pointer before it claims the lease. A click whose
  target is where the pointer is then gets no path: if a human who is in control
  moves the pointer and gives back before the claim, it lands where the human left
  it. `PathsEndOnTarget` speaks of clicks that have a path. All MCP clients share
  one agent id, so two calls' batches can interleave (`overlapped`), and typing
  goes on after a takeover that begins and ends between two deltas.
- Two recordings that start in one second share their file names; the later one
  overwrites. `CapturesAreKept` excepts them by name.
- A command may take 15 s and a lease 12 s: the lease can lapse under the command,
  and another agent's claim does not preempt, so that two controllers produce input
  for a moment (docs/TESTING.md:97-98 says that only one does). `ControlLease` shows
  that nothing is accepted from the first one any more.
- ffmpeg outlives an API that dies; after the restart a second recording can run
  beside the first (docs/API.md:162 allows one). `OneRecording` speaks of one API.
- The first plan that cannot be replayed, for one changed or missing `.deb`, ends
  the replay of all later ones (`gaveUp`); README.md:177-178 does not mention it.
- `-t name` means a session whose name begins so when there is none of that name:
  the text of a send may go to `agent-2` and its Enter to a new `agent`, and a
  repeated destroy ends a second session (`split`).
- A tmux command that takes 20 s is answered with 503, carried out or not: text
  may be on a line that the client believes empty.
- `send-keys -l` gets the text without a `--` before it: one that begins with `-` is
  taken for flags, and is either an error or typed by nobody and answered with
  success. A newline in a text submits the line at once; the documented example
  `{"text":"ls\n","enter":true}` (docs/API.md:174) submits `ls` and then an empty
  line. `LinesAreWhole` counts lines that texts submit and excepts that empty line.
- The start of the API ends `relay-bootstrap` by a name that tmux may take for a
  beginning: when that session could not be put up, or is gone already, a session
  such as `relay-bootstrap-2` goes instead. `SessionsSurviveStarts` allows just that.
- `TerminalValidationError` is a `TerminalError`, and `handle` catches that first:
  what the bridge refuses is answered with 503, and the clause for 422 behind it is
  never reached (api.py:217-220, docs/API.md:318). What the route refuses first (a name
  that is missing or too long on creation, a text that is no string) is 422.
- A START that the demo script gave up on may be carried out later; nobody ends
  that recording. `FailedScriptCleansUp` excepts it (`unheard`). The script's
  status check refuses to begin when anybody holds the lease, an agent too.
- In a render the position is eased and the zoom linear, so in mid-move the crop
  may reach over the edge of the picture, where ffmpeg clamps it; the browser eases
  both.
- The render's expression nests one `if` per sample. `RestsCostNothing` bounds the
  samples of a move by the frames of a transition, and nothing bounds the moves: a
  recording with a dozen or so comes near the nesting that ffmpeg's evaluator accepts.
- A package whose manifest entry cannot be written is installed and answered as a
  failure (`RecordFails`); the next container does not have it.

What some properties cannot show, so that nobody relies on them for it:
`PreemptionReturns` sees waits for processes but no lock order, because a step is a
whole critical section; `CapturesAreKept` and `OneRecording` except shared seconds and
an ffmpeg whose API died; `AnsweredInstallsSurvive` asks for a package of the name, of
whatever digest; `LinesAreWhole` excepts `split` sends; `FailedScriptCleansUp` excepts a
START or DISCARD that went unheard; `MovesGlide` has a conjunct on the speed of the
position whose limit exceeds the display of the TLC instance, so that there only its
zoom, its settling and its monotony can fail (the theorem is for every display).

### Bounds

`MaxBatch`, `MaxGeneration` (preemptions), `MaxEvents`, `MaxActivity`,
`MaxTakes`, `MaxSecond`, `MaxFrames` (key frames), `MaxTick` and the finite sets
`Approvals` and `Calls` (requests or tool calls, each made once) end otherwise
unbounded counters. `MaxGeneration` is a guard on the requests that preempt
(`Budget`), so that a preemption that has begun always finishes. Where such a
bound or the end of all threads' work lets the model stop, the configuration turns
deadlock checking off (`EventLog`, `ShowcaseCamera`, `ScreenRecorder`,
`InstallBroker`, `ComputerService`, `Terminals`, `ShowcaseFlow`, `KeyFrames`);
`ControlLease` and `InputController` are checked for deadlock.

### Fairness

Only what the runtime schedules is fair. Handler threads take their next step
(`WF` of `Thread`, `Serve`, `Listener`); a `threading.Timer` expires; xdotool
ends, if only by its 15 s limit; apt and ffmpeg end by their time limits; the
clock advances (`Tick`); the demo script makes its next step and its calls end by
their 45 s limit (`Send`, `Succeed`, `Fail`, `GiveUp`), answered or not. No client ever has to call, read, release or leave,
and no event has to be emitted. `InstallsEnd` and `PreemptionReturns` need no
strong fairness on the locks: TLC finds them under weak fairness, because the
locks are held for finitely many steps and finitely many requests compete.

## 4. What the properties are for

The hazards in `PROJECT.json` list, at its line, what in this code is hard to
test. The properties relate state across components: the lease and the history
of claims (`AcceptedOnlyAfterLastClaim`), commands and preemptions
(`StaleCommandIsBeingStopped`), X and the held set (`PressesAreTracked`), a
stream and the log (`StreamsAreGapless`), a timer and the activity that armed it
(`ActiveCameraHasItsTimer`), a path and the pointer at its click
(`PathsEndOnTarget`), files and outcomes (`CapturesAreKept`), what a human saw and what
apt installed (`ApprovalsAreExactAndSingleUse`), answers and what a recreated
container contains (`AnsweredInstallsSurvive`), a line in a pane and the calls
that typed it (`LinesAreWhole`), sessions and restarts (`SessionsSurviveStarts`),
a script's answers and the desktop (`PromptArrivesOnce`, `FailedScriptCleansUp`),
sampled frames and the key frames (`RenderFollowsCamera`).

## 5. Proofs

Each module of proofs is for all values of the constants that satisfy the named
assumptions of its specification. These say that TTLs, capacities, batch sizes and
the display are positive, that ids of different kinds differ (in the code an owner
is a pair of kind and id), that the markers for "none" are nobody's, that batches
are finite sequences of well-formed actions, that session names are sequences
of strings with the bootstrap name among them, that the default chunks make the default prompt, and that a drag of the most steps
that the service allows fits into a batch of the API (24 and 50 in the code).

Every proof has the same shape: an inductive invariant, one step per action of
`Next` that preserves it, and a temporal step that concludes.

- **`ControlProofs`**, the lease: `TypeCorrect`, `DisplacedClientsAreTold` (`[]
  AcceptedOnlyAfterLastClaim`), `LeaseImplementsHandoff` (the refinement of
  `Handoff`), `LiveLeaseIsKept`. `IInv == TypeOK /\ AcceptedOnlyAfterLastClaim`; its
  conjunct that a lease which names anybody names the last claimant carries it:
  `extend_if_owner` revives a lapsed lease, and is harmless only because a lapsed
  lease that was claimed, released or dropped does not name its old owner any more.
- **`InputControllerProofs`**: `TypeCorrect` (`ThreadsOK`, `PlacesOK`, `SharedOK`);
  `StaleCommandsAreStopped` from `SlotInv`: while nothing has crossed, at most one
  thread is in an action (`OneAction`), the command that runs is the one in
  `_current` (`RunsInSlot`), and a running command of a preempted generation has a preemption
  before or at its stop (`BeingStopped`). `PressesStayTracked` from `ScriptsInv`
  (which events a thread's command can have left, for each `pc`) and `TrackInv`: what
  a command may leave pressed is held before it presses it (`HeldFirst`), a command
  after which the controller forgets an item has released it (`LetGo`), and whatever
  X has pressed somebody has (`SomebodyHas`).
  `OnePairNeverCrosses` proves `[]NeverCrossed` under `OnePair`: one agent and one human
  at most, clients that wait for their answers, and no lapse of a lease. These are the
  clients of run `input_one_operator`; those of `input_overlap`, which have none of the
  three, do cross. The theorem is for every number of threads, every batch and
  every key. Its invariant `PairInv` says that each client occupies one thread
  (`OneEach`), that the lease is live and the human's while its call is under way
  (`Lives`, `HumanHas`), and that past its change of the generation every batch that was
  admitted is cancelled (`StoppedAll`). Together with the two theorems before, such
  clients get `StaleCommandIsBeingStopped` and `PressesAreTracked` without the
  reservation `crossed`.
- **`ControlProofs`**, the event log: `LogTypeCorrect`; `ClientsMissNothing` (`[]StreamsAreGapless`) from
  `GaplessInv`: the ring is the end of all events (`RingIsTheEnd`), and received
  events, backlog and queue of each stream, taken together, are one run up to the
  newest, with a case per status of the generator. Lemmas on runs of numbers and on
  what concatenation does to them stand before it.
- **`ShowcaseCameraProofs`**: `TypeCorrect`; `CameraIsTimed` and
  `CameraFollowsForTheTimeout` from `TypeOK`, `LatestTimer` (of the timers that may still
  fire only the remembered one, which is the one that the last pointer action armed, has
  the current generation) and `ActiveIsTimed`. The second theorem is about the history
  `armed`, not about generations: it needs them to be handed out once.
  `RecordingAgrees` (`[]RecordingShowsTheSame`) from `PassInv`: unless updates have
  crossed, at most one thread is between the camera's lock and its listeners
  (`OneAtATime`), and a recording has the camera's shot unless that thread has yet to
  tell it (`Told`).
- **`RecordingProofs`**, the recorder: `TypeCorrect`, `RecordsOneAtATime`, `CapturesStay` from
  `IInv`: a take that is under way or over has its file names (`Started`), the only
  live capture of this API is the one in the slot, which is empty while something
  renders (`SlotOrRender`), and what each stage of a stop or a render implies for the
  files (`Stopped`, `Rendered`).
- **`RecordingProofs`**, the key frames: `RecordingFollowsCamera`
  (`[]RenderFollowsCamera`), `RecordingGlides` (`[]MovesGlide`) and
  `RecordingIsAffordable` (`[]RestsCostNothing`). `Looped` is the invariant of the loop
  over frames: the move under way is the one that the camera makes after the key frame
  before `event` (`MovesOf`, one recursive function for all of the camera's moves),
  all of them are due, and the last sample shows where that move is. From it a round of
  the loop ends with the camera of its frame (`RoundOfTheLoop`: the key frame before
  `event` is the latest one, because key frames come in the order of their times), and
  `Pictured` says that whatever sample the render's expression selects for a frame so
  far shows that frame's camera. Key frames of time 0, which the first frame does not
  take, have not moved the camera (`CameraAtZero`), and after the last frame it rests
  (`CameraRests`). For the settling, `AtApproaches` shows that the eased position and the
  zoom go to their target without turning back, with the floors of the model, and
  `RoundedMonotone` that rounding to pixels keeps it. For the speed, `MovesStayInside`
  shows by induction over the key frames that interrupted moves start and end among the
  crops, so that none is longer than `Span`; `MoveSpeed`, what one of them gets on between
  two times, from `CubeStep` (the curve is steepest where it starts) and
  `MovesTakeTime` (no move is more than half a frame shorter than a transition); and
  `MovesTravel` adds the moves up that one frame sees, with a fraction of a pixel for
  each, which is where `MaxFrames` in the bound comes from. For the costs, `Priced` gives
  every move an allowance of a transition's frames: `FramesOfAMove` bounds the
  frames between a move's start and its rounded end, and a sample that is repeated at
  the end because the camera has settled is paid from the allowance of a key frame that
  came after the last frame.
- **`InstallBrokerProofs`**: `TypeCorrect`; `ApprovalsCount` from `ApprovalInv` (threads
  that install a plan are at most the approvals spent on it) and `ExactInv`: what a
  thread installs, and what the manifest lists, was approved (`Approved`, which only
  grows), and the path of a thread that waits for apt holds what was approved unless the
  thread is in `swapped`; so what apt finds there (`ExactEffect`) is approved or
  excepted, also when it outlives the broker, and the replay installs only what its
  files still match. `InstallsSurvive` from
  `SurvivalInv`: an answered plan is in the manifest, a thread in its last two steps
  has its package installed and then its plan recorded (`ThreadsKeepUp`), and the
  container has what the replay has passed and, once up, the whole manifest unless
  the replay gave up (`Replayed`).
- **`TerminalsProofs`**: `TypeCorrect`, `StartsEndNoSession`; `LinesStayWhole` from
  `LinesInv`: sends under way have met (`SendsMeet`), only a send that has typed is
  in a pane, and with its own text (`SendsType`), between its commands a send means the
  one session that has its text, if its text leaves anything, unless sessions came or
  went (`OneSession`), what is on an open line
  was to stay there, waits for its Enter, was split or failed (`OpenLines`), and submitted lines are
  as the property says (`ClosedLines`).
- **`ShowcaseFlowProofs`**: `FailureCleansUp` and `OthersAreLeftAlone` from `IInv`: a
  recording that runs is known to the script (`Known`), and what it is about to
  discard is its own (`WillDiscard`). `PromptIsTyped` (`[]PromptArrivesOnce`) and
  `TypeCorrect` need what the script's plan is for any prompt: `ChunksMakeTheText` proves
  that the chunks, of `human_chunks` or the default prompt's, put together, are the text, and `ScriptParts` that the
  visible part of the plan is the click, the chunks and Enter. The invariant `Arrival`
  then relates the position in the plan, the call under way, the calls that were given
  up and what the composer got: `done` is what the answered calls do, and perhaps what
  the one under way does; a call that may still be carried out has not been.
- **`ComputerServiceProofs`**, the functions: `PacedMoveReachesTarget` (moves inside the
  display, a wait between two, at most one move per step, the last onto the target) by
  arithmetic on the easing curve: `EasedBounds` writes `frictionProgress` and its
  distance from 1 as sums of products, and `RoundedShare` shows that rounding
  leaves the ends alone. `DragFacts` adds that the two paths of a drag share its
  steps. `DeltasMakeTheText` shows that the deltas of `splitTextDeltas` are consecutive
  pieces of the text (`Pieces`).
- **`ComputerServiceProofs`**, the calls: `TypeCorrect`, `BatchesAlwaysFit`,
  `TextArrives`, `PathsEnd` (an action property) from `ServiceInv`. `CallsGood` says of one
  call, as a value, that its batches are well made, that what the API has still to do
  is the end of the first one, and that what X got of the text, what is being typed
  and what is still to be sent are the text (`Sent`); a call that was given up keeps
  only the middle one. `Alone` says that a call which waits, and which no claim has
  overlapped, is the only one with a batch under way; `OnPath`, that as long as the lease
  is its own the pointer is where its batch has moved it. Neither is inductive without the
  other: the batch of another call would move the pointer. A take-over cannot bring
  the pointer back into play, because a lease that names the agent again was claimed
  again, which marks the call (`overlapped`).

Three of these results are about recursion. Induction over the naturals is used in the
form "a nonempty set of naturals has a least element" (`LeastNatural`, from the library's
`NatLessThanWellFounded` and `WFMin`), which takes a set and no operator. A recursive
function is a CHOICE, so it has its defining property only if some function has it:
`Flattened` and `SplitIsDefined` show that one exists, starting from the end of the
sequence and of the text, and `ChainExists` does for interrupted moves, by the least
length without one.

Only model-checked: every liveness property (`SilentClientLosesControl`,
`PreemptionReturns`, `EventsArrive`, `DeadStreamsLeave`, `CameraReturns`,
`RendersEnd`, `InstallsEnd`, `ScriptEnds`), because the proof system has no rule for
fairness.

## 6. Not modelled

- Validation, error wording, authentication, metrics, static files: no state.
- The accessibility snapshot: it reads and keeps nothing.
- The agent gateway: each decision is a function of one request; nothing is kept
  between two, and the stream it proxies is Coddy's.
- `relayctl.py` sends one request per invocation; `configure-chromium-profile.py`
  edits a file before anything else runs; `list_sessions` is a query.
- Of the terminal bridge: window names that `-t` would match, working directories,
  the content of the screen, and what a shell does with a line or a control character.
- The order in which clean-up releases keys and buttons is left open.
- What apt or ffmpeg do inside; their failure at any point is a step.
- Coordinates: one axis, clamped, is enough for what the camera promises, and
  makes the distance of a pointer path an integer; diagonal paths round twice.
- The computer MCP's screenshots, recording, terminal and inspection tools and its
  key names: requests that are passed through.

## 7. Plan

Done: lease, input path, events, camera, recorder and its key frames, broker,
computer calls, terminals, demo script, and the theorems above. In order:

1. `LeaseView`: the web client's polling and buttons against the lease (composes
   `Lease`): the view follows the server although answers overtake each other.
2. `AgentPanel`: the SSE transcript reducer and task state of `agent-view.mjs`.
3. `ControlEvents`: the previous owner is read before the claim, outside its lock
   (api.py:411), so that a `control.preempted` event can be missing or name another agent.
4. A recorder that takes `KeyFrames`' samples as an abstract render, so that failures
   of a long expression and `RendersEnd` meet in one model.
