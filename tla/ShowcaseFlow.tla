------------------------------ MODULE ShowcaseFlow ------------------------------
(***************************************************************************)
(* The demo script (tools/relay_showcase_flow.py): a fixed plan of MCP     *)
(* calls, each with a time limit, against a desktop whose lease humans may *)
(* take and whose recorder other operators use, too.  A call that is given *)
(* up may still be carried out later.  What happens inside a call is the   *)
(* subject of ComputerService and ScreenRecorder.                          *)
(***************************************************************************)
EXTENDS Lease, FiniteSets, SequencesExt

CONSTANTS
  Me,        \* RELAY_AGENT_ID of the computer MCP
  Prompts,   \* prompts, as sequences of "w" (word), "s" (space), "p" (other)
  DefaultPrompt,  \* DEFAULT_PROMPT, so written
  DefaultCuts     \* where in it a string of DEFAULT_CHUNKS ends

ASSUME FlowAssumption ==
  /\ Me \in Agents
  /\ Prompts \subseteq Seq({"w", "s", "p"})
  \* Joined, DEFAULT_CHUNKS are DEFAULT_PROMPT.
  /\ DefaultPrompt \in Seq({"w", "s", "p"}) \ {<<>>}
  /\ DefaultCuts \subseteq 1..Len(DefaultPrompt) /\ Len(DefaultPrompt) \in DefaultCuts

VARIABLES
  lease,      \* the API's ControlLease
  recording,  \* whose capture runs: "none", "flow" or "other"
  prompt,     \* --prompt
  record,     \* without --no-recording
  pos,        \* calls of the script that were answered with success
  phase,      \* "run", "discard"; "submitted" or "failed" at the end
  call,       \* the call under way: "idle", "sent", "ok", "error"
  started,    \* run_showcase's variable
  late,       \* calls given up that may still be carried out
  done,       \* history: computer actions that were carried out
  unheard,    \* history: record_screen modes without an answer of success
  taken       \* history: somebody else has ended the script's recording

desktop == <<lease, recording, done, taken>>
options == <<prompt, record>>
client == <<pos, phase, call, started, unheard>>
vars == <<desktop, options, client, late>>
-----------------------------------------------------------------------------
(* human_chunks and showcase_action_plan.                                  *)

WordStart(text, i) ==
  CHOOSE r \in 0..i :
    /\ \A j \in (r + 1)..i : text[j] = "w"
    /\ r = 0 \/ text[r] # "w"

\* Fault: nothing closes the last chunk.
CutsWithoutEnd(text) ==
  {i \in 1..(Len(text) - 1) :
     /\ text[i + 1] # "s"
     /\ \/ text[i] # "w" \/ text[i + 1] # "w"
        \/ (i - WordStart(text, i)) % 3 = 0}

\* A chunk of human_chunks ends after position i: spaces stay with what is before
\* them, words are cut after every third character, anything else stands alone.
HumanCuts(text) ==
  {i \in 1..Len(text) :
     \/ i = Len(text)
     \/ /\ text[i + 1] # "s"
        /\ \/ text[i] # "w" \/ text[i + 1] # "w"
           \/ (i - WordStart(text, i)) % 3 = 0}

\* The prompt that is the default comes with its chunks, written by hand.
Cuts(text) == IF text = DefaultPrompt THEN DefaultCuts ELSE HumanCuts(text)

\* Where the k-th chunk ends; the chunk before the first ends at 0.
CutAt(text, k) ==
  IF k = 0
    THEN 0
    ELSE CHOOSE i \in Cuts(text) : Cardinality({j \in Cuts(text) : j <= i}) = k

ChunksOf(text) ==
  [k \in 1..Cardinality(Cuts(text)) |->
     SubSeq(text, CutAt(text, k - 1) + 1, CutAt(text, k))]

Item(tool) == [tool |-> tool, text |-> <<>>]

TypeItem(chunk) == [tool |-> "type", text |-> chunk]

Visible ==
  LET chunks == ChunksOf(prompt)
  IN  <<Item("left_click")>>
      \o [k \in DOMAIN chunks |-> TypeItem(chunks[k])]
      \o <<Item("key")>>

Script ==
  <<Item("runtime_status"), Item("screenshot")>>
  \o (IF record THEN <<Item("START")>> ELSE <<>>)
  \o Visible

Current == IF phase = "discard" THEN Item("DISCARD") ELSE Script[pos + 1]
-----------------------------------------------------------------------------
TypeOK ==
  /\ lease \in Leases
  /\ recording \in {"none", "flow", "other"}
  /\ prompt \in Prompts /\ record \in BOOLEAN
  /\ phase \in {"run", "discard", "submitted", "failed"}
  /\ pos \in 0..Len(Script)
  /\ phase = "submitted" <=> pos = Len(Script)
  /\ call \in {"idle", "sent", "ok", "error"}
  /\ call # "idle" => phase \in {"run", "discard"}
  /\ started \in BOOLEAN /\ taken \in BOOLEAN
  /\ unheard \subseteq {"START", "DISCARD"}
  /\ done \in Seq([tool : {"left_click", "type", "key"}, text : Seq({"w", "s", "p"})])
  \* What is under way is one call, beside the one that made the script fail.
  /\ Cardinality(late) <= 2
  /\ phase = "run" => late = {}

Init ==
  /\ lease = NoLease
  /\ recording \in {"none", "other"}
  /\ prompt \in Prompts /\ record \in BOOLEAN
  /\ pos = 0 /\ phase = "run" /\ call = "idle"
  /\ started = FALSE
  /\ late = {} /\ done = <<>> /\ unheard = {} /\ taken = FALSE
-----------------------------------------------------------------------------
(* The script.                                                             *)

\* Fault: the recording counts as started when START is sent.
SendStarted ==
  /\ phase \in {"run", "discard"} /\ call = "idle"
  /\ call' = "sent"
  /\ started' = (started \/ Current.tool = "START")
  /\ UNCHANGED <<desktop, options, pos, phase, late, unheard>>

\* MCPClient.call: the request goes out.
Send ==
  /\ phase \in {"run", "discard"} /\ call = "idle"
  /\ call' = "sent"
  /\ UNCHANGED <<desktop, options, pos, phase, started, late, unheard>>

\* Fault: no except clause.
RaiseUncaught ==
  /\ call' = "idle"
  /\ phase' = "failed"
  /\ unheard' = unheard \cup ({Current.tool} \cap {"START", "DISCARD"})
  /\ UNCHANGED <<pos, started>>

\* The except clause: an exception ends the script, after a try to discard what
\* it had started.
Raise ==
  /\ call' = "idle"
  /\ phase' = IF phase = "run" /\ started THEN "discard" ELSE "failed"
  /\ unheard' = unheard \cup ({Current.tool} \cap {"START", "DISCARD"})
  /\ UNCHANGED <<pos, started>>

\* An answer of success: the next call of the plan, or the end.
Succeed ==
  /\ call = "ok"
  /\ call' = "idle"
  /\ IF phase = "discard"
       THEN phase' = "failed" /\ UNCHANGED <<pos, started>>
       ELSE /\ pos' = pos + 1
            /\ phase' = IF pos' = Len(Script) THEN "submitted" ELSE "run"
            /\ started' = (started \/ Current.tool = "START")
  /\ UNCHANGED <<desktop, options, late, unheard>>

\* isError, a JSON-RPC error, or an HTTP status
Fail ==
  /\ call = "error"
  /\ Raise
  /\ UNCHANGED <<desktop, options, late>>

\* Fault: the script goes on with the next call.
GiveUpAndGoOn ==
  /\ call \in {"sent", "ok", "error"} /\ phase = "run"
  /\ call' = "idle"
  /\ pos' = pos + 1
  /\ phase' = IF pos' = Len(Script) THEN "submitted" ELSE "run"
  /\ late' = IF call = "sent" THEN late \cup {Current} ELSE late
  /\ UNCHANGED <<desktop, options, started, unheard>>

\* Fault: a call has no time limit.
GiveUpAnswered ==
  /\ call \in {"ok", "error"}
  /\ Raise
  /\ UNCHANGED <<desktop, options, late>>

\* The 45 s are over or the connection breaks, before or after the call was
\* carried out.
GiveUp ==
  /\ call \in {"sent", "ok", "error"}
  /\ late' = IF call = "sent" THEN late \cup {Current} ELSE late
  /\ Raise
  /\ UNCHANGED <<desktop, options>>
-----------------------------------------------------------------------------
(* The computer MCP and the API.                                           *)

\* A computer tool claims the lease and acts under it.
Act(item) ==
  /\ lease' = Grant(Me)
  /\ done' = Append(done, item)
  /\ UNCHANGED <<recording, taken>>

Refuse == lease' = Expire(lease) /\ UNCHANGED <<recording, done, taken>>

\* _runtime_state: the script goes on only if nobody controls the desktop.
NobodyControls == Controller(lease) = NoId /\ Refuse

StartRecording ==
  /\ recording = "none"
  /\ recording' = "flow"
  /\ UNCHANGED <<lease, done, taken>>

DiscardRecording ==
  /\ recording # "none"
  /\ recording' = "none"
  /\ UNCHANGED <<lease, done, taken>>

\* A call is carried out: what it changes, and whether it could.
Effect(item) ==
  CASE item.tool = "runtime_status" -> NobodyControls
    [] item.tool = "screenshot" -> UNCHANGED desktop
    [] item.tool = "START" -> StartRecording
    [] item.tool = "DISCARD" -> DiscardRecording
    [] OTHER -> MayClaim(lease, Me) /\ Act(item)

\* The call under way is carried out and answered; something else may fail
\* before or after, and then the answer is an error.
Serve ==
  /\ call = "sent"
  /\ \/ Effect(Current) /\ call' \in {"ok", "error"}
     \/ Refuse /\ call' = "error"
  /\ UNCHANGED <<options, pos, phase, started, late, unheard>>

\* A call that was given up is carried out, or gets lost.
ServeLate(item) ==
  /\ item \in late
  /\ late' = late \ {item}
  /\ Effect(item) \/ UNCHANGED desktop
  /\ UNCHANGED <<options, client>>
-----------------------------------------------------------------------------
(* Everybody else.                                                         *)

HumanClaims(h) ==
  /\ lease' = Grant(h)
  /\ UNCHANGED <<recording, done, taken, options, client, late>>

HumanReleases(h) ==
  /\ Holds(lease, h)
  /\ lease' = NoLease
  /\ UNCHANGED <<recording, done, taken, options, client, late>>

Time ==
  /\ lease' = LeaseTick(lease)
  /\ UNCHANGED <<recording, done, taken, options, client, late>>

\* Another operator starts a recording.
OtherStarts ==
  /\ recording = "none"
  /\ recording' = "other"
  /\ UNCHANGED <<lease, done, taken, options, client, late>>

\* Somebody saves or discards the recording that runs, or its ffmpeg dies.
OtherEnds ==
  /\ recording # "none"
  /\ recording' = "none"
  /\ taken' = (taken \/ recording = "flow")
  /\ UNCHANGED <<lease, done, options, client, late>>
-----------------------------------------------------------------------------
Next ==
  \/ Send \/ Succeed \/ Fail \/ GiveUp
  \/ Serve \/ \E item \in late : ServeLate(item)
  \/ \E h \in Humans : HumanClaims(h) \/ HumanReleases(h)
  \/ Time \/ OtherStarts \/ OtherEnds

\* The script runs; an answer comes or its time limit passes.
Spec ==
  /\ Init /\ [][Next]_vars
  /\ WF_vars(Send) /\ WF_vars(Succeed) /\ WF_vars(Fail) /\ WF_vars(GiveUp)
-----------------------------------------------------------------------------
TextOf(items) == FlattenSeq([k \in DOMAIN items |-> items[k].text])

\* test_showcase_flow.py: chunks "preserve text".  Whichever call is refused,
\* answered too late or carried out after it was given up, the composer has got
\* the beginning of the visible plan, each action once and in order; and a script
\* that reports "submitted" has typed the prompt as it was given and submitted it.
PromptArrivesOnce ==
  /\ IsPrefix(done, Visible)
  /\ phase = "submitted" => done = Visible /\ TextOf(done) = prompt

\* A script that failed leaves no recording of its own behind, unless it never
\* learned that START had worked or its DISCARD was not answered with success.
FailedScriptCleansUp ==
  phase = "failed" /\ recording = "flow" => unheard # {}

\* The script does not discard another operator's recording -- not even when its
\* own START was refused because of it -- unless somebody had ended the one it
\* had started.
OthersRecordingsAreKept ==
  [][ recording = "other" /\ recording' = "none" => OtherEnds \/ taken ]_vars

\* Every run of the script comes to an end, whatever gets lost.
ScriptEnds == <>(phase \in {"submitted", "failed"})
=============================================================================
