------------------------------- MODULE Terminals -------------------------------
(***************************************************************************)
(* The terminal routes of the control API and the tmux bridge behind them  *)
(* (desktop/control/tmux_bridge.py, api.py).  A handler thread runs one    *)
(* tmux command after the other and takes no lock; the tmux server and its *)
(* sessions outlive the API, which puts up and removes a session of its    *)
(* own whenever it starts.                                                 *)
(***************************************************************************)
EXTENDS Naturals, FiniteSets, SequencesExt

CONSTANTS
  Calls,        \* requests, each made once
  Names,        \* session names that match SESSION_PATTERN, as sequences
  Bootstrap,    \* relay-bootstrap, one of them
  BadName,      \* a name that does not match: stands for every parameter that
                \* a route or the bridge refuses
  Faults        \* "timeout": a command may take 20 s; "spawn": tmux may be
                \* unable to create a session; "crash": the API may die

ASSUME TerminalsAssumption ==
  /\ Names \subseteq Seq(STRING)
  /\ Bootstrap \in Names /\ BadName \notin Names
  /\ Faults \subseteq {"timeout", "spawn", "crash"}

\* Texts to send: one without a newline, one with text after its last newline, one
\* that ends with a newline, and one that tmux takes for flags.
Text == {"words", "lines", "line", "dashed"}

\* Those that leave nothing in the line that is open after them.
NothingLeft == {"line", "dashed"}

Requests ==
  [op : {"create", "destroy", "capture"}, name : Names \cup {BadName},
   text : {"words"}, enter : {FALSE}]
  \cup [op : {"send"}, name : Names, text : Text, enter : BOOLEAN]
  \cup [op : {"send"}, name : {BadName}, text : {"words"}, enter : {FALSE}]

NoRequest == [op |-> "none", name |-> BadName, text |-> "words", enter |-> FALSE]

VARIABLES
  tmux,      \* per live session: history of what send-keys typed into its pane
  boot,      \* ensure_server: "new", "kill"; "up" once the API serves
  pc,        \* per call: "new", "run", "enter" or "over"
  req,       \* ... what it asks for
  answer,    \* ... "none", "ok", "invalid" (422), "unavailable" (503), "lost"
  met,       \* history: pairs of sends that were under way at the same time
  split      \* history: sends that may have met two sessions, one per command

vars == <<tmux, boot, pc, req, answer, met, split>>

Live == DOMAIN tmux

\* What a command types: a text of a call, or its Enter.
Keys == [call : Calls, keys : {"words", "lines", "line", "Enter"}]

\* Whether it submits a line, and whether it leaves text in the one that is open
\* after it.
Submits(key) == key.keys # "words"

Leaves(key) == key.keys \in {"words", "lines"}

UnderWay == {c \in Calls : pc[c] \in {"run", "enter"}}

TypeOK ==
  /\ Live \subseteq Names
  /\ \A n \in Live : tmux[n] \in Seq(Keys)
  /\ boot \in {"new", "kill", "up"}
  /\ pc \in [Calls -> {"new", "run", "enter", "over"}]
  /\ req \in [Calls -> Requests \cup {NoRequest}]
  /\ answer \in [Calls -> {"none", "ok", "invalid", "unavailable", "lost"}]
  /\ met \subseteq Calls \X Calls
  /\ split \subseteq Calls
  /\ \A c \in Calls : pc[c] = "over" <=> answer[c] # "none"
  /\ \A c \in UnderWay : req[c].name \in Names
  /\ boot # "up" => UnderWay = {}

\* The API starts, beside whatever sessions tmux has from an earlier one.
Init ==
  /\ \E S \in SUBSET Names : tmux = [n \in S |-> <<>>]
  /\ boot = "new"
  /\ pc = [c \in Calls |-> "new"]
  /\ req = [c \in Calls |-> NoRequest]
  /\ answer = [c \in Calls |-> "none"]
  /\ met = {}
  /\ split = {}
-----------------------------------------------------------------------------
(* tmux.                                                                   *)

\* The sessions that `-t name` may mean: the one of this name or, without
\* one, those whose name begins so; several are an error.  (A pane may also be
\* found by the name of its window; the names here are those of no window.)
Meant(n) == IF n \in Live THEN {n} ELSE {m \in Live : IsPrefix(n, m)}

Found(n) == Cardinality(Meant(n)) = 1

Target(n) == CHOOSE m \in Meant(n) : TRUE

\* Sends between their two commands that may mean another session from now on.
Between(n) == {c \in Calls : pc[c] = "enter" /\ IsPrefix(req[c].name, n)}

\* new-session; a second one of the same name is an error.
NewSession(n) ==
  /\ tmux' = [m \in Live \cup {n} |-> IF m = n THEN <<>> ELSE tmux[m]]
  /\ split' = split \cup Between(n)

EndSession(n) ==
  /\ tmux' = [m \in Live \ {n} |-> tmux[m]]
  /\ split' = split \cup Between(n)

SendKeys(n, key) ==
  /\ tmux' = [tmux EXCEPT ![Target(n)] = Append(@, key)]
  /\ UNCHANGED split

Nothing == UNCHANGED <<tmux, split>>

\* A shell ends by itself, or whoever uses it ends it.
ShellExits(n) ==
  /\ n \in Live
  /\ EndSession(n)
  /\ UNCHANGED <<boot, pc, req, answer, met>>
-----------------------------------------------------------------------------
(* The bridge.                                                             *)

\* What a call that is over has asked for is kept for sends only.
Answer(c, what) ==
  /\ pc' = [pc EXCEPT ![c] = "over"]
  /\ answer' = [answer EXCEPT ![c] = what]
  /\ req' = IF req[c].op = "send" THEN req ELSE [req EXCEPT ![c] = NoRequest]

Proceed(c, step) == pc' = [pc EXCEPT ![c] = step] /\ UNCHANGED <<answer, req>>

\* _run: one command, which tmux can carry out or not.  One that takes longer
\* than 20 s is given up, carried out or not.
Run(c, possible, Effect, Success) ==
  /\ \/ possible /\ Effect /\ Success
     \/ ~possible /\ Nothing /\ Answer(c, "unavailable")
     \/ /\ "timeout" \in Faults
        /\ (possible /\ Effect) \/ Nothing
        /\ Answer(c, "unavailable")
  /\ UNCHANGED <<boot, met>>

\* Fault: requests are served while the bootstrap session comes and goes.
CallEarly(c, r) ==
  /\ pc[c] = "new"
  /\ r.name # BadName
  /\ pc' = [pc EXCEPT ![c] = "run"]
  /\ req' = [req EXCEPT ![c] = r]
  /\ UNCHANGED <<tmux, split, boot, answer, met>>

\* What a parameter is refused with: 422 by the checks of its route, which there are
\* for create and send, or a TerminalValidationError, which `handle` catches as the
\* TerminalError it is.
Refusals(r) ==
  IF r.op \in {"create", "send"} THEN {"invalid", "unavailable"} ELSE {"unavailable"}

\* A request is dispatched.
Call(c, r) ==
  /\ boot = "up" /\ pc[c] = "new"
  /\ IF r.name = BadName
       THEN (\E what \in Refusals(r) : Answer(c, what)) /\ UNCHANGED met
       ELSE /\ pc' = [pc EXCEPT ![c] = "run"]
            /\ req' = [req EXCEPT ![c] = r]
            /\ LET others == {d \in UnderWay : {r.op, req[d].op} = {"send"}}
               IN  met' = met \cup ({c} \X others) \cup (others \X {c})
            /\ UNCHANGED answer
  /\ UNCHANGED <<tmux, split, boot>>

Does(c, op) == pc[c] = "run" /\ req[c].op = op

Create(c) ==
  /\ Does(c, "create")
  /\ LET n == req[c].name
     IN  \/ Run(c, n \notin Live, NewSession(n), Answer(c, "ok"))
         \/ "spawn" \in Faults /\ Nothing /\ Answer(c, "unavailable")
             /\ UNCHANGED <<boot, met>>

Destroy(c) ==
  /\ Does(c, "destroy")
  /\ LET n == req[c].name
     IN  Run(c, Found(n), EndSession(Target(n)), Answer(c, "ok"))

\* Capture only reads.
Capture(c) ==
  /\ Does(c, "capture")
  /\ Run(c, Found(req[c].name), Nothing, Answer(c, "ok"))

\* What becomes of a send whose text was taken.
TextSent(c) == IF req[c].enter THEN Proceed(c, "enter") ELSE Answer(c, "ok")

\* Fault: send-keys with the text is run unchecked.
SendTextAnyway(c) ==
  /\ Does(c, "send")
  /\ LET n == req[c].name
         text == req[c].text
     IN  \/ Found(n) /\ text # "dashed" /\ SendKeys(n, [call |-> c, keys |-> text])
         \/ Nothing
  /\ TextSent(c)
  /\ UNCHANGED <<boot, met>>

\* send, first command: send-keys -l text, without the -- that would end the flags.
\* A text that begins with - is taken for some: unknown ones are an error, known
\* ones a success, and neither types anything.
SendText(c) ==
  /\ Does(c, "send")
  /\ LET n == req[c].name
         text == req[c].text
     IN  IF text = "dashed"
           THEN \E known \in BOOLEAN : Run(c, known, Nothing, TextSent(c))
           ELSE Run(c, Found(n), SendKeys(n, [call |-> c, keys |-> text]), TextSent(c))

\* send, second command: send-keys Enter
SendEnter(c) ==
  /\ pc[c] = "enter"
  /\ LET n == req[c].name
     IN  Run(c, Found(n), SendKeys(n, [call |-> c, keys |-> "Enter"]), Answer(c, "ok"))
-----------------------------------------------------------------------------
(* The start of the API.                                                   *)

\* The API dies and supervisord starts it again; tmux goes on.
Crash ==
  /\ "crash" \in Faults
  /\ boot = "up"
  /\ boot' = "new"
  /\ pc' = [c \in Calls |-> IF c \in UnderWay THEN "over" ELSE pc[c]]
  /\ answer' = [c \in Calls |-> IF c \in UnderWay THEN "lost" ELSE answer[c]]
  /\ UNCHANGED <<tmux, split, req, met>>

\* ensure_server, first command: its failure is ignored, but not its time limit,
\* which ends main: the API starts again.
BootstrapNew ==
  /\ boot = "new"
  /\ \/ /\ Bootstrap \notin Live
        /\ NewSession(Bootstrap)
        /\ boot' = "kill"
     \/ /\ Bootstrap \in Live \/ "spawn" \in Faults
        /\ boot' = "kill"
        /\ Nothing
     \/ /\ "timeout" \in Faults
        /\ Bootstrap \notin Live /\ NewSession(Bootstrap)
        /\ UNCHANGED boot
  /\ UNCHANGED <<pc, req, answer, met>>

\* Fault: the server is emptied with kill-server.
KillServer ==
  /\ boot = "kill"
  /\ tmux' = <<>>
  /\ boot' = "up"
  /\ UNCHANGED <<split, pc, req, answer, met>>

\* ensure_server, second command
BootstrapKill ==
  /\ boot = "kill"
  /\ \/ boot' = "up"
     \/ "timeout" \in Faults /\ boot' = "new"
  /\ IF Found(Bootstrap) THEN EndSession(Target(Bootstrap)) ELSE Nothing
  /\ UNCHANGED <<pc, req, answer, met>>
-----------------------------------------------------------------------------
Next ==
  \/ \E c \in Calls :
       \/ \E r \in Requests : Call(c, r)
       \/ Create(c) \/ Destroy(c) \/ Capture(c) \/ SendText(c) \/ SendEnter(c)
  \/ \E n \in Names : ShellExits(n)
  \/ Crash \/ BootstrapNew \/ BootstrapKill

Spec == Init /\ [][Next]_vars
-----------------------------------------------------------------------------
\* The calls whose text is in the line that key i of session n submits, apart from
\* what it types itself.
InLine(n, i) ==
  {tmux[n][j].call :
     j \in {j \in 1..(i - 1) : /\ Leaves(tmux[n][j])
                              /\ \A k \in (j + 1)..(i - 1) : ~Submits(tmux[n][k])}}

\* A line that is submitted, by an Enter or by a newline in a text, is the text of the
\* call that submits it, whatever failed, timed out or died before.  Text of another
\* call is in it only if that call asked for no Enter, was not answered with success
\* or ran at the same time as another send, and the own text of a call that sends
\* Enter is missing only if it ran at the same time as one -- or if a session that the
\* name may mean came or went between the two commands of a send, which then typed
\* into one and submitted the other.  A text that ends with a newline is gone by then,
\* and one that was taken for flags never came: the Enter submits a line without it.
LinesAreWhole ==
  \A n \in Live : \A i \in DOMAIN tmux[n] : Submits(tmux[n][i]) =>
    LET c == tmux[n][i].call
    IN  /\ \A d \in InLine(n, i) \ {c} :
             ~req[d].enter \/ answer[d] # "ok" \/ <<c, d>> \in met \/ d \in split
        /\ \/ tmux[n][i].keys # "Enter" \/ c \in InLine(n, i)
           \/ req[c].text \in NothingLeft
           \/ c \in split \/ \E d \in Calls : <<c, d>> \in met

\* However often the API dies and starts again, and whichever of its first two
\* commands fail, a start ends no session but the bootstrap session and, when that
\* could not be put up or is gone already, one whose name begins with its name.
SessionsSurviveStarts ==
  [][ boot # "up" =>
        \A n \in Live \ Live' :
          \/ ShellExits(n)
          \/ n = Bootstrap
          \/ IsPrefix(Bootstrap, n) /\ Bootstrap \notin Live ]_vars
=============================================================================
