---------------------------- MODULE TerminalsProofs ----------------------------
(***************************************************************************)
(* Theorems about Terminals, for any calls, any session names and any      *)
(* faults.                                                                 *)
(***************************************************************************)
EXTENDS Terminals, FiniteSetTheorems, TLAPS

\* tmux resolves a name to a live session, to that of the name where there is
\* one, and never to one whose name does not begin so.
LEMMA TargetFacts ==
  ASSUME NEW n \in Names, Found(n)
  PROVE  Target(n) \in Meant(n) /\ Target(n) \in Live /\ IsPrefix(n, Target(n))
<1>1. Meant(n) # {}
  BY FS_EmptySet DEF Found
<1>2. Target(n) \in Meant(n)
  BY <1>1 DEF Target
<1>3. IsPrefix(n, n)
  BY TerminalsAssumption DEF IsPrefix
<1> QED
  BY <1>2, <1>3 DEF Meant

\* What the effects of a command do to the sessions.
LEMMA NewSessionFacts ==
  ASSUME TypeOK, NEW n \in Names, n \notin Live, NewSession(n)
  PROVE  /\ Live' = Live \cup {n}
         /\ Live' \subseteq Names /\ \A m \in Live' : tmux'[m] \in Seq(Keys)
         /\ split' \subseteq Calls
BY DEF TypeOK, NewSession, Between, Live

LEMMA EndSessionFacts ==
  ASSUME TypeOK, NEW n \in Live, EndSession(n)
  PROVE  /\ Live' = Live \ {n}
         /\ Live' \subseteq Names /\ \A m \in Live' : tmux'[m] \in Seq(Keys)
         /\ split' \subseteq Calls
BY DEF TypeOK, EndSession, Between, Live

LEMMA SendKeysFacts ==
  ASSUME TypeOK, NEW n \in Names, Found(n), NEW key \in Keys, SendKeys(n, key)
  PROVE  /\ Live' = Live
         /\ \A m \in Live' : tmux'[m] \in Seq(Keys)
         /\ split' \subseteq Calls
<1>1. Target(n) \in Live
  BY TargetFacts
<1>2. Append(tmux[Target(n)], key) \in Seq(Keys)
  BY <1>1 DEF TypeOK
<1> QED
  BY <1>1, <1>2 DEF TypeOK, SendKeys, Live

-----------------------------------------------------------------------------
(* TypeOK is inductive.  It has a part for the sessions and one for the    *)
(* calls; what is left of it relates the calls to the start of the API.    *)

SessionsOK ==
  /\ Live \subseteq Names
  /\ \A n \in Live : tmux[n] \in Seq(Keys)
  /\ split \subseteq Calls

CallsOK ==
  /\ pc \in [Calls -> {"new", "run", "enter", "over"}]
  /\ req \in [Calls -> Requests \cup {NoRequest}]
  /\ answer \in [Calls -> {"none", "ok", "invalid", "unavailable", "lost"}]
  /\ \A c \in Calls : pc[c] = "over" <=> answer[c] # "none"
  /\ \A c \in UnderWay : req[c].name \in Names

RestOK ==
  /\ boot \in {"new", "kill", "up"}
  /\ met \subseteq Calls \X Calls
  /\ boot # "up" => UnderWay = {}

\* TypeOK is the three parts, in a state and in the next.
LEMMA TypeParts == TypeOK <=> SessionsOK /\ CallsOK /\ RestOK
BY DEF TypeOK, SessionsOK, CallsOK, RestOK

LEMMA NextTypeParts == TypeOK' <=> SessionsOK' /\ CallsOK' /\ RestOK'
BY DEF TypeOK, SessionsOK, CallsOK, RestOK

\* A send has a text.
LEMMA TextFacts ==
  ASSUME CallsOK, NEW c \in Calls, req[c].op = "send"
  PROVE  req[c].text \in Text
<1>1. req[c] \in Requests \cup {NoRequest}
  BY DEF CallsOK
<1>2. req[c] # NoRequest
  BY DEF NoRequest
<1>3. CASE req[c] \in [op : {"send"}, name : Names, text : Text, enter : BOOLEAN]
  BY <1>3
<1>4. CASE req[c] \in [op : {"send"}, name : {BadName}, text : {"words"}, enter : {FALSE}]
  BY <1>4 DEF Text
<1>5. CASE req[c] \in [op : {"create", "destroy", "capture"}, name : Names \cup {BadName},
                      text : {"words"}, enter : {FALSE}]
  BY <1>5
<1> QED
  BY <1>1, <1>2, <1>3, <1>4, <1>5 DEF Requests

LEMMA AnswerFacts ==
  ASSUME CallsOK, NEW c \in Calls, NEW what \in {"ok", "invalid", "unavailable"}, Answer(c, what)
  PROVE  CallsOK'
<1>1. pc' = [pc EXCEPT ![c] = "over"] /\ answer' = [answer EXCEPT ![c] = what]
  BY DEF Answer
<1>2. /\ req' \in [Calls -> Requests \cup {NoRequest}]
      /\ \A d \in Calls \ {c} : req'[d] = req[d]
  BY DEF Answer, CallsOK
<1> QED
  BY <1>1, <1>2 DEF CallsOK, UnderWay

LEMMA ProceedFacts ==
  ASSUME CallsOK, NEW c \in Calls, pc[c] = "run", Proceed(c, "enter")
  PROVE  CallsOK'
BY DEF CallsOK, Proceed, UnderWay

\* A command runs only while the API serves: TypeOK is kept if the effect on the
\* sessions and the outcome for the call keep their parts.
LEMMA CommandFacts ==
  ASSUME TypeOK, NEW c \in Calls, pc[c] \in {"run", "enter"},
         UNCHANGED <<boot, met>>, SessionsOK', CallsOK'
  PROVE  TypeOK'
<1>1. c \in UnderWay
  BY DEF UnderWay
<1>2. boot = "up"
  BY <1>1 DEF TypeOK
<1>3. RestOK'
  BY <1>2, TypeParts DEF RestOK
<1> QED
  BY <1>3, NextTypeParts

LEMMA NothingFacts == ASSUME SessionsOK, Nothing PROVE SessionsOK'
BY DEF SessionsOK, Nothing, Live

LEMMA InitTypeOK == Init => TypeOK
<1> SUFFICES ASSUME Init PROVE TypeOK
  OBVIOUS
<1>1. PICK S \in SUBSET Names : tmux = [n \in S |-> <<>>]
  BY DEF Init
<1>2. SessionsOK
  BY <1>1 DEF Init, SessionsOK, Live
<1>3. CallsOK
  BY DEF Init, CallsOK, UnderWay
<1>4. RestOK
  BY DEF Init, RestOK, UnderWay
<1> QED
  BY <1>2, <1>3, <1>4, TypeParts

LEMMA StepTypeOK == TypeOK /\ [Next]_vars => TypeOK'
<1> SUFFICES ASSUME TypeOK, [Next]_vars PROVE TypeOK'
  OBVIOUS
<1>p. SessionsOK /\ CallsOK /\ RestOK
  BY TypeParts
<1>1. ASSUME NEW c \in Calls, NEW r \in Requests, Call(c, r) PROVE TypeOK'
  <2>1. SessionsOK'
    BY <1>1, <1>p DEF Call, SessionsOK, Live
  <2>2. boot' = boot /\ boot = "up"
    BY <1>1 DEF Call
  <2>3. CASE r.name = BadName
    <3>1. /\ \E what \in {"ok", "invalid", "unavailable"} : Answer(c, what)
          /\ met' = met
      BY <1>1, <2>3 DEF Call, Refusals
    <3>2. CallsOK'
      BY <3>1, <1>p, AnswerFacts
    <3>3. RestOK'
      BY <3>1, <2>2, <1>p DEF RestOK
    <3> QED
      BY <3>2, <3>3, <2>1, NextTypeParts
  <2>4. CASE r.name # BadName
    <3>1. /\ pc' = [pc EXCEPT ![c] = "run"] /\ req' = [req EXCEPT ![c] = r]
          /\ answer' = answer /\ pc[c] = "new"
      BY <1>1, <2>4 DEF Call
    <3>2. CallsOK'
      BY <3>1, <1>p, <2>4 DEF CallsOK, UnderWay, Requests
    <3>3. met' \subseteq Calls \X Calls
      BY <1>1, <2>4, <1>p DEF Call, RestOK, UnderWay
    <3>4. RestOK'
      BY <3>3, <2>2 DEF RestOK
    <3> QED
      BY <3>2, <3>4, <2>1, NextTypeParts
  <2> QED
    BY <2>3, <2>4
<1>2. ASSUME NEW c \in Calls,
             Create(c) \/ Destroy(c) \/ Capture(c) \/ SendText(c) \/ SendEnter(c)
      PROVE  TypeOK'
  <2> DEFINE n == req[c].name
  <2>1. pc[c] \in {"run", "enter"} /\ UNCHANGED <<boot, met>>
    BY <1>2 DEF Create, Destroy, Capture, SendText, SendEnter, Does, Run
  <2>2. n \in Names
    BY <2>1, <1>p DEF CallsOK, UnderWay
  <2>3. CASE Create(c)
    <3>1. (n \notin Live /\ NewSession(n)) \/ Nothing
      BY <2>3 DEF Create, Run
    <3>2. Answer(c, "ok") \/ Answer(c, "unavailable")
      BY <2>3 DEF Create, Run
    <3>3. SessionsOK'
      BY <3>1, <2>2, NewSessionFacts, NothingFacts, <1>p DEF SessionsOK
    <3> QED
      BY <3>2, <3>3, <2>1, <1>p, AnswerFacts, CommandFacts
  <2>4. CASE Destroy(c)
    <3>1. (Found(n) /\ EndSession(Target(n))) \/ Nothing
      BY <2>4 DEF Destroy, Run
    <3>2. Answer(c, "ok") \/ Answer(c, "unavailable")
      BY <2>4 DEF Destroy, Run
    <3>3. SessionsOK'
      BY <3>1, <2>2, TargetFacts, EndSessionFacts, NothingFacts, <1>p DEF SessionsOK
    <3> QED
      BY <3>2, <3>3, <2>1, <1>p, AnswerFacts, CommandFacts
  <2>5. CASE Capture(c)
    <3>1. Nothing /\ (Answer(c, "ok") \/ Answer(c, "unavailable"))
      BY <2>5 DEF Capture, Run
    <3> QED
      BY <3>1, <2>1, <1>p, NothingFacts, AnswerFacts, CommandFacts
  <2>6. CASE SendText(c)
    <3> DEFINE key == [call |-> c, keys |-> req[c].text]
    <3>1. (req[c].text # "dashed" /\ Found(n) /\ SendKeys(n, key)) \/ Nothing
      BY <2>6 DEF SendText, Run
    <3>2. \/ pc[c] = "run" /\ Proceed(c, "enter")
          \/ Answer(c, "ok") \/ Answer(c, "unavailable")
      BY <2>6 DEF SendText, TextSent, Run, Does
    <3>3. req[c].text # "dashed" => key \in Keys
      <4>1. req[c].text \in Text
        BY <2>6, <1>p, TextFacts DEF SendText, Does
      <4> QED
        BY <4>1 DEF Text, Keys
    <3> HIDE DEF key
    <3>4. SessionsOK'
      BY <3>1, <3>3, <2>2, SendKeysFacts, NothingFacts, <1>p DEF SessionsOK
    <3>5. CallsOK'
      BY <3>2, <1>p, AnswerFacts, ProceedFacts
    <3> QED
      BY <3>4, <3>5, <2>1, CommandFacts
  <2>7. CASE SendEnter(c)
    <3> DEFINE key == [call |-> c, keys |-> "Enter"]
    <3>1. (Found(n) /\ SendKeys(n, key)) \/ Nothing
      BY <2>7 DEF SendEnter, Run
    <3>2. Answer(c, "ok") \/ Answer(c, "unavailable")
      BY <2>7 DEF SendEnter, Run
    <3>3. key \in Keys
      BY DEF Keys
    <3>4. SessionsOK'
      BY <3>1, <3>3, <2>2, SendKeysFacts, NothingFacts, <1>p DEF SessionsOK
    <3> QED
      BY <3>2, <3>4, <2>1, <1>p, AnswerFacts, CommandFacts
  <2> QED
    BY <1>2, <2>3, <2>4, <2>5, <2>6, <2>7
<1>3. ASSUME NEW n \in Names, ShellExits(n) PROVE TypeOK'
  <2>1. SessionsOK'
    BY <1>3, <1>p, EndSessionFacts DEF ShellExits, SessionsOK
  <2>2. UNCHANGED <<boot, pc, req, answer, met>>
    BY <1>3 DEF ShellExits
  <2> QED
    BY <2>1, <2>2, <1>p, NextTypeParts DEF CallsOK, RestOK, UnderWay
<1>4. ASSUME Crash PROVE TypeOK'
  <2>1. SessionsOK'
    BY <1>4, <1>p DEF Crash, SessionsOK, Live
  <2>2. UnderWay' = {}
    BY <1>4, <1>p DEF Crash, CallsOK, UnderWay
  <2>3. CallsOK'
    BY <1>4, <1>p, <2>2 DEF Crash, CallsOK, UnderWay
  <2>4. RestOK'
    BY <1>4, <1>p, <2>2 DEF Crash, RestOK
  <2> QED
    BY <2>1, <2>3, <2>4, NextTypeParts
<1>5. ASSUME BootstrapNew \/ BootstrapKill PROVE TypeOK'
  <2>1. /\ UNCHANGED <<pc, req, answer, met>>
        /\ boot # "up" /\ boot' \in {"new", "kill", "up"}
    BY <1>5 DEF BootstrapNew, BootstrapKill
  <2>2. \/ Bootstrap \notin Live /\ NewSession(Bootstrap)
        \/ Found(Bootstrap) /\ EndSession(Target(Bootstrap))
        \/ Nothing
    BY <1>5 DEF BootstrapNew, BootstrapKill
  <2>3. SessionsOK'
    BY <2>2, <1>p, TerminalsAssumption, NewSessionFacts, EndSessionFacts,
       TargetFacts, NothingFacts DEF SessionsOK
  <2> QED
    BY <2>1, <2>3, <1>p, NextTypeParts DEF CallsOK, RestOK, UnderWay
<1>6. ASSUME UNCHANGED vars PROVE TypeOK'
  BY <1>6, <1>p, NextTypeParts DEF vars, SessionsOK, CallsOK, RestOK, UnderWay, Live
<1> QED
  BY <1>1, <1>2, <1>3, <1>4, <1>5, <1>6 DEF Next

\* Sessions, calls and the start of the API are well formed in every reachable
\* state: a call has its answer exactly when it is over, and none is under way
\* while the API starts.
THEOREM TypeCorrect == Spec => []TypeOK
BY InitTypeOK, StepTypeOK, PTL DEF Spec
-----------------------------------------------------------------------------
\* No session but one that its shell ends, the bootstrap session or, without that,
\* one whose name begins with its name is gone after a step of a starting API:
\* whatever calls and sessions there were before it.
THEOREM StartsEndNoSession == Spec => SessionsSurviveStarts
<1> DEFINE Survive ==
      boot # "up" =>
        \A n \in Live \ Live' :
          \/ ShellExits(n)
          \/ n = Bootstrap
          \/ IsPrefix(Bootstrap, n) /\ Bootstrap \notin Live
<1>1. TypeOK /\ [Next]_vars => [Survive]_vars
  <2> SUFFICES ASSUME TypeOK, Next, boot # "up", NEW n \in Live \ Live'
               PROVE  \/ ShellExits(n) \/ n = Bootstrap
                      \/ IsPrefix(Bootstrap, n) /\ Bootstrap \notin Live
    OBVIOUS
  <2>1. UnderWay = {}
    BY DEF TypeOK
  <2>2. \A c \in Calls : pc[c] \notin {"run", "enter"}
    BY <2>1 DEF UnderWay
  <2>3. \/ \E m \in Names : ShellExits(m)
        \/ BootstrapNew \/ BootstrapKill
    BY <2>2 DEF Next, Call, Create, Destroy, Capture, SendText, SendEnter, Does, Crash
  <2>4. CASE \E m \in Names : ShellExits(m)
    <3>1. PICK m \in Names : ShellExits(m)
      BY <2>4
    <3>2. m = n
      BY <3>1, EndSessionFacts DEF ShellExits
    <3> QED
      BY <3>1, <3>2
  <2>5. CASE BootstrapNew
    <3>1. Live \subseteq Live'
      BY <2>5, TerminalsAssumption, NewSessionFacts DEF BootstrapNew, Nothing, Live
    <3> QED
      BY <3>1
  <2>6. CASE BootstrapKill
    <3>1. Found(Bootstrap) /\ EndSession(Target(Bootstrap))
      BY <2>6 DEF BootstrapKill, Nothing, Live
    <3>2. n = Target(Bootstrap)
      BY <3>1, TerminalsAssumption, TargetFacts, EndSessionFacts
    <3>3. n \in Meant(Bootstrap) /\ IsPrefix(Bootstrap, n)
      BY <3>1, <3>2, TerminalsAssumption, TargetFacts
    <3> QED
      BY <3>3 DEF Meant
  <2> QED
    BY <2>3, <2>4, <2>5, <2>6
<1>2. Spec => []TypeOK
  BY TypeCorrect
<1>3. Spec => [][Survive]_vars
  BY <1>1, <1>2, PTL DEF Spec
<1> QED
  BY <1>3 DEF SessionsSurviveStarts
-----------------------------------------------------------------------------
(* Lines are whole.  What a pane got is a sequence of texts and Enters;    *)
(* the calls whose text is in a line follow from it alone.                 *)

\* The calls whose text is between the last end of a line before position i of s and i.
Since(s, i) ==
  {s[j].call : j \in {j \in 1..(i - 1) : /\ Leaves(s[j])
                                       /\ \A k \in (j + 1)..(i - 1) : ~Submits(s[k])}}

\* The calls that have left text in an open line somewhere in s.
Texts(s) == {s[j].call : j \in {j \in 1..Len(s) : Leaves(s[j])}}

\* What a key leaves in the open line, beside what it ends.
Own(key) == IF Leaves(key) THEN {key.call} ELSE {}

Kept(key, line) == IF Submits(key) THEN {} ELSE line

LEMMA InLineFacts == \A n, i : InLine(n, i) = Since(tmux[n], i)
BY DEF InLine, Since

\* The line that the next Enter would submit, and all that was ever typed.
Line(n) == Since(tmux[n], Len(tmux[n]) + 1)

Typed(n) == Texts(tmux[n])

LEMMA EmptyPane == Since(<<>>, Len(<<>>) + 1) = {} /\ Texts(<<>>) = {} /\ Len(<<>>) = 0
BY DEF Since, Texts

LEMMA SinceFacts ==
  ASSUME NEW s \in Seq(Keys), NEW i \in 1..(Len(s) + 1)
  PROVE  Since(s, i) \subseteq Texts(s) /\ Texts(s) \subseteq Calls
<1>1. \A j \in 1..Len(s) : s[j] \in Keys
  OBVIOUS
<1>2. Since(s, i) \subseteq Texts(s)
  BY DEF Since, Texts
<1>3. Texts(s) \subseteq Calls
  BY <1>1 DEF Texts, Keys
<1> QED
  BY <1>2, <1>3

\* One more key leaves the lines as they are, but for the last one.
LEMMA KeyFacts ==
  ASSUME NEW s \in Seq(Keys), NEW key \in Keys
  PROVE  /\ Append(s, key) \in Seq(Keys) /\ Len(Append(s, key)) = Len(s) + 1
         /\ Len(s) \in Nat
         /\ \A i \in 1..Len(s) : Append(s, key)[i] = s[i]
         /\ Append(s, key)[Len(s) + 1] = key
         /\ \A i \in 1..(Len(s) + 1) : Since(Append(s, key), i) = Since(s, i)
         /\ Since(Append(s, key), Len(s) + 2) = Kept(key, Since(s, Len(s) + 1)) \cup Own(key)
         /\ Texts(Append(s, key)) = Texts(s) \cup Own(key)
<1> DEFINE t == Append(s, key)
           n == Len(s)
           In(j, i) == Leaves(s[j]) /\ \A k \in (j + 1)..(i - 1) : ~Submits(s[k])
           InNext(j, i) == Leaves(t[j]) /\ \A k \in (j + 1)..(i - 1) : ~Submits(t[k])
<1>1. /\ t \in Seq(Keys) /\ Len(t) = n + 1 /\ n \in Nat /\ t[n + 1] = key
      /\ \A i \in 1..n : t[i] = s[i]
  OBVIOUS
<1> HIDE DEF t, n
<1>2. ASSUME NEW i \in 1..(n + 1) PROVE Since(t, i) = Since(s, i)
  <2>1. \A k \in 1..(i - 1) : t[k] = s[k]
    BY <1>1
  <2>2. \A j \in 1..(i - 1) : InNext(j, i) <=> In(j, i)
    BY <1>1, <2>1
  <2>3. \A x : x \in Since(s, i) <=> \E j \in 1..(i - 1) : In(j, i) /\ x = s[j].call
    BY DEF Since
  <2>4. \A x : x \in Since(t, i) <=> \E j \in 1..(i - 1) : InNext(j, i) /\ x = t[j].call
    BY DEF Since
  <2> HIDE DEF In, InNext
  <2> QED
    BY <2>1, <2>2, <2>3, <2>4
<1>3. \A j \in 1..n : InNext(j, n + 2) <=> In(j, n + 1) /\ ~Submits(key)
  <2>1. ASSUME NEW j \in 1..n PROVE InNext(j, n + 2) <=> In(j, n + 1) /\ ~Submits(key)
    <3>1. \A k : k \in (j + 1)..(n + 1) <=> k \in (j + 1)..n \/ k = n + 1
      BY <1>1
    <3>2. \A k \in (j + 1)..n : t[k] = s[k]
      BY <1>1
    <3>3. n + 2 - 1 = n + 1 /\ n + 1 - 1 = n /\ t[j] = s[j]
      BY <1>1
    <3> QED
      BY <1>1, <3>1, <3>2, <3>3
  <2> QED
    BY <2>1
<1>4. InNext(n + 1, n + 2) <=> Leaves(key)
  BY <1>1
<1>5. n + 2 - 1 = n + 1 /\ n + 1 - 1 = n /\ \A j : j \in 1..(n + 1) <=> j \in 1..n \/ j = n + 1
  BY <1>1
<1>6. Since(t, n + 2) = Kept(key, Since(s, n + 1)) \cup Own(key)
  <2>a. \A x : x \in Since(t, n + 2) <=> \E j \in 1..((n + 2) - 1) : InNext(j, n + 2) /\ x = t[j].call
    BY DEF Since
  <2>b. \A x : x \in Since(s, n + 1) <=> \E j \in 1..((n + 1) - 1) : In(j, n + 1) /\ x = s[j].call
    BY DEF Since
  <2> HIDE DEF In, InNext
  <2>1. \A x : x \in Since(t, n + 2) <=> \E j \in 1..(n + 1) : InNext(j, n + 2) /\ x = t[j].call
    BY <1>1, <1>5, <2>a
  <2>2. \A x : x \in Since(s, n + 1) <=> \E j \in 1..n : In(j, n + 1) /\ x = s[j].call
    BY <1>1, <1>5, <2>b
  <2>3. CASE Submits(key)
    BY <1>1, <1>3, <1>4, <1>5, <2>1, <2>3 DEF Kept, Own
  <2>4. CASE ~Submits(key)
    BY <1>1, <1>3, <1>4, <1>5, <2>1, <2>2, <2>4 DEF Kept, Own
  <2> QED
    BY <2>3, <2>4
<1>7. Texts(t) = Texts(s) \cup Own(key)
  <2>1. Texts(t) = {t[j].call : j \in {j \in 1..(n + 1) : Leaves(t[j])}}
    BY <1>1 DEF Texts
  <2>2. Texts(s) = {s[j].call : j \in {j \in 1..n : Leaves(s[j])}}
    BY DEF Texts, n
  <2> QED
    BY <1>1, <1>5, <2>1, <2>2 DEF Own
<1> QED
  BY <1>1, <1>2, <1>6, <1>7 DEF t, n

\* Two sends under way have met.
SendsMeet ==
  \A c, d \in UnderWay :
    c # d /\ req[c].op = "send" /\ req[d].op = "send" => <<c, d>> \in met

Met(c) == \E d \in Calls : <<c, d>> \in met

\* A send that was not answered with success.
Failed(d) == pc[d] = "over" /\ answer[d] # "ok"

\* Only a send that is past its first command is in a pane, or about to send its Enter.
SendsType ==
  /\ \A c \in Calls : pc[c] = "enter" => req[c].op = "send" /\ req[c].enter
  /\ \A n \in Live : \A i \in 1..Len(tmux[n]) :
       LET d == tmux[n][i].call
       IN  /\ pc[d] \in {"enter", "over"} /\ req[d].op = "send"
           /\ Leaves(tmux[n][i]) => req[d].text \notin NothingLeft

\* Between its commands a send means the one session that has its text, unless
\* sessions came or went, and the text is still in the line, unless it met another.
OneSession ==
  \A d \in Calls, m \in Names :
    (/\ pc[d] = "enter" /\ d \notin split
     /\ req[d].name = m /\ req[d].text \notin NothingLeft) =>
      /\ Found(m)
      /\ \A n \in Live : d \in Typed(n) => n = Target(m)
      /\ (\E n \in Live : n = Target(m) /\ d \in Line(n)) \/ Met(d)

\* What is in an open line was meant to stay there, waits for its Enter or failed.
OpenLines ==
  \A n \in Live : \A d \in Line(n) :
    ~req[d].enter \/ d \in split \/ pc[d] = "enter" \/ Failed(d)

LineOK(n, i) ==
  LET c == tmux[n][i].call
  IN  /\ \A d \in Since(tmux[n], i) \ {c} :
           ~req[d].enter \/ Failed(d) \/ <<c, d>> \in met \/ d \in split
      /\ \/ tmux[n][i].keys # "Enter" \/ req[c].text \in NothingLeft
         \/ c \in Since(tmux[n], i) \/ c \in split \/ Met(c)

ClosedLines ==
  \A n \in Live : \A i \in 1..Len(tmux[n]) : Submits(tmux[n][i]) => LineOK(n, i)

LinesInv == SendsMeet /\ SendsType /\ OneSession /\ OpenLines /\ ClosedLines

LEMMA InitLines == Init => LinesInv
<1> SUFFICES ASSUME Init PROVE LinesInv
  OBVIOUS
<1>1. \A n \in Live : tmux[n] = <<>>
  BY DEF Init, Live
<1>2. \A n \in Live : Line(n) = {} /\ Typed(n) = {} /\ Len(tmux[n]) = 0
  BY <1>1, EmptyPane DEF Line, Typed
<1>3. \A c \in Calls : pc[c] = "new"
  BY DEF Init
<1> QED
  BY <1>2, <1>3 DEF LinesInv, SendsMeet, SendsType, OneSession, OpenLines, ClosedLines, UnderWay

\* What is known of the panes.
LEMMA PaneFacts ==
  ASSUME TypeOK, NEW n \in Live
  PROVE  /\ tmux[n] \in Seq(Keys) /\ Len(tmux[n]) \in Nat
         /\ Line(n) \subseteq Typed(n) /\ Typed(n) \subseteq Calls
         /\ \A i \in 1..Len(tmux[n]) :
              Since(tmux[n], i) \subseteq Typed(n) /\ tmux[n][i].call \in Calls
<1>1. tmux[n] \in Seq(Keys)
  BY DEF TypeOK
<1>2. Len(tmux[n]) \in Nat /\ \A i \in 1..Len(tmux[n]) : tmux[n][i] \in Keys
  BY <1>1
<1>3. Line(n) \subseteq Typed(n) /\ Typed(n) \subseteq Calls
  <2>1. Len(tmux[n]) + 1 \in 1..(Len(tmux[n]) + 1)
    BY <1>2
  <2> QED
    BY <1>1, <2>1, SinceFacts DEF Line, Typed
<1>4. \A i \in 1..Len(tmux[n]) : Since(tmux[n], i) \subseteq Typed(n)
  <2>1. 1..Len(tmux[n]) \subseteq 1..(Len(tmux[n]) + 1)
    BY <1>2
  <2> QED
    BY <1>1, <2>1, SinceFacts DEF Typed
<1> QED
  BY <1>1, <1>2, <1>3, <1>4 DEF Keys

\* The calls that have left text in a pane.
LEMMA TypedFacts ==
  ASSUME TypeOK, SendsType, NEW n \in Live, NEW d \in Typed(n)
  PROVE  /\ d \in Calls /\ pc[d] \in {"enter", "over"}
         /\ req[d].op = "send" /\ req[d].text \notin NothingLeft
<1>1. PICK j \in 1..Len(tmux[n]) : Leaves(tmux[n][j]) /\ d = tmux[n][j].call
  BY DEF Typed, Texts
<1> QED
  BY <1>1, PaneFacts DEF SendsType

\* The sessions a step may put up or end.
ComeOrGo ==
  \/ Nothing
  \/ \E n \in Names \ Live : NewSession(n)
  \/ \E n \in Live : EndSession(n)

\* A step that sends no key leaves the panes of the sessions that stay, and what
\* a name means but for the sends that it splits.
LEMMA QuietFacts ==
  ASSUME TypeOK, ComeOrGo
  PROVE  /\ split \subseteq split'
         /\ \A n \in Live' : tmux'[n] = IF n \in Live THEN tmux[n] ELSE <<>>
         /\ \A m \in Names :
              \/ Meant(m)' = Meant(m)
              \/ \A d \in Calls : pc[d] = "enter" /\ req[d].name = m => d \in split'
<1>1. CASE Nothing
  BY <1>1 DEF Nothing, Live, Meant
<1>2. ASSUME NEW n \in Names,
             \/ n \notin Live /\ NewSession(n)
             \/ n \in Live /\ EndSession(n)
      PROVE  /\ split' = split \cup Between(n)
             /\ \A x \in Live' : tmux'[x] = IF x \in Live THEN tmux[x] ELSE <<>>
             /\ Live' \in {Live \cup {n}, Live \ {n}}
  <2>1. CASE n \notin Live /\ NewSession(n)
    BY <2>1 DEF NewSession, Live
  <2>2. CASE n \in Live /\ EndSession(n)
    BY <2>2 DEF EndSession, Live
  <2> QED
    BY <1>2, <2>1, <2>2
<1>3. ASSUME NEW n \in Names, NEW m \in Names, Live' \in {Live \cup {n}, Live \ {n}},
             ~IsPrefix(m, n)
      PROVE  Meant(m)' = Meant(m)
  <2>1. m # n
    BY <1>3, TerminalsAssumption DEF IsPrefix
  <2> HIDE DEF Live
  <2> QED
    BY <1>3, <2>1 DEF Meant
<1>4. ASSUME NEW n \in Names,
             \/ n \notin Live /\ NewSession(n)
             \/ n \in Live /\ EndSession(n)
      PROVE  /\ split \subseteq split'
             /\ \A x \in Live' : tmux'[x] = IF x \in Live THEN tmux[x] ELSE <<>>
             /\ \A m \in Names :
                  \/ Meant(m)' = Meant(m)
                  \/ \A d \in Calls : pc[d] = "enter" /\ req[d].name = m => d \in split'
  BY <1>2, <1>3, <1>4 DEF Between
<1>5. Live \subseteq Names
  BY DEF TypeOK
<1> QED
  BY <1>1, <1>4, <1>5 DEF ComeOrGo

\* A name that means what it meant is found as it was.
LEMMA SameMeaning ==
  ASSUME NEW m, Meant(m)' = Meant(m)
  PROVE  Found(m)' = Found(m) /\ Target(m)' = Target(m)
<1> DEFINE Pick(S) == CHOOSE x \in S : TRUE
<1>1. Target(m) = Pick(Meant(m)) /\ Target(m)' = Pick(Meant(m)')
  BY DEF Target
<1>2. Found(m) = (Cardinality(Meant(m)) = 1) /\ Found(m)' = (Cardinality(Meant(m)') = 1)
  BY DEF Found
<1> HIDE DEF Pick
<1> QED
  BY <1>1, <1>2

\* What has been typed by calls that were not answered with success, and whom
\* they met, stays so.
Later ==
  /\ split \subseteq split' /\ met \subseteq met'
  /\ \A d \in Calls : pc[d] \in {"enter", "over"} =>
       req'[d] = req[d] /\ (Failed(d) => Failed(d)')

LEMMA LineStays ==
  ASSUME TypeOK, SendsType, ClosedLines, Later, NEW n \in Live, n \in Live',
         NEW i \in 1..Len(tmux[n]), Submits(tmux[n][i]),
         tmux'[n][i] = tmux[n][i], Since(tmux'[n], i) = Since(tmux[n], i)
  PROVE  LineOK(n, i)'
<1> DEFINE c == tmux[n][i].call
<1>1. /\ \A d \in Since(tmux[n], i) \ {c} :
           ~req[d].enter \/ Failed(d) \/ <<c, d>> \in met \/ d \in split
      /\ \/ tmux[n][i].keys # "Enter" \/ req[c].text \in NothingLeft
         \/ c \in Since(tmux[n], i) \/ c \in split \/ Met(c)
  BY DEF ClosedLines, LineOK
<1>2. Since(tmux[n], i) \subseteq Typed(n) /\ Typed(n) \subseteq Calls /\ c \in Calls
  BY PaneFacts
<1>3. \A d \in Since(tmux[n], i) : req'[d] = req[d] /\ (Failed(d) => Failed(d)')
  BY <1>2, TypedFacts DEF Later
<1>r. req'[c] = req[c]
  BY <1>2 DEF SendsType, Later
<1>4. Met(c) => Met(c)'
  BY DEF Met, Later
<1>5. tmux'[n][i].call = c /\ tmux'[n][i].keys = tmux[n][i].keys
  OBVIOUS
<1> HIDE DEF c
<1>6. /\ \A d \in Since(tmux'[n], i) \ {c} :
           ~req'[d].enter \/ Failed(d)' \/ <<c, d>> \in met' \/ d \in split'
      /\ \/ tmux'[n][i].keys # "Enter" \/ req'[c].text \in NothingLeft
         \/ c \in Since(tmux'[n], i) \/ c \in split' \/ Met(c)'
  BY <1>1, <1>3, <1>4, <1>5, <1>r DEF Later
<1> QED
  BY <1>5, <1>6 DEF LineOK, c

\* The calls of a step that types nothing: one that has typed its text goes on or
\* fails.
NobodyTypes ==
  \A d \in Calls :
    \/ UNCHANGED <<pc[d], req[d], answer[d]>>
    \/ /\ pc[d] \in {"new", "run"}
       /\ pc'[d] = "enter" =>
            req'[d].op = "send" /\ req'[d].enter /\ req'[d].text \in NothingLeft
    \/ pc[d] = "enter" /\ pc'[d] = "over" /\ answer'[d] # "ok" /\ req'[d] = req[d]

LEMMA StepQuiet ==
  ASSUME TypeOK, LinesInv, ComeOrGo, NobodyTypes, met \subseteq met'
  PROVE  SendsType' /\ OneSession' /\ OpenLines' /\ ClosedLines'
<1>i. SendsType /\ OneSession /\ OpenLines /\ ClosedLines
  BY DEF LinesInv
<1>1. /\ split \subseteq split'
      /\ \A n \in Live' : tmux'[n] = IF n \in Live THEN tmux[n] ELSE <<>>
      /\ \A m \in Names :
           \/ Meant(m)' = Meant(m)
           \/ \A d \in Calls : pc[d] = "enter" /\ req[d].name = m => d \in split'
  BY QuietFacts
<1>2. \A n \in Live' : /\ n \in Live => /\ tmux'[n] = tmux[n]
                                        /\ Line(n)' = Line(n) /\ Typed(n)' = Typed(n)
                       /\ n \notin Live =>
                            Line(n)' = {} /\ Typed(n)' = {} /\ Len(tmux'[n]) = 0
  BY <1>1, EmptyPane DEF Line, Typed
<1>3. \A d \in Calls : Met(d) => Met(d)'
  BY DEF Met
<1>4. \A n \in Live : /\ Line(n) \subseteq Typed(n) /\ Typed(n) \subseteq Calls
                      /\ \A i \in 1..Len(tmux[n]) :
                           Since(tmux[n], i) \subseteq Typed(n) /\ tmux[n][i].call \in Calls
  BY PaneFacts
\* Of the calls that have text in a pane.
<1>5. ASSUME NEW n \in Live, NEW d \in Typed(n)
      PROVE  /\ req'[d] = req[d] /\ (Failed(d) => Failed(d)')
             /\ pc[d] = "enter" => pc'[d] = "enter" \/ Failed(d)'
             /\ pc'[d] \in {"enter", "over"}
  BY <1>i, <1>4, TypedFacts DEF NobodyTypes, Failed
<1>l. Later
  BY <1>1 DEF Later, NobodyTypes, Failed
<1>6. SendsType'
  <2>1. \A d \in Calls : pc'[d] = "enter" => req'[d].op = "send" /\ req'[d].enter
    BY <1>i DEF SendsType, NobodyTypes
  <2>2. ASSUME NEW n \in Live', NEW i \in 1..Len(tmux'[n]), NEW d, d = tmux'[n][i].call
        PROVE  /\ pc'[d] \in {"enter", "over"} /\ req'[d].op = "send"
               /\ Leaves(tmux'[n][i]) => req'[d].text \notin NothingLeft
    <3>1. n \in Live /\ tmux'[n] = tmux[n] /\ i \in 1..Len(tmux[n])
      BY <1>2, <2>2
    <3>2. /\ d \in Calls /\ pc[d] \in {"enter", "over"} /\ req[d].op = "send"
          /\ Leaves(tmux[n][i]) => req[d].text \notin NothingLeft
      BY <1>i, <1>4, <2>2, <3>1 DEF SendsType
    <3>3. req'[d] = req[d] /\ pc'[d] \in {"enter", "over"}
      BY <3>2 DEF NobodyTypes
    <3> QED
      BY <3>1, <3>2, <3>3
  <2> QED
    BY <2>1, <2>2 DEF SendsType
<1>7. OneSession'
  <2> SUFFICES ASSUME NEW d \in Calls, NEW m \in Names,
                      pc'[d] = "enter", d \notin split', req'[d].name = m,
                      req'[d].text \notin NothingLeft
               PROVE  /\ Found(m)'
                      /\ \A n \in Live' : d \in Typed(n)' => n = Target(m)'
                      /\ (\E n \in Live' : n = Target(m)' /\ d \in Line(n)') \/ Met(d)'
    BY DEF OneSession
  <2>1. /\ pc[d] = "enter" /\ d \notin split
        /\ req[d].name = m /\ req[d].text \notin NothingLeft
    BY <1>1 DEF NobodyTypes
  <2>2. /\ Found(m) /\ \A n \in Live : d \in Typed(n) => n = Target(m)
        /\ (\E n \in Live : n = Target(m) /\ d \in Line(n)) \/ Met(d)
    BY <1>i, <2>1 DEF OneSession
  <2>3. Meant(m)' = Meant(m)
    BY <1>1, <2>1
  <2>4. Found(m)' /\ Target(m)' = Target(m)
    BY <2>2, <2>3, SameMeaning
  <2>5. Target(m) \in Live'
    BY <2>2, <2>3, TargetFacts DEF Meant
  <2> QED
    BY <1>2, <1>3, <2>2, <2>4, <2>5
<1>8. OpenLines'
  <2> SUFFICES ASSUME NEW n \in Live', NEW d \in Line(n)'
               PROVE  ~req'[d].enter \/ d \in split' \/ pc'[d] = "enter" \/ Failed(d)'
    BY DEF OpenLines
  <2>1. n \in Live /\ d \in Line(n) /\ d \in Typed(n)
    BY <1>2, <1>4
  <2>2. ~req[d].enter \/ d \in split \/ pc[d] = "enter" \/ Failed(d)
    BY <1>i, <2>1 DEF OpenLines
  <2> QED
    BY <1>1, <1>5, <2>1, <2>2
<1>9. ClosedLines'
  <2> SUFFICES ASSUME NEW n \in Live', NEW i \in 1..Len(tmux'[n]), Submits(tmux'[n][i])
               PROVE  LineOK(n, i)'
    BY DEF ClosedLines
  <2>1. n \in Live /\ tmux'[n] = tmux[n] /\ i \in 1..Len(tmux[n])
    BY <1>2
  <2> QED
    BY <1>i, <1>l, <2>1, LineStays
<1> QED
  BY <1>6, <1>7, <1>8, <1>9

\* A key goes to the session that the name means, and to no other.
LEMMA PaneGetsKey ==
  ASSUME TypeOK, NEW m \in Names, Found(m), NEW key \in Keys, SendKeys(m, key)
  PROVE  /\ Live' = Live /\ split' = split /\ Target(m) \in Live
         /\ \A n \in Names : Meant(n)' = Meant(n)
         /\ \A n \in Live : tmux'[n] = IF n = Target(m) THEN Append(tmux[n], key) ELSE tmux[n]
         /\ \A n \in Live : n # Target(m) =>
              Line(n)' = Line(n) /\ Typed(n)' = Typed(n)
         /\ \A n \in Live : n = Target(m) =>
              /\ Line(n)' = Kept(key, Line(n)) \cup Own(key)
              /\ Typed(n)' = Typed(n) \cup Own(key)
         /\ \A n \in Live : \A i \in 1..Len(tmux[n]) :
              tmux'[n][i] = tmux[n][i] /\ Since(tmux'[n], i) = Since(tmux[n], i)
         /\ \A n \in Live : \A i \in 1..Len(tmux'[n]) : i \notin 1..Len(tmux[n]) =>
              /\ n = Target(m) /\ tmux'[n][i] = key
              /\ Since(tmux'[n], i) = Line(n)
<1>1. Target(m) \in Live
  BY TargetFacts
<1>2. /\ Live' = Live /\ split' = split
      /\ \A n \in Live : tmux'[n] = IF n = Target(m) THEN Append(tmux[n], key) ELSE tmux[n]
  BY <1>1 DEF SendKeys, Live
<1>3. \A n \in Names : Meant(n)' = Meant(n)
  BY <1>2 DEF Meant
<1>4. ASSUME NEW n \in Live, n # Target(m)
      PROVE  tmux'[n] = tmux[n] /\ Line(n)' = Line(n) /\ Typed(n)' = Typed(n)
  BY <1>2, <1>4 DEF Line, Typed
<1>5. ASSUME NEW n \in Live, n = Target(m)
      PROVE  /\ Line(n)' = Kept(key, Line(n)) \cup Own(key)
             /\ Typed(n)' = Typed(n) \cup Own(key)
             /\ \A i \in 1..Len(tmux[n]) :
                  tmux'[n][i] = tmux[n][i] /\ Since(tmux'[n], i) = Since(tmux[n], i)
             /\ \A i \in 1..Len(tmux'[n]) : i \notin 1..Len(tmux[n]) =>
                  tmux'[n][i] = key /\ Since(tmux'[n], i) = Line(n)
  <2> DEFINE s == tmux[n]
             t == Append(s, key)
  <2>1. s \in Seq(Keys) /\ tmux'[n] = t
    BY <1>2, <1>5 DEF TypeOK
  <2>2. /\ Len(t) = Len(s) + 1 /\ Len(s) \in Nat
        /\ \A i \in 1..Len(s) : t[i] = s[i]
        /\ t[Len(s) + 1] = key
        /\ \A i \in 1..(Len(s) + 1) : Since(t, i) = Since(s, i)
        /\ Since(t, Len(s) + 2) = Kept(key, Since(s, Len(s) + 1)) \cup Own(key)
        /\ Texts(t) = Texts(s) \cup Own(key)
    BY <2>1, KeyFacts
  <2> HIDE DEF t, s
  <2>3. Line(n) = Since(s, Len(s) + 1) /\ Typed(n) = Texts(s)
    BY DEF Line, Typed, s
  <2>4. Line(n)' = Since(t, Len(s) + 2) /\ Typed(n)' = Texts(t)
    BY <2>1, <2>2 DEF Line, Typed
  <2>5. \A i \in 1..Len(t) : i \notin 1..Len(s) => i = Len(s) + 1
    BY <2>2
  <2>6. /\ \A i \in 1..Len(s) : t[i] = s[i] /\ Since(t, i) = Since(s, i)
        /\ \A i \in 1..Len(t) : i \notin 1..Len(s) => t[i] = key /\ Since(t, i) = Line(n)
    BY <2>2, <2>3, <2>5
  <2> QED
    BY <2>1, <2>2, <2>3, <2>4, <2>6 DEF s
<1>6. ASSUME NEW n \in Live, NEW i \in 1..Len(tmux'[n]), i \notin 1..Len(tmux[n])
      PROVE  n = Target(m)
  BY <1>4, <1>6
<1> QED
  BY <1>1, <1>2, <1>3, <1>4, <1>5, <1>6

\* The first command of a send: its text is in one session, and ends somebody else's
\* line only if the two have met.
LEMMA StepText ==
  ASSUME TypeOK, LinesInv, NEW c \in Calls, pc[c] = "run", req[c].op = "send",
         req[c].text # "dashed", Found(req[c].name),
         SendKeys(req[c].name, [call |-> c, keys |-> req[c].text]),
         UNCHANGED met, req'[c] = req[c],
         \/ pc'[c] = "enter" /\ req[c].enter
         \/ pc'[c] = "over" /\ (~req[c].enter \/ answer'[c] # "ok"),
         \A d \in Calls \ {c} : UNCHANGED <<pc[d], req[d], answer[d]>>
  PROVE  SendsType' /\ OneSession' /\ OpenLines' /\ ClosedLines'
<1> DEFINE m == req[c].name
           key == [call |-> c, keys |-> req[c].text]
           t == Target(m)
<1>i. SendsType /\ OneSession /\ OpenLines /\ ClosedLines
  BY DEF LinesInv
<1>1. /\ m \in Names /\ key \in Keys /\ key.call = c /\ key.keys # "Enter"
      /\ Leaves(key) <=> req[c].text \notin NothingLeft
  <2>1. m \in Names /\ req[c].text \in Text
    BY TextFacts, TypeParts DEF TypeOK, UnderWay
  <2> QED
    BY <2>1 DEF Text, Keys, Leaves, NothingLeft
<1>2. /\ Live' = Live /\ split' = split /\ t \in Live
      /\ \A n \in Names : Meant(n)' = Meant(n)
      /\ \A n \in Live : n # t => Line(n)' = Line(n) /\ Typed(n)' = Typed(n)
      /\ \A n \in Live : n = t =>
           Line(n)' = Kept(key, Line(n)) \cup Own(key) /\ Typed(n)' = Typed(n) \cup Own(key)
      /\ \A n \in Live : \A i \in 1..Len(tmux[n]) :
           tmux'[n][i] = tmux[n][i] /\ Since(tmux'[n], i) = Since(tmux[n], i)
      /\ \A n \in Live : \A i \in 1..Len(tmux'[n]) : i \notin 1..Len(tmux[n]) =>
           n = t /\ tmux'[n][i] = key /\ Since(tmux'[n], i) = Line(n)
  <2> HIDE DEF m, key
  <2>1. Found(m) /\ SendKeys(m, key)
    BY DEF m, key
  <2> QED
    BY <1>1, <2>1, PaneGetsKey
<1>o. Own(key) \subseteq {c} /\ (Leaves(key) => Own(key) = {c}) /\ (~Leaves(key) => Own(key) = {})
  BY <1>1 DEF Own
<1>k. \A L : Kept(key, L) \subseteq L /\ (~Submits(key) => Kept(key, L) = L)
  BY DEF Kept
<1>3. \A n \in Live : /\ c \notin Typed(n) /\ Line(n) \subseteq Typed(n)
                      /\ Typed(n) \subseteq Calls
  BY <1>i, TypedFacts, PaneFacts
\* Who is between its commands now has met this send.
<1>w. \A d \in Calls \ {c} : pc[d] = "enter" => <<c, d>> \in met /\ <<d, c>> \in met
  <2>1. \A d \in Calls : pc[d] = "enter" => d \in UnderWay /\ req[d].op = "send"
    BY <1>i DEF SendsType, UnderWay
  <2> QED
    BY <2>1 DEF LinesInv, SendsMeet, UnderWay
<1>4. \A d \in Calls : Met(d)' = Met(d)
  BY DEF Met
<1>5. Later
  BY <1>2 DEF Later, Failed
<1>6. SendsType'
  <2>1. \A d \in Calls : pc'[d] = "enter" => req'[d].op = "send" /\ req'[d].enter
    BY <1>i DEF SendsType
  <2>2. ASSUME NEW n \in Live', NEW i \in 1..Len(tmux'[n]), NEW d, d = tmux'[n][i].call
        PROVE  /\ pc'[d] \in {"enter", "over"} /\ req'[d].op = "send"
               /\ Leaves(tmux'[n][i]) => req'[d].text \notin NothingLeft
    <3>1. CASE i \in 1..Len(tmux[n])
      <4>1. /\ d \in Calls /\ pc[d] \in {"enter", "over"} /\ req[d].op = "send"
            /\ Leaves(tmux[n][i]) => req[d].text \notin NothingLeft
        BY <1>2, <1>i, <2>2, <3>1, PaneFacts DEF SendsType
      <4> QED
        BY <1>2, <3>1, <4>1
    <3>2. CASE i \notin 1..Len(tmux[n])
      <4>1. tmux'[n][i] = key
        BY <1>2, <3>2
      <4> QED
        BY <1>1, <2>2, <4>1
    <3> QED
      BY <3>1, <3>2
  <2> QED
    BY <2>1, <2>2 DEF SendsType
<1>7. OneSession'
  <2> SUFFICES ASSUME NEW d \in Calls, NEW x \in Names,
                      pc'[d] = "enter", d \notin split', req'[d].name = x,
                      req'[d].text \notin NothingLeft
               PROVE  /\ Found(x)'
                      /\ \A n \in Live' : d \in Typed(n)' => n = Target(x)'
                      /\ (\E n \in Live' : n = Target(x)' /\ d \in Line(n)') \/ Met(d)'
    BY DEF OneSession
  <2>1. Found(x)' = Found(x) /\ Target(x)' = Target(x)
    BY <1>2, SameMeaning
  <2>2. CASE d = c
    <3>1. x = m
      BY <2>2
    <3>2. Found(x) /\ Target(x) = t
      BY <3>1
    <3>3. \A n \in Live : c \in Typed(n)' => n = t
      BY <1>2, <1>3
    <3>4. \E n \in Live' : n = t /\ c \in Line(n)'
      BY <1>1, <1>2, <1>o, <2>2
    <3> QED
      BY <1>2, <2>1, <2>2, <3>2, <3>3, <3>4
  <2>3. CASE d # c
    <3>1. /\ pc[d] = "enter" /\ d \notin split
          /\ req[d].name = x /\ req[d].text \notin NothingLeft
      BY <1>2, <2>3
    <3>2. /\ Found(x) /\ \A n \in Live : d \in Typed(n) => n = Target(x)
          /\ (\E n \in Live : n = Target(x) /\ d \in Line(n)) \/ Met(d)
      BY <1>i, <3>1 DEF OneSession
    <3>3. \A n \in Live : d \in Typed(n)' => d \in Typed(n)
      BY <1>2, <1>o, <2>3
    <3>4. Met(d)
      BY <1>w, <2>3, <3>1 DEF Met
    <3> QED
      BY <1>2, <1>4, <2>1, <3>2, <3>3, <3>4
  <2> QED
    BY <2>2, <2>3
<1>8. OpenLines'
  <2> SUFFICES ASSUME NEW n \in Live', NEW d \in Line(n)'
               PROVE  ~req'[d].enter \/ d \in split' \/ pc'[d] = "enter" \/ Failed(d)'
    BY DEF OpenLines
  <2>1. CASE d = c
    BY <2>1 DEF Failed
  <2>2. CASE d # c
    <3>1. n \in Live /\ d \in Line(n) /\ d \in Calls
      BY <1>2, <1>3, <1>k, <1>o, <2>2
    <3>2. ~req[d].enter \/ d \in split \/ pc[d] = "enter" \/ Failed(d)
      BY <1>i, <3>1 DEF OpenLines
    <3> QED
      BY <1>2, <2>2, <3>1, <3>2 DEF Failed
  <2> QED
    BY <2>1, <2>2
<1>9. ClosedLines'
  <2> SUFFICES ASSUME NEW n \in Live', NEW i \in 1..Len(tmux'[n]), Submits(tmux'[n][i])
               PROVE  LineOK(n, i)'
    BY DEF ClosedLines
  <2>1. CASE i \in 1..Len(tmux[n])
    BY <1>i, <1>2, <1>5, <2>1, LineStays
  <2>2. CASE i \notin 1..Len(tmux[n])
    <3>1. /\ n \in Live /\ tmux'[n][i].call = c /\ tmux'[n][i].keys # "Enter"
          /\ Since(tmux'[n], i) = Line(n)
      BY <1>1, <1>2, <2>2
    <3>2. ASSUME NEW d \in Line(n) \ {c}
          PROVE  ~req'[d].enter \/ Failed(d)' \/ <<c, d>> \in met' \/ d \in split'
      <4>1. d \in Calls \ {c}
        BY <1>3, <3>1
      <4>2. ~req[d].enter \/ d \in split \/ pc[d] = "enter" \/ Failed(d)
        BY <1>i, <3>1 DEF OpenLines
      <4> QED
        BY <1>2, <1>w, <4>1, <4>2 DEF Failed
    <3> QED
      BY <3>1, <3>2 DEF LineOK
  <2> QED
    BY <2>1, <2>2
<1> QED
  BY <1>6, <1>7, <1>8, <1>9

\* The second one: it submits the line that has the text of its send.
LEMMA StepEnter ==
  ASSUME TypeOK, LinesInv, NEW c \in Calls, pc[c] = "enter",
         Found(req[c].name), SendKeys(req[c].name, [call |-> c, keys |-> "Enter"]),
         UNCHANGED met, req'[c] = req[c], pc'[c] = "over",
         \A d \in Calls \ {c} : UNCHANGED <<pc[d], req[d], answer[d]>>
  PROVE  SendsType' /\ OneSession' /\ OpenLines' /\ ClosedLines'
<1> DEFINE m == req[c].name
           key == [call |-> c, keys |-> "Enter"]
           t == Target(m)
<1>i. SendsType /\ OneSession /\ OpenLines /\ ClosedLines
  BY DEF LinesInv
<1>1. /\ m \in Names /\ key \in Keys /\ key.call = c
      /\ Own(key) = {} /\ Submits(key)
  BY DEF TypeOK, UnderWay, Keys, Own, Leaves, Submits
<1>2. /\ Live' = Live /\ split' = split /\ t \in Live
      /\ \A n \in Names : Meant(n)' = Meant(n)
      /\ \A n \in Live : n # t => Line(n)' = Line(n) /\ Typed(n)' = Typed(n)
      /\ \A n \in Live : n = t => Line(n)' = {} /\ Typed(n)' = Typed(n)
      /\ \A n \in Live : \A i \in 1..Len(tmux[n]) :
           tmux'[n][i] = tmux[n][i] /\ Since(tmux'[n], i) = Since(tmux[n], i)
      /\ \A n \in Live : \A i \in 1..Len(tmux'[n]) : i \notin 1..Len(tmux[n]) =>
           n = t /\ tmux'[n][i] = key /\ Since(tmux'[n], i) = Line(n)
  <2> HIDE DEF m, key
  <2>1. Found(m) /\ SendKeys(m, key)
    BY DEF m, key
  <2>2. /\ Live' = Live /\ split' = split /\ Target(m) \in Live
        /\ \A n \in Names : Meant(n)' = Meant(n)
        /\ \A n \in Live : n # Target(m) => Line(n)' = Line(n) /\ Typed(n)' = Typed(n)
        /\ \A n \in Live : n = Target(m) =>
             /\ Line(n)' = Kept(key, Line(n)) \cup Own(key)
             /\ Typed(n)' = Typed(n) \cup Own(key)
        /\ \A n \in Live : \A i \in 1..Len(tmux[n]) :
             tmux'[n][i] = tmux[n][i] /\ Since(tmux'[n], i) = Since(tmux[n], i)
        /\ \A n \in Live : \A i \in 1..Len(tmux'[n]) : i \notin 1..Len(tmux[n]) =>
             n = Target(m) /\ tmux'[n][i] = key /\ Since(tmux'[n], i) = Line(n)
    BY <1>1, <2>1, PaneGetsKey
  <2>3. ASSUME NEW n \in Live, n = Target(m) PROVE Line(n)' = {} /\ Typed(n)' = Typed(n)
    <3>1. /\ Line(n)' = Kept(key, Line(n)) \cup Own(key)
          /\ Typed(n)' = Typed(n) \cup Own(key)
      BY <2>2, <2>3
    <3>2. Kept(key, Line(n)) = {} /\ Own(key) = {}
      BY <1>1 DEF Kept
    <3> QED
      BY <3>1, <3>2
  <2> QED
    BY <2>2, <2>3
<1>3. \A n \in Live : Line(n) \subseteq Typed(n) /\ Typed(n) \subseteq Calls
  BY PaneFacts
<1>4. \A d \in Calls : Met(d)' = Met(d)
  BY DEF Met
<1>5. Later
  BY <1>2, <1>i DEF Later, Failed, TypeOK
\* Who is between its commands now has met this send.
<1>6. \A d \in Calls \ {c} : pc[d] = "enter" => <<c, d>> \in met /\ <<d, c>> \in met
  <2>1. \A d \in Calls : pc[d] = "enter" => d \in UnderWay /\ req[d].op = "send"
    BY <1>i DEF SendsType, UnderWay
  <2> QED
    BY <2>1 DEF LinesInv, SendsMeet
<1>7. SendsType'
  <2>1. \A d \in Calls : pc'[d] = "enter" => req'[d].op = "send" /\ req'[d].enter
    BY <1>i DEF SendsType
  <2>2. ASSUME NEW n \in Live', NEW i \in 1..Len(tmux'[n]), NEW d, d = tmux'[n][i].call
        PROVE  /\ pc'[d] \in {"enter", "over"} /\ req'[d].op = "send"
               /\ Leaves(tmux'[n][i]) => req'[d].text \notin NothingLeft
    <3>1. CASE i \in 1..Len(tmux[n])
      <4>1. /\ d \in Calls /\ pc[d] \in {"enter", "over"} /\ req[d].op = "send"
            /\ Leaves(tmux[n][i]) => req[d].text \notin NothingLeft
        BY <1>2, <1>i, <2>2, <3>1, PaneFacts DEF SendsType
      <4> QED
        BY <1>2, <3>1, <4>1
    <3>2. CASE i \notin 1..Len(tmux[n])
      <4>1. tmux'[n][i] = key /\ ~Leaves(key)
        BY <1>2, <3>2 DEF Leaves
      <4> QED
        BY <1>i, <2>2, <4>1 DEF SendsType
    <3> QED
      BY <3>1, <3>2
  <2> QED
    BY <2>1, <2>2 DEF SendsType
<1>8. OneSession'
  <2> SUFFICES ASSUME NEW d \in Calls, NEW x \in Names,
                      pc'[d] = "enter", d \notin split', req'[d].name = x,
                      req'[d].text \notin NothingLeft
               PROVE  /\ Found(x)'
                      /\ \A n \in Live' : d \in Typed(n)' => n = Target(x)'
                      /\ Met(d)'
    BY DEF OneSession
  <2>1. Found(x)' = Found(x) /\ Target(x)' = Target(x)
    BY <1>2, SameMeaning
  <2>2. /\ d # c /\ pc[d] = "enter" /\ d \notin split
        /\ req[d].name = x /\ req[d].text \notin NothingLeft
    BY <1>2
  <2>3. Found(x) /\ \A n \in Live : d \in Typed(n) => n = Target(x)
    BY <1>i, <2>2 DEF OneSession
  <2>4. Met(d)'
    BY <1>6, <2>2 DEF Met
  <2>5. \A n \in Live' : d \in Typed(n)' => n \in Live /\ d \in Typed(n)
    BY <1>2
  <2> QED
    BY <2>1, <2>3, <2>4, <2>5
<1>9. OpenLines'
  <2> SUFFICES ASSUME NEW n \in Live', NEW d \in Line(n)'
               PROVE  ~req'[d].enter \/ d \in split' \/ pc'[d] = "enter" \/ Failed(d)'
    BY DEF OpenLines
  <2>1. n \in Live /\ n # t /\ d \in Line(n) /\ d \in Typed(n) /\ d \in Calls
    BY <1>2, <1>3
  <2>2. CASE d = c
    <3>1. c \in split
      <4>1. req[c].text \notin NothingLeft
        BY <1>i, <2>1, <2>2, TypedFacts
      <4> QED
        BY <1>1, <1>i, <2>1, <2>2, <4>1 DEF OneSession
    <3> QED
      BY <1>2, <2>2, <3>1
  <2>3. CASE d # c
    <3>1. ~req[d].enter \/ d \in split \/ pc[d] = "enter" \/ Failed(d)
      BY <1>i, <2>1 DEF OpenLines
    <3> QED
      BY <1>2, <2>1, <2>3, <3>1 DEF Failed
  <2> QED
    BY <2>2, <2>3
<1>10. ClosedLines'
  <2> SUFFICES ASSUME NEW n \in Live', NEW i \in 1..Len(tmux'[n]), Submits(tmux'[n][i])
               PROVE  LineOK(n, i)'
    BY DEF ClosedLines
  <2>1. CASE i \in 1..Len(tmux[n])
    BY <1>i, <1>2, <1>5, <2>1, LineStays
  <2>2. CASE i \notin 1..Len(tmux[n])
    <3>1. /\ n \in Live /\ n = t /\ tmux'[n][i].call = c
          /\ Since(tmux'[n], i) = Line(n)
      BY <1>2, <2>2
    <3>2. ASSUME NEW d \in Line(n) \ {c}
          PROVE  ~req'[d].enter \/ Failed(d)' \/ <<c, d>> \in met' \/ d \in split'
      <4>1. d \in Calls \ {c}
        BY <1>3, <3>1
      <4>2. ~req[d].enter \/ d \in split \/ pc[d] = "enter" \/ Failed(d)
        BY <1>i, <3>1 DEF OpenLines
      <4> QED
        BY <1>2, <1>6, <4>1, <4>2 DEF Failed
    <3>3. c \in Line(n) \/ req'[c].text \in NothingLeft \/ c \in split' \/ Met(c)'
      BY <1>1, <1>2, <1>4, <1>i, <3>1 DEF OneSession
    <3> QED
      BY <3>1, <3>2, <3>3 DEF LineOK
  <2> QED
    BY <2>1, <2>2
<1> QED
  BY <1>7, <1>8, <1>9, <1>10

\* The sends under way have met after every step too.
LEMMA StepSendsMeet ==
  TypeOK /\ SendsMeet /\ [Next]_vars => SendsMeet'
<1> SUFFICES ASSUME TypeOK, SendsMeet, [Next]_vars PROVE SendsMeet'
  OBVIOUS
\* A step that puts nobody new under way.
<1>a. ASSUME met \subseteq met',
             \A c \in Calls : c \in UnderWay' => c \in UnderWay /\ req'[c] = req[c]
      PROVE  SendsMeet'
  BY <1>a DEF SendsMeet, UnderWay
<1>b. ASSUME NEW c \in Calls, pc[c] \in {"run", "enter"}, met' = met,
             \/ pc' = [pc EXCEPT ![c] = "over"]
             \/ pc' = [pc EXCEPT ![c] = "enter"] /\ req' = req,
             \A d \in Calls \ {c} : req'[d] = req[d]
      PROVE  SendsMeet'
  <2>1. \A d \in Calls : d \in UnderWay' => d \in UnderWay /\ req'[d] = req[d]
    BY <1>b DEF UnderWay, TypeOK
  <2> QED
    BY <1>a, <1>b, <2>1
<1>c. ASSUME NEW c \in Calls, NEW what, Answer(c, what), pc[c] \in {"run", "enter"}, met' = met
      PROVE  SendsMeet'
  <2>1. \A d \in Calls \ {c} : req'[d] = req[d]
    BY <1>c DEF Answer, TypeOK
  <2> QED
    BY <1>b, <1>c, <2>1 DEF Answer
<1>1. ASSUME NEW c \in Calls, NEW r \in Requests, Call(c, r) PROVE SendsMeet'
  <2>1. CASE r.name = BadName
    <3>1. \A d \in Calls : d \in UnderWay' => d \in UnderWay /\ req'[d] = req[d]
      BY <1>1, <2>1 DEF Call, Answer, UnderWay, TypeOK
    <3> QED
      BY <1>a, <1>1, <2>1, <3>1 DEF Call
  <2>2. CASE r.name # BadName
    <3> DEFINE others == {d \in UnderWay : {r.op, req[d].op} = {"send"}}
    <3>1. /\ pc' = [pc EXCEPT ![c] = "run"] /\ req' = [req EXCEPT ![c] = r]
          /\ met' = met \cup ({c} \X others) \cup (others \X {c})
          /\ pc[c] = "new"
      BY <1>1, <2>2 DEF Call
    <3>2. /\ req'[c] = r
          /\ \A d \in Calls : d # c => req'[d] = req[d] /\ (d \in UnderWay' => d \in UnderWay)
      BY <3>1 DEF TypeOK, UnderWay
    <3>3. SUFFICES ASSUME NEW d \in Calls, NEW e \in Calls, d \in UnderWay', e \in UnderWay',
                          d # e, req'[d].op = "send", req'[e].op = "send"
                   PROVE  <<d, e>> \in met'
      BY DEF SendsMeet, UnderWay
    <3>4. CASE d # c /\ e # c
      BY <3>1, <3>2, <3>3, <3>4 DEF SendsMeet
    <3>5. CASE d = c
      <4>1. e \in others
        BY <3>2, <3>3, <3>5
      <4> QED
        BY <3>1, <3>5, <4>1
    <3>6. CASE e = c
      <4>1. d \in others
        BY <3>2, <3>3, <3>6
      <4> QED
        BY <3>1, <3>6, <4>1
    <3> QED
      BY <3>4, <3>5, <3>6
  <2> QED
    BY <2>1, <2>2
<1>2. ASSUME NEW c \in Calls, Create(c) PROVE SendsMeet'
  BY <1>c, <1>2 DEF Create, Does, Run
<1>3. ASSUME NEW c \in Calls, Destroy(c) PROVE SendsMeet'
  BY <1>c, <1>3 DEF Destroy, Does, Run
<1>4. ASSUME NEW c \in Calls, Capture(c) PROVE SendsMeet'
  BY <1>c, <1>4 DEF Capture, Does, Run
<1>5. ASSUME NEW c \in Calls, SendText(c) PROVE SendsMeet'
  BY <1>b, <1>c, <1>5 DEF SendText, TextSent, Does, Run, Proceed
<1>6. ASSUME NEW c \in Calls, SendEnter(c) PROVE SendsMeet'
  BY <1>c, <1>6 DEF SendEnter, Run
<1>7. CASE Crash
  <2>1. \A c \in Calls : c \notin UnderWay'
    BY <1>7 DEF Crash, UnderWay
  <2> QED
    BY <1>a, <1>7, <2>1 DEF Crash
<1>8. CASE UNCHANGED <<pc, req, met>>
  BY <1>a, <1>8 DEF UnderWay
<1>9. ASSUME \/ \E n \in Names : ShellExits(n)
             \/ BootstrapNew \/ BootstrapKill
             \/ UNCHANGED vars
      PROVE  SendsMeet'
  BY <1>8, <1>9 DEF ShellExits, BootstrapNew, BootstrapKill, vars
<1> QED
  BY <1>1, <1>2, <1>3, <1>4, <1>5, <1>6, <1>7, <1>9 DEF Next

LEMMA StepLines ==
  TypeOK /\ LinesInv /\ [Next]_vars => LinesInv'
<1> SUFFICES ASSUME TypeOK, LinesInv, [Next]_vars PROVE LinesInv'
  OBVIOUS
<1> DEFINE Rest == SendsType' /\ OneSession' /\ OpenLines' /\ ClosedLines'
<1>0. SendsMeet' /\ (Rest => LinesInv')
  BY StepSendsMeet DEF LinesInv
<1>q. ASSUME ComeOrGo, NobodyTypes, met \subseteq met' PROVE Rest
  BY <1>q, StepQuiet
<1> HIDE DEF Rest
<1>s. SUFFICES Rest
  BY <1>0
\* A call that ends without having sent a key.
<1>a. ASSUME NEW c \in Calls, NEW what, Answer(c, what), ComeOrGo, met' = met,
             pc[c] \in {"new", "run"} \/ (pc[c] = "enter" /\ what # "ok")
      PROVE  Rest
  <2>1. \A d \in Calls \ {c} : UNCHANGED <<pc[d], req[d], answer[d]>>
    BY <1>a DEF Answer, TypeOK
  <2>2. pc'[c] = "over" /\ answer'[c] = what
    BY <1>a DEF Answer, TypeOK
  <2>3. pc[c] = "enter" => req'[c] = req[c]
    BY <1>a DEF Answer, LinesInv, SendsType
  <2>4. NobodyTypes
    BY <1>a, <2>1, <2>2, <2>3 DEF NobodyTypes
  <2> QED
    BY <1>a, <1>q, <2>4
<1>n. ASSUME Nothing PROVE ComeOrGo
  BY <1>n DEF ComeOrGo
<1>1. ASSUME NEW c \in Calls, NEW r \in Requests, Call(c, r) PROVE Rest
  <2>1. ComeOrGo /\ pc[c] = "new" /\ met \subseteq met'
    BY <1>1, <1>n DEF Call, Nothing
  <2>2. CASE r.name = BadName
    BY <1>1, <1>a, <2>1, <2>2 DEF Call
  <2>3. CASE r.name # BadName
    <3>1. pc' = [pc EXCEPT ![c] = "run"] /\ req' = [req EXCEPT ![c] = r] /\ answer' = answer
      BY <1>1, <2>3 DEF Call
    <3>2. NobodyTypes
      BY <2>1, <3>1 DEF NobodyTypes, TypeOK
    <3> QED
      BY <1>q, <2>1, <3>2
  <2> QED
    BY <2>2, <2>3
<1>2. ASSUME NEW c \in Calls, Create(c) PROVE Rest
  <2>1. pc[c] = "run" /\ met' = met /\ \E what : Answer(c, what)
    BY <1>2 DEF Create, Does, Run
  <2>2. req[c].name \in Names
    BY <2>1 DEF TypeOK, UnderWay
  <2>3. Nothing \/ (req[c].name \notin Live /\ NewSession(req[c].name))
    BY <1>2 DEF Create, Run
  <2> QED
    BY <1>a, <1>n, <2>1, <2>2, <2>3 DEF ComeOrGo
<1>3. ASSUME NEW c \in Calls, Destroy(c) PROVE Rest
  <2>1. pc[c] = "run" /\ met' = met /\ \E what : Answer(c, what)
    BY <1>3 DEF Destroy, Does, Run
  <2>2. req[c].name \in Names
    BY <2>1 DEF TypeOK, UnderWay
  <2>3. Nothing \/ (Found(req[c].name) /\ EndSession(Target(req[c].name)))
    BY <1>3 DEF Destroy, Run
  <2>4. Found(req[c].name) => Target(req[c].name) \in Live
    BY <2>2, TargetFacts
  <2> QED
    BY <1>a, <1>n, <2>1, <2>3, <2>4 DEF ComeOrGo
<1>4. ASSUME NEW c \in Calls, Capture(c) PROVE Rest
  <2>1. pc[c] = "run" /\ met' = met /\ Nothing /\ \E what : Answer(c, what)
    BY <1>4 DEF Capture, Does, Run
  <2> QED
    BY <1>a, <1>n, <2>1
<1>5. ASSUME NEW c \in Calls, SendText(c) PROVE Rest
  <2> DEFINE key == [call |-> c, keys |-> req[c].text]
             Typing == req[c].text # "dashed" /\ Found(req[c].name) /\ SendKeys(req[c].name, key)
             Goes == req[c].enter /\ Proceed(c, "enter")
             Ends == \E what : Answer(c, what) /\ (~req[c].enter \/ what # "ok")
  <2>1. /\ pc[c] = "run" /\ req[c].op = "send" /\ met' = met /\ pc[c] # "enter"
        /\ \/ Typing /\ (Goes \/ Ends)
           \/ Nothing /\ Ends
           \/ Nothing /\ Goes /\ req[c].text \in NothingLeft
    BY <1>5 DEF SendText, TextSent, Does, Run, NothingLeft
  <2>2. CASE Nothing /\ Ends
    BY <1>a, <1>n, <2>1, <2>2
  <2>g. ASSUME Goes
        PROVE  /\ pc'[c] = "enter" /\ req'[c] = req[c] /\ req[c].enter
               /\ \A d \in Calls \ {c} : UNCHANGED <<pc[d], req[d], answer[d]>>
    BY <2>g DEF Proceed, TypeOK
  <2>3. CASE Typing /\ Goes
    BY <2>1, <2>3, <2>g, StepText DEF Rest
  <2>4. CASE Nothing /\ Goes /\ req[c].text \in NothingLeft
    <3>1. NobodyTypes
      BY <2>1, <2>4, <2>g DEF NobodyTypes
    <3> QED
      BY <1>n, <1>q, <2>1, <2>4, <3>1
  <2>5. CASE Typing /\ Ends
    <3>1. PICK what : Answer(c, what) /\ (~req[c].enter \/ what # "ok")
      BY <2>5
    <3>2. pc'[c] = "over" /\ req'[c] = req[c] /\ answer'[c] = what
      BY <2>1, <3>1 DEF Answer, TypeOK
    <3>3. \A d \in Calls \ {c} : UNCHANGED <<pc[d], req[d], answer[d]>>
      BY <2>1, <3>1 DEF Answer, TypeOK
    <3> QED
      BY <2>1, <2>5, <3>1, <3>2, <3>3, StepText DEF Rest
  <2> QED
    BY <2>1, <2>2, <2>3, <2>4, <2>5
<1>6. ASSUME NEW c \in Calls, SendEnter(c) PROVE Rest
  <2>1. /\ pc[c] = "enter" /\ met' = met
        /\ \/ /\ Found(req[c].name) /\ SendKeys(req[c].name, [call |-> c, keys |-> "Enter"])
              /\ \E what : Answer(c, what)
           \/ Nothing /\ Answer(c, "unavailable")
    BY <1>6 DEF SendEnter, Run
  <2>2. CASE Nothing /\ Answer(c, "unavailable")
    BY <1>a, <1>n, <2>1, <2>2
  <2>3. ASSUME Found(req[c].name), SendKeys(req[c].name, [call |-> c, keys |-> "Enter"]),
               NEW what, Answer(c, what)
        PROVE  Rest
    <3>1. req[c].op = "send"
      BY <2>1 DEF LinesInv, SendsType
    <3>2. pc'[c] = "over" /\ req'[c] = req[c]
      BY <2>1, <2>3, <3>1 DEF Answer, TypeOK
    <3>3. \A d \in Calls \ {c} : UNCHANGED <<pc[d], req[d], answer[d]>>
      BY <2>3, <3>1 DEF Answer, TypeOK
    <3> QED
      BY <2>1, <2>3, <3>2, <3>3, StepEnter DEF Rest
  <2> QED
    BY <2>1, <2>2, <2>3
<1>7. CASE Crash
  <2>1. ComeOrGo /\ met' = met
    BY <1>7, <1>n DEF Crash, Nothing
  <2>2. NobodyTypes
    <3> SUFFICES ASSUME NEW d \in Calls
                 PROVE  \/ UNCHANGED <<pc[d], req[d], answer[d]>>
                        \/ pc[d] \in {"new", "run"} /\ pc'[d] # "enter"
                        \/ pc[d] = "enter" /\ pc'[d] = "over" /\ answer'[d] # "ok" /\ req'[d] = req[d]
      BY DEF NobodyTypes
    <3>1. d \in UnderWay => pc'[d] = "over" /\ answer'[d] = "lost" /\ req'[d] = req[d]
      BY <1>7 DEF Crash
    <3>2. d \notin UnderWay => UNCHANGED <<pc[d], req[d], answer[d]>>
      BY <1>7 DEF Crash
    <3> QED
      BY <3>1, <3>2 DEF UnderWay
  <2> QED
    BY <1>q, <2>1, <2>2
<1>8. ASSUME ComeOrGo, UNCHANGED <<pc, req, answer, met>> PROVE Rest
  BY <1>q, <1>8 DEF NobodyTypes
<1>9. ASSUME NEW n \in Names, ShellExits(n) PROVE Rest
  <2>1. ComeOrGo
    BY <1>9 DEF ShellExits, ComeOrGo
  <2> QED
    BY <1>8, <1>9, <2>1 DEF ShellExits
<1>10. CASE BootstrapNew
  <2>1. Nothing \/ (Bootstrap \notin Live /\ NewSession(Bootstrap))
    BY <1>10 DEF BootstrapNew
  <2>2. ComeOrGo
    BY <2>1, TerminalsAssumption DEF ComeOrGo
  <2> QED
    BY <1>8, <1>10, <2>2 DEF BootstrapNew
<1>11. CASE BootstrapKill
  <2>1. Nothing \/ (Found(Bootstrap) /\ EndSession(Target(Bootstrap)))
    BY <1>11 DEF BootstrapKill
  <2>2. Found(Bootstrap) => Target(Bootstrap) \in Live
    BY TerminalsAssumption, TargetFacts
  <2>3. ComeOrGo
    BY <2>1, <2>2 DEF ComeOrGo
  <2> QED
    BY <1>8, <1>11, <2>3 DEF BootstrapKill
<1>12. CASE UNCHANGED vars
  <2>1. ComeOrGo
    BY <1>12, <1>n DEF Nothing, vars
  <2> QED
    BY <1>8, <1>12, <2>1 DEF vars
<1> QED
  BY <1>1, <1>2, <1>3, <1>4, <1>5, <1>6, <1>7, <1>9, <1>10, <1>11, <1>12 DEF Next

\* A submitted line is the text of the call that submits it, but for what calls
\* that met, failed or were split by a session that came or went have left in it:
\* a send is two commands, and nothing keeps others from between them.
THEOREM LinesStayWhole == Spec => []LinesAreWhole
<1>1. TypeOK /\ LinesInv => LinesAreWhole
  <2> SUFFICES ASSUME TypeOK, LinesInv, NEW n \in Live,
                      NEW i \in DOMAIN tmux[n], Submits(tmux[n][i])
               PROVE  LET c == tmux[n][i].call
                      IN  /\ \A d \in InLine(n, i) \ {c} :
                               ~req[d].enter \/ answer[d] # "ok" \/ <<c, d>> \in met \/ d \in split
                          /\ \/ tmux[n][i].keys # "Enter" \/ c \in InLine(n, i)
                             \/ req[c].text \in NothingLeft
                             \/ c \in split \/ \E d \in Calls : <<c, d>> \in met
    BY DEF LinesAreWhole
  <2>1. i \in 1..Len(tmux[n])
    BY PaneFacts
  <2>2. LineOK(n, i)
    BY <2>1 DEF LinesInv, ClosedLines
  <2> QED
    BY <2>2, InLineFacts DEF LineOK, Failed, Met
<1>2. Spec => [](TypeOK /\ LinesInv)
  BY InitTypeOK, StepTypeOK, InitLines, StepLines, PTL DEF Spec
<1> QED
  BY <1>1, <1>2, PTL
=============================================================================
