--------------------------- MODULE ShowcaseFlowProofs ---------------------------
(***************************************************************************)
(* Theorems about ShowcaseFlow, for any prompts, any clients of the lease  *)
(* and any TTLs.                                                           *)
(***************************************************************************)
EXTENDS ShowcaseFlow, FiniteSetTheorems, SequenceTheorems, WellFoundedInduction, TLAPS

\* What the script consists of.
Calls == {Item(tool) : tool \in {"runtime_status", "screenshot", "START", "left_click", "key"}}

Chunks ==
  {TypeItem(ChunksOf(prompt)[k]) : k \in 1..Cardinality(Cuts(prompt))}

Starting == phase = "run" /\ Current.tool = "START"

\* What the script is about to discard, or may still discard, is its own.
WillDiscard ==
  \/ phase = "run" /\ started
  \/ Starting /\ call = "ok"
  \/ phase = "discard" /\ call \in {"idle", "sent"}
  \/ \E item \in late : item.tool = "DISCARD"

\* A recording of the script's that runs is known to it, was started by a call
\* whose answer is still to come, or by one that was not answered.
Known ==
  \/ started
  \/ Starting /\ call \in {"ok", "error"}
  \/ "START" \in unheard

IInv ==
  /\ phase \in {"run", "discard", "submitted", "failed"}
  /\ call \in {"idle", "sent", "ok", "error"}
  /\ recording \in {"none", "flow", "other"}
  /\ call # "idle" => phase \in {"run", "discard"}
  /\ pos \in Nat /\ prompt \in Prompts
  /\ phase = "run" => late = {} /\ pos < Len(Script)
  /\ WillDiscard => recording = "flow" \/ taken
  /\ recording = "flow" => Known
  /\ \A item \in late :
       /\ item.tool = "START" => "START" \in unheard
       /\ item.tool = "DISCARD" => phase = "failed" /\ item = Item("DISCARD")
  /\ phase = "discard" => started
  /\ phase = "discard" /\ call = "ok" /\ recording = "flow" => unheard # {}
  /\ FailedScriptCleansUp
-----------------------------------------------------------------------------
\* What the proofs below need to know of a concatenation.
LEMMA Concatenated ==
  ASSUME NEW T, NEW s \in Seq(T), NEW t \in Seq(T)
  PROVE  s \o t \in Seq(T) /\ Len(s \o t) = Len(s) + Len(t)
BY ConcatProperties

LEMMA ConcatenatedItems ==
  ASSUME NEW T, NEW s \in Seq(T), NEW t \in Seq(T)
  PROVE  \A i \in 1..(Len(s) + Len(t)) :
           (s \o t)[i] = IF i <= Len(s) THEN s[i] ELSE t[i - Len(s)]
BY ConcatProperties, Zenon

\* Chunks end within the text, whoever cut it.
LEMMA CutsAreInside == \A text : Cuts(text) \subseteq 1..Len(text)
<1> SUFFICES ASSUME NEW text PROVE Cuts(text) \subseteq 1..Len(text)
  OBVIOUS
<1>1. HumanCuts(text) \subseteq 1..Len(text)
  BY DEF HumanCuts
<1>2. text = DefaultPrompt => DefaultCuts \subseteq 1..Len(text)
  BY FlowAssumption
<1> QED
  BY <1>1, <1>2 DEF Cuts

\* The script is a sequence of such calls, and nowhere discards anything.
LEMMA ScriptFacts ==
  ASSUME prompt \in Prompts
  PROVE  /\ Script \in Seq(Calls \cup Chunks)
         /\ Len(Script) \in Nat /\ Len(Script) > 0
         /\ \A i \in 1..Len(Script) : Script[i].tool # "DISCARD"
<1> DEFINE S == Calls \cup Chunks
           n == Cardinality(Cuts(prompt))
           typing == [k \in DOMAIN ChunksOf(prompt) |-> TypeItem(ChunksOf(prompt)[k])]
<1>1. n \in Nat
  <2>1. Len(prompt) \in Nat
    BY FlowAssumption
  <2>2. IsFiniteSet(1..Len(prompt)) /\ Cuts(prompt) \subseteq 1..Len(prompt)
    BY <2>1, FS_Interval, CutsAreInside
  <2> QED
    BY <2>2, FS_Subset, FS_CardinalityType
<1>2. typing \in Seq(S)
  <2>1. DOMAIN ChunksOf(prompt) = 1..n
    BY DEF ChunksOf
  <2>2. \A k \in 1..n : TypeItem(ChunksOf(prompt)[k]) \in S
    BY DEF Chunks
  <2> HIDE DEF S, n
  <2>3. typing = [k \in 1..n |-> TypeItem(ChunksOf(prompt)[k])]
    BY <2>1
  <2>4. typing \in [1..n -> S]
    BY <2>2, <2>3
  <2> QED
    BY <1>1, <2>4
<1>3. \A tool \in {"runtime_status", "screenshot", "START", "left_click", "key"} :
        Item(tool) \in S
  BY DEF Calls
<1> HIDE DEF typing, S
<1>4. Visible = <<Item("left_click")>> \o typing \o <<Item("key")>>
  BY DEF Visible, typing
<1>5. Visible \in Seq(S)
  <2>1. <<Item("left_click")>> \in Seq(S) /\ <<Item("key")>> \in Seq(S)
    BY <1>3
  <2> QED
    BY <1>2, <1>4, <2>1
<1>6. Script \in Seq(S) /\ Len(Script) > 0
  <2> DEFINE head == <<Item("runtime_status"), Item("screenshot")>>
             start == IF record THEN <<Item("START")>> ELSE <<>>
  <2>1. head \in Seq(S) /\ Len(head) = 2 /\ start \in Seq(S)
    BY <1>3
  <2>2. Script = head \o start \o Visible
    BY DEF Script
  <2> HIDE DEF head, start
  <2>3. head \o start \in Seq(S) /\ Len(head \o start) = 2 + Len(start)
    BY <2>1, Concatenated
  <2>4. Len(start) \in Nat /\ Len(Visible) \in Nat
    BY <1>5, <2>1, LenProperties
  <2>5. /\ head \o start \o Visible \in Seq(S)
        /\ Len(head \o start \o Visible) = 2 + Len(start) + Len(Visible)
    BY <1>5, <2>3, Concatenated
  <2> QED
    BY <2>2, <2>4, <2>5
<1>7. \A item \in S : item.tool # "DISCARD"
  BY DEF S, Calls, Chunks, Item, TypeItem
<1> QED
  BY <1>6, <1>7 DEF S

\* What the call under way is.
LEMMA CurrentFacts ==
  ASSUME IInv
  PROVE  /\ phase = "run" => Current.tool # "DISCARD"
         /\ phase = "discard" => Current.tool = "DISCARD" /\ Current = Item("DISCARD")
<1>1. CASE phase = "run"
  <2>1. pos + 1 \in 1..Len(Script) /\ Current = Script[pos + 1]
    BY <1>1, ScriptFacts DEF IInv, Current
  <2> QED
    BY <1>1, <2>1, ScriptFacts DEF IInv
<1>2. CASE phase = "discard"
  BY <1>2 DEF Current, Item
<1> QED
  BY <1>1, <1>2

LEMMA InitIInv == Init => IInv
BY ScriptFacts
   DEF Init, IInv, WillDiscard, Starting, FailedScriptCleansUp, Known

\* What carrying out a call does to the recorder.
LEMMA EffectFacts ==
  ASSUME NEW item, Effect(item)
  PROVE  /\ item.tool = "START" =>
              recording = "none" /\ recording' = "flow" /\ UNCHANGED taken
         /\ item.tool = "DISCARD" =>
              recording # "none" /\ recording' = "none" /\ UNCHANGED taken
         /\ item.tool \notin {"START", "DISCARD"} => UNCHANGED <<recording, taken>>
BY DEF Effect, NobodyControls, StartRecording, DiscardRecording, Refuse, Act, desktop

LEMMA RaiseFacts ==
  ASSUME IInv, phase \in {"run", "discard"}, Raise
  PROVE  /\ call' = "idle" /\ phase' \in {"discard", "failed"}
         /\ phase' = "discard" <=> phase = "run" /\ started
         /\ UNCHANGED <<pos, started>>
         /\ unheard \subseteq unheard'
         /\ Current.tool \in {"START", "DISCARD"} => Current.tool \in unheard'
BY DEF Raise

\* A call that raises, whether or not it may still be carried out.
LEMMA RaiseKeepsIInv ==
  ASSUME IInv, phase \in {"run", "discard"}, call \in {"sent", "ok", "error"}, Raise,
         UNCHANGED <<desktop, options>>,
         \/ call = "sent" /\ late' = late \cup {Current}
         \/ call # "sent" /\ late' = late
  PROVE  IInv'
<1>1. /\ UNCHANGED <<recording, taken, prompt>>
      /\ late' \in {late, late \cup {Current}}
      /\ call # "sent" => late' = late
  BY DEF desktop, options
<1>2. ASSUME NEW item \in late'
      PROVE  /\ item.tool = "START" => "START" \in unheard'
             /\ item.tool = "DISCARD" => phase' = "failed" /\ item = Item("DISCARD")
  <2>1. CASE item \in late
    BY <2>1, <1>1, RaiseFacts DEF IInv
  <2>2. CASE item = Current
    BY <2>2, RaiseFacts, CurrentFacts
  <2> QED BY <1>1, <2>1, <2>2
<1>3. WillDiscard' => recording' = "flow" \/ taken'
  <2>1. CASE phase' = "discard"
    BY <1>1, <2>1, RaiseFacts DEF IInv, WillDiscard
  <2>2. ASSUME NEW item \in late', item.tool = "DISCARD"
        PROVE  recording' = "flow" \/ taken'
    <3>1. CASE item \in late
      BY <1>1, <2>2, <3>1 DEF IInv, WillDiscard
    <3>2. CASE item \notin late
      BY <1>1, <2>2, <3>2, CurrentFacts DEF IInv, WillDiscard
    <3> QED BY <3>1, <3>2
  <2> QED
    BY <2>1, <2>2, RaiseFacts DEF WillDiscard, Starting
<1>4. recording' = "flow" => Known' /\ (phase' = "failed" => unheard' # {})
  <2> SUFFICES ASSUME recording = "flow"
               PROVE  Known' /\ (phase' = "failed" => unheard' # {})
    BY <1>1
  <2>1. started' \/ "START" \in unheard'
    BY RaiseFacts DEF IInv, Known, Starting
  <2>2. phase' = "failed" => unheard' # {}
    BY <2>1, RaiseFacts, CurrentFacts DEF IInv
  <2> QED
    BY <2>1, <2>2 DEF Known
<1> QED
  BY <1>1, <1>2, <1>3, <1>4, RaiseFacts DEF IInv, FailedScriptCleansUp

\* Somebody else's steps: what becomes of a recording of the script's is noted.
LEMMA OthersKeepIInv ==
  ASSUME IInv, UNCHANGED <<options, client, late>>,
         recording' \in {"none", "flow", "other"},
         recording' = "flow" => recording = "flow",
         recording = "flow" \/ taken => recording' = "flow" \/ taken'
  PROVE  IInv'
<1>1. UNCHANGED <<prompt, record, pos, phase, call, started, unheard, late>>
  BY DEF options, client
<1>2. Script' = Script /\ Current' = Current
  BY <1>1 DEF Script, Visible, Current
<1> QED
  BY <1>1, <1>2 DEF IInv, WillDiscard, Starting, Known, FailedScriptCleansUp

\* The call under way is carried out, or refused.
LEMMA ServeKeepsIInv ==
  ASSUME IInv, Serve
  PROVE  IInv'
<1>1. /\ call = "sent" /\ phase \in {"run", "discard"}
      /\ UNCHANGED <<prompt, record, pos, phase, started, late, unheard>>
      /\ call' \in {"ok", "error"}
      /\ Effect(Current) \/ (Refuse /\ call' = "error")
  BY DEF Serve, options, IInv
<1>2. Script' = Script /\ Current' = Current
  BY <1>1 DEF Script, Visible, Current
<1>3. CASE Effect(Current)
  <2>1. recording' \in {"none", "flow", "other"} /\ taken' = taken
    BY <1>3, EffectFacts DEF IInv
  <2>2. WillDiscard' => recording' = "flow" \/ taken'
    BY <1>1, <1>2, <1>3, EffectFacts, CurrentFacts DEF IInv, WillDiscard, Starting
  <2>3. recording' = "flow" => Known'
    BY <1>1, <1>2, <1>3, EffectFacts, CurrentFacts DEF IInv, Known, Starting
  <2>4. phase = "discard" => recording' = "none"
    BY <1>3, EffectFacts, CurrentFacts
  <2> QED
    BY <1>1, <1>2, <2>1, <2>2, <2>3, <2>4 DEF IInv, FailedScriptCleansUp
<1>4. CASE Refuse /\ call' = "error"
  BY <1>1, <1>2, <1>4
     DEF Refuse, IInv, WillDiscard, Known, Starting, FailedScriptCleansUp
<1> QED
  BY <1>1, <1>3, <1>4

LEMMA SucceedKeepsIInv ==
  ASSUME IInv, Succeed
  PROVE  IInv'
<1>1. /\ call = "ok" /\ call' = "idle" /\ phase \in {"run", "discard"}
      /\ UNCHANGED <<recording, taken, prompt, record, late, unheard>>
  BY DEF Succeed, IInv, desktop, options
<1>2. Script' = Script
  BY <1>1 DEF Script, Visible
<1>3. CASE phase = "discard"
  <2>1. phase' = "failed" /\ UNCHANGED <<pos, started>>
    BY <1>3 DEF Succeed
  <2> QED
    BY <1>1, <1>2, <1>3, <2>1
       DEF IInv, WillDiscard, Known, Starting, FailedScriptCleansUp
<1>4. CASE phase = "run"
  <2>1. /\ pos' = pos + 1 /\ started' = (started \/ Current.tool = "START")
        /\ phase' = IF pos' = Len(Script) THEN "submitted" ELSE "run"
    BY <1>4 DEF Succeed
  <2>2. pos' \in Nat /\ (phase' = "run" => pos' < Len(Script'))
    BY <1>2, <1>4, <2>1, ScriptFacts DEF IInv
  <2>3. late = {}
    BY <1>4 DEF IInv
  <2>4. WillDiscard' => recording' = "flow" \/ taken'
    BY <1>1, <1>4, <2>1, <2>3 DEF IInv, WillDiscard, Starting
  <2>5. recording' = "flow" => Known'
    BY <1>1, <1>4, <2>1 DEF IInv, Known, Starting
  <2> QED
    BY <1>1, <1>4, <2>1, <2>2, <2>3, <2>4, <2>5 DEF IInv, FailedScriptCleansUp
<1> QED
  BY <1>1, <1>3, <1>4

\* A call that was given up: only the script's own START and DISCARD are late.
LEMMA ServeLateKeepsIInv ==
  ASSUME IInv, NEW item \in late, ServeLate(item)
  PROVE  IInv'
<1>1. /\ UNCHANGED <<prompt, record, pos, phase, call, started, unheard>>
      /\ late' = late \ {item} /\ phase # "run"
      /\ Effect(item) \/ UNCHANGED <<recording, taken>>
  BY DEF ServeLate, options, client, desktop, IInv
<1>2. /\ recording' \in {"none", "flow", "other"} /\ taken' = taken
      /\ recording' = "flow" => recording = "flow" \/ "START" \in unheard
      /\ recording = "flow" =>
           recording' = "flow" \/ (item.tool = "DISCARD" /\ phase = "failed")
  BY <1>1, EffectFacts DEF IInv
<1>3. Script' = Script
  BY <1>1 DEF Script, Visible
<1>4. WillDiscard' => recording' = "flow" \/ taken'
  <2>1. WillDiscard' => WillDiscard
    BY <1>1 DEF WillDiscard, Starting
  <2>2. CASE recording = "flow" /\ recording' # "flow"
    <3>1. recording' = "none" /\ item.tool = "DISCARD" /\ phase = "failed"
      BY <1>1, <1>2, <2>2, EffectFacts
    <3>2. item = Item("DISCARD") /\ \A other \in late' : other.tool # "DISCARD"
      BY <1>1, <3>1 DEF IInv
    <3> QED
      BY <1>1, <3>1, <3>2 DEF WillDiscard, Starting
  <2> QED
    BY <1>1, <1>2, <2>1, <2>2 DEF IInv
<1>5. recording' = "flow" => Known'
  BY <1>1, <1>2 DEF IInv, Known, Starting
<1> QED
  BY <1>1, <1>2, <1>3, <1>4, <1>5 DEF IInv, FailedScriptCleansUp

LEMMA StepIInv == IInv /\ [Next]_vars => IInv'
<1> SUFFICES ASSUME IInv, [Next]_vars PROVE IInv'
  OBVIOUS
<1>1. CASE Send
  <2>1. /\ call = "idle" /\ call' = "sent" /\ phase \in {"run", "discard"}
        /\ UNCHANGED <<recording, taken, prompt, record, pos, phase, started, late, unheard>>
    BY <1>1 DEF Send, desktop, options
  <2>2. Script' = Script /\ Current' = Current
    BY <2>1 DEF Script, Visible, Current
  <2> QED
    BY <2>1, <2>2 DEF IInv, WillDiscard, Starting, Known, FailedScriptCleansUp
<1>2. CASE Succeed
  BY <1>2, SucceedKeepsIInv
<1>3. CASE Fail
  <2>1. call = "error" /\ phase \in {"run", "discard"}
    BY <1>3 DEF Fail, IInv
  <2> QED
    BY <1>3, <2>1, RaiseKeepsIInv DEF Fail
<1>4. CASE GiveUp
  <2>1. phase \in {"run", "discard"}
    BY <1>4 DEF GiveUp, IInv
  <2> QED
    BY <1>4, <2>1, RaiseKeepsIInv DEF GiveUp
<1>5. CASE Serve
  BY <1>5, ServeKeepsIInv
<1>6. ASSUME NEW item \in late, ServeLate(item) PROVE IInv'
  BY <1>6, ServeLateKeepsIInv
<1>7. ASSUME NEW h \in Humans, HumanClaims(h) \/ HumanReleases(h) PROVE IInv'
  BY <1>7, OthersKeepIInv DEF HumanClaims, HumanReleases, IInv
<1>8. CASE Time
  BY <1>8, OthersKeepIInv DEF Time, IInv
<1>9. CASE OtherStarts
  BY <1>9, OthersKeepIInv DEF OtherStarts, IInv
<1>10. CASE OtherEnds
  BY <1>10, OthersKeepIInv DEF OtherEnds, IInv
<1>11. CASE UNCHANGED vars
  BY <1>11, OthersKeepIInv DEF vars, desktop, IInv
<1> QED
  BY <1>1, <1>2, <1>3, <1>4, <1>5, <1>6, <1>7, <1>8, <1>9, <1>10, <1>11 DEF Next
-----------------------------------------------------------------------------
\* Whatever is refused, lost, given up or carried out late, a script that failed
\* leaves a recording of its own only if START or DISCARD went unheard.
THEOREM FailureCleansUp == Spec => []FailedScriptCleansUp
<1>1. IInv => FailedScriptCleansUp
  BY DEF IInv
<1> QED
  BY <1>1, InitIInv, StepIInv, PTL DEF Spec

\* The script ends no recording but its own, unless somebody had ended that.
THEOREM OthersAreLeftAlone == Spec => OthersRecordingsAreKept
<1> DEFINE Kept == recording = "other" /\ recording' = "none" => OtherEnds \/ taken
<1>1. IInv /\ [Next]_vars => [Kept]_vars
  <2> SUFFICES ASSUME IInv, Next, recording = "other", recording' = "none"
               PROVE  OtherEnds \/ taken
    OBVIOUS
  <2>1. CASE Serve
    <3>1. call = "sent" /\ phase \in {"run", "discard"} /\ Effect(Current)
      BY <2>1 DEF Serve, Refuse, IInv
    <3>2. Current.tool = "DISCARD"
      BY <3>1, EffectFacts
    <3> QED
      BY <3>1, <3>2, CurrentFacts DEF IInv, WillDiscard
  <2>2. ASSUME NEW item \in late, ServeLate(item) PROVE taken
    <3>1. Effect(item)
      BY <2>2 DEF ServeLate, desktop
    <3>2. item.tool = "DISCARD"
      BY <3>1, EffectFacts
    <3> QED
      BY <3>2 DEF IInv, WillDiscard
  <2> QED
    BY <2>1, <2>2
       DEF Next, Send, Succeed, Fail, GiveUp, HumanClaims, HumanReleases, Time,
           OtherStarts, desktop
<1> QED
  BY <1>1, InitIInv, StepIInv, PTL DEF Spec, OthersRecordingsAreKept
-----------------------------------------------------------------------------
(* Chunks.  What the script types is the prompt: every chunk begins where   *)
(* the one before it ended, and the last one ends with the prompt.          *)

\* Induction over the naturals, for statements that name no operator.
LEMMA LeastNatural ==
  ASSUME NEW T, T \subseteq Nat, T # {}
  PROVE  \E n \in T : \A m \in T : n <= m
<1> DEFINE R == OpToRel(<, Nat)
<1>1. IsWellFoundedOn(R, Nat)
  BY NatLessThanWellFounded
<1>2. \A m, n \in Nat : m < n => <<m, n>> \in R
  BY DEF OpToRel
<1> HIDE DEF R
<1>3. PICK n \in T : \A m \in T : <<m, n>> \notin R
  BY <1>1, WFMin
<1>4. \A m \in T : ~(m < n)
  BY <1>2, <1>3
<1>5. \A m \in T : n <= m
  BY <1>4
<1> QED
  BY <1>5

\* A function that grows by one sequence after the other is the concatenation.
LEMMA Flattened ==
  ASSUME NEW T, NEW seqs \in Seq(Seq(T)), seqs # <<>>,
         NEW g, g[1] = seqs[1],
         \A i \in 2..Len(seqs) : g[i] = g[i - 1] \o seqs[i]
  PROVE  FlattenSeq(seqs) = g[Len(seqs)]
<1> DEFINE n == Len(seqs)
           flat(f) == [i \in 1..n |-> IF i = 1 THEN seqs[i] ELSE f[i - 1] \o seqs[i]]
           flatten == CHOOSE f : f = flat(f)
           h == [i \in 1..n |-> g[i]]
<1>1. n \in Nat /\ n # 0
  BY LenProperties, EmptySeq
<1>2. FlattenSeq(seqs) = flatten[n]
  BY <1>1 DEF FlattenSeq
<1> HIDE DEF n
<1>3. h = flat(h)
  <2>1. ASSUME NEW i \in 1..n
        PROVE  h[i] = IF i = 1 THEN seqs[i] ELSE h[i - 1] \o seqs[i]
    <3>1. CASE i = 1
      BY <3>1
    <3>2. CASE i # 1
      <4>1. i \in 2..n /\ i - 1 \in 1..n
        BY <1>1, <3>2
      <4> QED
        BY <3>2, <4>1 DEF n
    <3> QED
      BY <3>1, <3>2
  <2> HIDE DEF h
  <2>2. h = [i \in 1..n |-> h[i]]
    BY DEF h
  <2> QED
    BY <2>1, <2>2
<1>4. flatten = flat(flatten)
  BY <1>3
<1> HIDE DEF flatten
<1>5. \A i \in 1..n : flatten[i] = g[i]
  <2> DEFINE wrong == {i \in 1..n : flatten[i] # g[i]}
  <2> SUFFICES ASSUME wrong # {} PROVE FALSE
    OBVIOUS
  <2>1. wrong \subseteq Nat
    OBVIOUS
  <2>2. PICK i \in wrong : \A j \in wrong : i <= j
    BY <2>1, LeastNatural
  <2>3. flatten[i] = IF i = 1 THEN seqs[i] ELSE flatten[i - 1] \o seqs[i]
    BY <1>4, <2>2
  <2>4. i # 1
    BY <2>2, <2>3
  <2>5. i - 1 \in 1..n /\ i - 1 \notin wrong /\ i \in 2..n
    <3>1. i \in 1..n
      OBVIOUS
    <3> HIDE DEF wrong
    <3>2. i - 1 \in 1..n /\ i \in 2..n /\ ~(i <= i - 1)
      BY <1>1, <2>4, <3>1
    <3> QED
      BY <2>2, <3>2
  <2>6. flatten[i - 1] = g[i - 1]
    BY <2>5
  <2> QED
    BY <2>2, <2>3, <2>4, <2>5, <2>6 DEF n
<1> QED
  BY <1>1, <1>2, <1>5 DEF n

\* How many chunks end at i or before.
EndsTo(text, i) == {j \in Cuts(text) : j <= i}

Ends(text, i) == Cardinality(EndsTo(text, i))

Texts == Seq({"w", "s", "p"})

LEMMA EndsFacts ==
  ASSUME NEW text \in Texts
  PROVE  /\ Len(text) \in Nat /\ Cuts(text) \subseteq 1..Len(text)
         /\ Len(text) # 0 => Len(text) \in Cuts(text)
         /\ Cardinality(Cuts(text)) \in Nat
         /\ \A i \in Nat : Ends(text, i) \in Nat
         /\ Ends(text, 0) = 0
         /\ Ends(text, Len(text)) = Cardinality(Cuts(text))
         /\ \A i, j \in Nat : i <= j => Ends(text, i) <= Ends(text, j)
         /\ \A i \in Nat, j \in Cuts(text) : i < j => Ends(text, i) < Ends(text, j)
         /\ \A i \in Nat \ {0} : Ends(text, i) = Ends(text, i - 1) + (IF i \in Cuts(text) THEN 1 ELSE 0)
<1>1. Len(text) \in Nat /\ Cuts(text) \subseteq 1..Len(text)
  BY CutsAreInside DEF Texts
<1>2. Len(text) # 0 => Len(text) \in Cuts(text)
  BY <1>1, FlowAssumption DEF Cuts, HumanCuts
<1> HIDE DEF EndsTo
<1>3. IsFiniteSet(Cuts(text))
  <2>1. IsFiniteSet(1..Len(text))
    BY <1>1, FS_Interval
  <2> QED
    BY <1>1, <2>1, FS_Subset
<1>4. \A i : EndsTo(text, i) \subseteq Cuts(text) /\ IsFiniteSet(EndsTo(text, i))
  BY <1>3, FS_Subset DEF EndsTo
<1>5. \A i \in Nat : Ends(text, i) \in Nat
  BY <1>4, FS_CardinalityType DEF Ends
<1>6. EndsTo(text, 0) = {} /\ EndsTo(text, Len(text)) = Cuts(text)
  BY <1>1 DEF EndsTo
<1>7. ASSUME NEW i \in Nat, NEW j \in Nat, i <= j PROVE Ends(text, i) <= Ends(text, j)
  <2>1. EndsTo(text, i) \subseteq EndsTo(text, j)
    BY <1>1, <1>7 DEF EndsTo
  <2> QED
    BY <1>4, <2>1, FS_Subset DEF Ends
<1>8. ASSUME NEW i \in Nat \ {0}
      PROVE  Ends(text, i) = Ends(text, i - 1) + (IF i \in Cuts(text) THEN 1 ELSE 0)
  <2>1. CASE i \in Cuts(text)
    <3>1. EndsTo(text, i) = EndsTo(text, i - 1) \cup {i} /\ i \notin EndsTo(text, i - 1)
      BY <1>1, <2>1 DEF EndsTo
    <3> QED
      BY <1>4, <2>1, <3>1, FS_AddElement DEF Ends
  <2>2. CASE i \notin Cuts(text)
    <3>1. EndsTo(text, i) = EndsTo(text, i - 1)
      BY <1>1, <2>2 DEF EndsTo
    <3>2. i - 1 \in Nat
      OBVIOUS
    <3> QED
      BY <1>5, <2>2, <3>1, <3>2 DEF Ends
  <2> QED
    BY <2>1, <2>2
<1>9. ASSUME NEW i \in Nat, NEW j \in Cuts(text), i < j PROVE Ends(text, i) < Ends(text, j)
  <2>1. j \in Nat \ {0} /\ j - 1 \in Nat /\ i <= j - 1
    BY <1>1, <1>9
  <2> QED
    BY <1>5, <1>7, <1>8, <2>1
<1>10. Cardinality(Cuts(text)) \in Nat
  BY <1>3, FS_CardinalityType
<1> QED
  BY <1>1, <1>2, <1>5, <1>6, <1>7, <1>8, <1>9, <1>10, FS_EmptySet DEF Ends

\* The k-th chunk ends where CutAt says, behind the one before it; the last one
\* ends with the text.
LEMMA CutFacts ==
  ASSUME NEW text \in Texts, NEW n, n = Cardinality(Cuts(text))
  PROVE  /\ n \in Nat
         /\ \A k \in 0..n : CutAt(text, k) \in 0..Len(text)
         /\ \A k \in 1..n : CutAt(text, k - 1) < CutAt(text, k)
         /\ CutAt(text, n) = Len(text)
<1>1. ASSUME NEW k \in 1..n
      PROVE  CutAt(text, k) \in Cuts(text) /\ Ends(text, CutAt(text, k)) = k
  <2> DEFINE enough == {i \in 0..Len(text) : Ends(text, i) >= k}
  <2>1. /\ k \in Nat \ {0} /\ Len(text) \in Nat /\ Ends(text, 0) = 0
        /\ Len(text) \in enough /\ \A i \in Nat : Ends(text, i) \in Nat
    BY EndsFacts
  <2>2. PICK i \in enough : \A j \in enough : i <= j
    <3>1. enough \subseteq Nat
      BY <2>1
    <3> QED
      BY <2>1, <3>1, LeastNatural
  <2>3. i \in 0..Len(text) /\ i \in Nat \ {0} /\ Ends(text, i) >= k
    BY <2>1, <2>2
  <2>4. i - 1 \in 0..Len(text) /\ i - 1 \in Nat /\ i - 1 \notin enough
    BY <2>1, <2>2, <2>3
  <2>5. Ends(text, i - 1) < k
    BY <2>1, <2>4
  <2>6. i \in Cuts(text) /\ Ends(text, i) = k
    <3>1. Ends(text, i) = Ends(text, i - 1) + (IF i \in Cuts(text) THEN 1 ELSE 0)
      BY <2>3, EndsFacts
    <3>2. Ends(text, i) \in Nat /\ Ends(text, i - 1) \in Nat
      BY <2>1, <2>3, <2>4
    <3>3. CASE i \in Cuts(text)
      BY <2>1, <2>3, <2>5, <3>1, <3>2, <3>3
    <3>4. CASE i \notin Cuts(text)
      BY <2>3, <2>5, <3>1, <3>2, <3>4
    <3> QED
      BY <3>3, <3>4
  <2>7. CutAt(text, k) = CHOOSE j \in Cuts(text) : Ends(text, j) = k
    <3>1. k # 0
      BY <2>1
    <3> QED
      BY <3>1, Zenon DEF CutAt, Ends, EndsTo
  <2> QED
    BY <2>6, <2>7
<1>2. CutAt(text, 0) = 0
  BY DEF CutAt
<1>3. n \in Nat /\ Len(text) \in Nat /\ Cuts(text) \subseteq 1..Len(text)
  BY EndsFacts
<1>4. \A k \in 0..n : CutAt(text, k) \in 0..Len(text) /\ Ends(text, CutAt(text, k)) = k
  BY <1>1, <1>2, <1>3, EndsFacts
<1>5. ASSUME NEW k \in 1..n PROVE CutAt(text, k - 1) < CutAt(text, k)
  <2>1. k - 1 \in 0..n /\ k \in 0..n
    BY <1>3
  <2>2. ~(CutAt(text, k) <= CutAt(text, k - 1))
    BY <1>3, <1>4, <2>1, EndsFacts
  <2> QED
    BY <1>3, <1>4, <2>1, <2>2
<1>6. CutAt(text, n) = Len(text)
  <2>1. n \in 0..n
    BY <1>3
  <2>2. ~(CutAt(text, n) < Len(text))
    BY <1>3, <1>4, <2>1, EndsFacts
  <2> QED
    BY <1>3, <1>4, <2>1, <2>2
<1> QED
  BY <1>3, <1>4, <1>5, <1>6

\* A plan that carries out the chunks of a text, between two calls without text,
\* types the text.
LEMMA ChunksMakeTheText ==
  ASSUME NEW text \in Texts, NEW n \in {Cardinality(Cuts(text))},
         NEW pieces, pieces = [i \in 1..(n + 2) |-> pieces[i]],
         pieces[1] = <<>>, pieces[n + 2] = <<>>,
         \A k \in 1..n : pieces[k + 1] = ChunksOf(text)[k]
  PROVE  FlattenSeq(pieces) = text
<1> DEFINE e == [i \in 1..(n + 2) |-> IF i = n + 2 THEN Len(text) ELSE CutAt(text, i - 1)]
           g == [i \in 1..(n + 2) |-> SubSeq(text, 1, e[i])]
<1>1. /\ n \in Nat /\ Len(text) \in Nat /\ text \in Texts
      /\ \A k \in 0..n : CutAt(text, k) \in 0..Len(text)
      /\ \A k \in 1..n : CutAt(text, k - 1) < CutAt(text, k)
      /\ CutAt(text, n) = Len(text)
  BY CutFacts, EndsFacts
<1>2. /\ e[1] = 0 /\ e[n + 2] = Len(text)
      /\ \A i \in 2..(n + 1) : e[i - 1] = CutAt(text, i - 2) /\ e[i] = CutAt(text, i - 1)
  <2>1. CutAt(text, 0) = 0
    BY DEF CutAt
  <2>2. /\ 1 \in 1..(n + 2) /\ n + 2 \in 1..(n + 2) /\ 1 # n + 2 /\ 1 - 1 = 0
        /\ \A i \in 2..(n + 1) : /\ i - 1 \in 1..(n + 2) /\ i \in 1..(n + 2)
                                 /\ i # n + 2 /\ i - 1 # n + 2 /\ (i - 1) - 1 = i - 2
    BY <1>1
  <2> QED
    BY <2>1, <2>2
<1>3. e[n + 1] = Len(text)
  <2>1. n + 1 \in 1..(n + 2) /\ n + 1 # n + 2 /\ (n + 1) - 1 = n
    BY <1>1
  <2> QED
    BY <1>1, <2>1
<1> HIDE DEF e
<1>4. ASSUME NEW i \in 2..(n + 2)
      PROVE  /\ e[i - 1] \in 0..Len(text) /\ e[i] \in 0..Len(text) /\ e[i - 1] <= e[i]
             /\ pieces[i] = SubSeq(text, e[i - 1] + 1, e[i])
  <2>1. CASE i = n + 2
    <3>1. i - 1 = n + 1 /\ Len(text) + 1 \in Int
      BY <1>1, <2>1
    <3>2. e[i - 1] = Len(text) /\ e[i] = Len(text) /\ pieces[i] = <<>>
      BY <1>2, <1>3, <2>1, <3>1
    <3>3. SubSeq(text, Len(text) + 1, Len(text)) = <<>>
      BY <1>1, SubSeqEmpty
    <3>4. pieces[i] = SubSeq(text, e[i - 1] + 1, e[i])
      BY <3>2, <3>3
    <3> QED
      BY <1>1, <3>2, <3>4
  <2>2. CASE i # n + 2
    <3>1. /\ i \in 2..(n + 1) /\ i - 1 \in 1..n /\ i - 2 \in 0..n /\ i - 1 \in 0..n
          /\ (i - 1) - 1 = i - 2 /\ (i - 1) + 1 = i
      BY <1>1, <2>2
    <3>2. pieces[i] = ChunksOf(text)[i - 1]
      BY <3>1
    <3>3. pieces[i] = SubSeq(text, CutAt(text, i - 2) + 1, CutAt(text, i - 1))
      BY <3>1, <3>2 DEF ChunksOf
    <3>4. CutAt(text, i - 2) < CutAt(text, i - 1)
      BY <1>1, <3>1
    <3>5. CutAt(text, i - 2) \in 0..Len(text) /\ CutAt(text, i - 1) \in 0..Len(text)
      BY <1>1, <3>1
    <3>6. e[i - 1] = CutAt(text, i - 2) /\ e[i] = CutAt(text, i - 1)
      BY <1>2, <3>1
    <3> QED
      BY <1>1, <3>3, <3>4, <3>5, <3>6
  <2> QED
    BY <2>1, <2>2
<1>5. pieces \in Seq(Texts) /\ Len(pieces) = n + 2 /\ pieces # <<>>
  <2>1. \A a, b \in 0..Len(text) : SubSeq(text, a + 1, b) \in Texts
    BY SubSeqProperties DEF Texts
  <2>2. \A i \in 2..(n + 2) : pieces[i] \in Texts
    BY <1>4, <2>1
  <2>3. pieces[1] \in Texts
    BY EmptySeq DEF Texts
  <2>4. \A i \in 1..(n + 2) : i = 1 \/ i \in 2..(n + 2)
    BY <1>1
  <2>5. pieces \in [1..(n + 2) -> Texts]
    BY <2>2, <2>3, <2>4
  <2>6. \A m \in Nat : \A s \in [1..m -> Texts] : s \in Seq(Texts) /\ Len(s) = m
    OBVIOUS
  <2>7. pieces \in Seq(Texts) /\ Len(pieces) = n + 2
    <3>1. n + 2 \in Nat
      BY <1>1
    <3> QED
      BY <2>5, <2>6, <3>1
  <2> QED
    BY <1>1, <2>7, EmptySeq
<1>6. g[1] = pieces[1]
  <2>1. 1 \in 1..(n + 2)
    BY <1>1
  <2>2. g[1] = SubSeq(text, 1, 0)
    BY <1>2, <2>1
  <2>3. SubSeq(text, 1, 0) = <<>>
    BY SubSeqEmpty
  <2> HIDE DEF g
  <2> QED
    BY <2>2, <2>3
<1>7. ASSUME NEW i \in 2..(n + 2) PROVE g[i] = g[i - 1] \o pieces[i]
  <2>1. i \in 1..(n + 2) /\ i - 1 \in 1..(n + 2)
    BY <1>1
  <2>2. g[i] = SubSeq(text, 1, e[i]) /\ g[i - 1] = SubSeq(text, 1, e[i - 1])
    BY <2>1
  <2> HIDE DEF g
  <2>3. ASSUME NEW k \in 0..Len(text), NEW l \in 0..Len(text), k <= l
        PROVE  SubSeq(text, 1, k) \o SubSeq(text, k + 1, l) = SubSeq(text, 1, l)
    <3>1. 1 \in 1..(Len(text) + 1) /\ k \in (1 - 1)..Len(text) /\ l \in k..Len(text)
      BY <1>1, <2>3
    <3> QED
      BY <3>1, ConcatAdjacentSubSeq DEF Texts
  <2>4. SubSeq(text, 1, e[i - 1]) \o SubSeq(text, e[i - 1] + 1, e[i]) = SubSeq(text, 1, e[i])
    BY <1>4, <2>3
  <2> QED
    BY <1>4, <2>2, <2>4
<1>8. g[n + 2] = text
  <2>1. n + 2 \in 1..(n + 2)
    BY <1>1
  <2>2. g[n + 2] = SubSeq(text, 1, Len(text))
    BY <1>2, <2>1
  <2> HIDE DEF g
  <2>3. SubSeq(text, 1, Len(text)) = text
    BY SubSeqFull DEF Texts
  <2> QED
    BY <2>2, <2>3
<1> HIDE DEF g
<1>9. FlattenSeq(pieces) = g[Len(pieces)]
  BY <1>5, <1>6, <1>7, Flattened DEF Texts
<1> QED
  BY <1>5, <1>8, <1>9
-----------------------------------------------------------------------------
(* What arrives.  A call that acts is carried out once at most, whether it *)
(* is answered, fails, or is carried out after it was given up.            *)

Items == [tool : {"left_click", "type", "key"}, text : Texts]

Passive == {"runtime_status", "screenshot", "START", "DISCARD"}

\* The calls before the visible ones.
Lead == IF record THEN 3 ELSE 2

\* What the first m calls of a script do, of which `lead` precede the visible ones.
Acted(visible, lead, m) == IF m <= lead THEN <<>> ELSE SubSeq(visible, 1, m - lead)

LEMMA ChunkFacts ==
  ASSUME NEW text \in Texts, NEW k \in 1..Cardinality(Cuts(text))
  PROVE  ChunksOf(text)[k] \in Texts
<1>1. /\ Cardinality(Cuts(text)) \in Nat
      /\ CutAt(text, k - 1) \in 0..Len(text) /\ CutAt(text, k) \in 0..Len(text)
  <2>1. Cardinality(Cuts(text)) \in Nat
    BY CutFacts
  <2>2. k - 1 \in 0..Cardinality(Cuts(text)) /\ k \in 0..Cardinality(Cuts(text))
    BY <2>1
  <2> QED
    BY <2>1, <2>2, CutFacts
<1>2. \A a, b \in 0..Len(text) : SubSeq(text, a + 1, b) \in Texts
  BY SubSeqProperties DEF Texts
<1> QED
  BY <1>1, <1>2 DEF ChunksOf

LEMMA VisibleFacts ==
  ASSUME prompt \in Prompts
  PROVE  /\ Visible \in Seq(Items) /\ Len(Visible) \in Nat \ {0}
         /\ \A i \in 1..Len(Visible) : Visible[i].tool \notin Passive
         /\ TextOf(Visible) = prompt
<1> DEFINE n == Cardinality(Cuts(prompt))
           typing == [k \in DOMAIN ChunksOf(prompt) |-> TypeItem(ChunksOf(prompt)[k])]
<1>1. prompt \in Texts
  BY FlowAssumption DEF Texts
<1>2. n \in Nat
  BY <1>1, EndsFacts
<1>3. /\ Item("left_click") \in Items /\ Item("key") \in Items
      /\ Item("left_click").text = <<>> /\ Item("key").text = <<>>
      /\ Item("left_click").tool \notin Passive /\ Item("key").tool \notin Passive
  <2>1. <<>> \in Texts
    BY EmptySeq DEF Texts
  <2> QED
    BY <2>1 DEF Items, Item, Passive
<1>4. \A k \in 1..n : /\ TypeItem(ChunksOf(prompt)[k]) \in Items
                      /\ TypeItem(ChunksOf(prompt)[k]).tool \notin Passive
                      /\ TypeItem(ChunksOf(prompt)[k]).text = ChunksOf(prompt)[k]
  BY <1>1, ChunkFacts DEF Items, TypeItem, Passive
<1>5. typing = [k \in 1..n |-> TypeItem(ChunksOf(prompt)[k])]
  BY DEF ChunksOf
<1> HIDE DEF typing, n
<1>6. typing \in Seq(Items) /\ Len(typing) = n
  <2>1. typing \in [1..n -> Items]
    BY <1>4, <1>5
  <2> QED
    BY <1>2, <2>1
<1>7. Visible = <<Item("left_click")>> \o typing \o <<Item("key")>>
  BY DEF Visible, typing
<1>8. /\ Visible \in Seq(Items) /\ Len(Visible) = n + 2
      /\ Visible[1] = Item("left_click") /\ Visible[n + 2] = Item("key")
      /\ \A k \in 1..n : Visible[k + 1] = TypeItem(ChunksOf(prompt)[k])
  <2> DEFINE first == <<Item("left_click")>>
             last == <<Item("key")>>
             front == first \o typing
  <2>1. /\ first \in Seq(Items) /\ Len(first) = 1 /\ first[1] = Item("left_click")
        /\ last \in Seq(Items) /\ Len(last) = 1 /\ last[1] = Item("key")
    BY <1>3
  <2>2. Visible = front \o last
    BY <1>7
  <2> HIDE DEF first, last
  <2>3. /\ front \in Seq(Items) /\ Len(front) = n + 1
        /\ \A i \in 1..(n + 1) : front[i] = IF i <= 1 THEN first[i] ELSE typing[i - 1]
    <3>1. 1 + n = n + 1
      BY <1>2
    <3>2. /\ first \o typing \in Seq(Items)
          /\ Len(first \o typing) = Len(first) + Len(typing)
          /\ \A i \in 1..(Len(first) + Len(typing)) :
               (first \o typing)[i] = IF i <= Len(first) THEN first[i] ELSE typing[i - Len(first)]
      BY <1>6, <2>1, ConcatProperties, Zenon
    <3> QED
      BY <1>6, <2>1, <3>1, <3>2
  <2> HIDE DEF front
  <2>4. /\ Visible \in Seq(Items) /\ Len(Visible) = n + 2
        /\ \A i \in 1..(n + 2) :
             Visible[i] = IF i <= n + 1 THEN front[i] ELSE last[i - (n + 1)]
    <3>1. (n + 1) + 1 = n + 2
      BY <1>2
    <3>2. /\ front \o last \in Seq(Items)
          /\ Len(front \o last) = Len(front) + Len(last)
          /\ \A i \in 1..(Len(front) + Len(last)) :
               (front \o last)[i] = IF i <= Len(front) THEN front[i] ELSE last[i - Len(front)]
      BY <2>1, <2>3, ConcatProperties, Zenon
    <3> QED
      BY <2>1, <2>2, <2>3, <3>1, <3>2
  <2>5. Visible[1] = Item("left_click")
    BY <1>2, <2>1, <2>3, <2>4
  <2>6. Visible[n + 2] = Item("key")
    BY <1>2, <2>1, <2>4
  <2>7. ASSUME NEW k \in 1..n PROVE Visible[k + 1] = TypeItem(ChunksOf(prompt)[k])
    <3>1. /\ k + 1 \in 1..(n + 2) /\ k + 1 \in 1..(n + 1) /\ k + 1 <= n + 1 /\ ~(k + 1 <= 1)
          /\ (k + 1) - 1 = k
      BY <1>2
    <3>2. Visible[k + 1] = typing[k]
      BY <2>3, <2>4, <3>1
    <3> QED
      BY <1>5, <3>2
  <2> QED
    BY <2>4, <2>5, <2>6, <2>7
<1>9. \A i \in 1..(n + 2) : i = 1 \/ i = n + 2 \/ (i - 1 \in 1..n /\ (i - 1) + 1 = i)
  BY <1>2
<1>10. \A i \in 1..(n + 2) : Visible[i].tool \notin Passive
  BY <1>3, <1>4, <1>8, <1>9
<1>11. TextOf(Visible) = prompt
  <2> DEFINE pieces == [i \in 1..(n + 2) |-> Visible[i].text]
  <2>1. DOMAIN Visible = 1..(n + 2)
    BY <1>2, <1>8
  <2>2. TextOf(Visible) = FlattenSeq(pieces)
    BY <2>1 DEF TextOf
  <2>3. 1 \in 1..(n + 2) /\ n + 2 \in 1..(n + 2) /\ \A k \in 1..n : k + 1 \in 1..(n + 2)
    BY <1>2
  <2>4. /\ pieces[1] = <<>> /\ pieces[n + 2] = <<>>
        /\ \A k \in 1..n : pieces[k + 1] = ChunksOf(prompt)[k]
    BY <1>3, <1>4, <1>8, <2>3
  <2>5. pieces = [i \in 1..(n + 2) |-> pieces[i]]
    OBVIOUS
  <2> HIDE DEF pieces
  <2>6. n = Cardinality(Cuts(prompt))
    BY DEF n
  <2>7. FlattenSeq(pieces) = prompt
    <3>1. ASSUME NEW m \in {Cardinality(Cuts(prompt))}, m = n
          PROVE  FlattenSeq(pieces) = prompt
      <4>1. /\ pieces = [i \in 1..(m + 2) |-> pieces[i]] /\ pieces[1] = <<>>
            /\ pieces[m + 2] = <<>>
            /\ \A k \in 1..m : pieces[k + 1] = ChunksOf(prompt)[k]
        BY <2>4, <2>5, <3>1
      <4> QED
        BY <1>1, <4>1, ChunksMakeTheText
    <3> QED
      BY <2>6, <3>1
  <2> QED
    BY <2>2, <2>7
<1> QED
  BY <1>2, <1>8, <1>10, <1>11

\* The script is the visible plan behind calls that act on nothing.
LEMMA ScriptParts ==
  ASSUME prompt \in Prompts, record \in BOOLEAN
  PROVE  /\ Lead \in {2, 3} /\ Len(Script) = Lead + Len(Visible)
         /\ \A i \in 1..Lead : Script[i].tool \in Passive
         /\ \A i \in (Lead + 1)..Len(Script) : Script[i] = Visible[i - Lead]
<1> DEFINE T == Items \cup {Item(tool) : tool \in Passive}
           head == <<Item("runtime_status"), Item("screenshot")>>
           start == IF record THEN <<Item("START")>> ELSE <<>>
           front == head \o start
<1>1. /\ head \in Seq(T) /\ Len(head) = 2
      /\ head[1].tool = "runtime_status" /\ head[2].tool = "screenshot"
  BY DEF Item, Passive
<1>2. /\ start \in Seq(T) /\ Len(start) = Lead - 2
      /\ \A i \in 1..(Lead - 2) : start[i].tool = "START"
  <2>1. Item("START") \in T /\ Item("START").tool = "START"
    BY DEF Item, Passive
  <2> HIDE DEF T
  <2>2. CASE record
    <3>1. start = <<Item("START")>> /\ Lead = 3
      BY <2>2 DEF Lead
    <3> HIDE DEF start
    <3>2. start \in Seq(T) /\ Len(start) = 1 /\ start[1] = Item("START")
      BY <2>1, <3>1
    <3> QED
      BY <2>1, <3>1, <3>2
  <2>3. CASE ~record
    <3>1. start = <<>> /\ Lead = 2
      BY <2>3 DEF Lead
    <3> HIDE DEF start
    <3> QED
      BY <3>1
  <2> QED
    BY <2>2, <2>3
<1>3. Lead \in {2, 3}
  BY DEF Lead
<1>4. Visible \in Seq(T) /\ Len(Visible) \in Nat
  <2>1. Visible \in Seq(Items) /\ Items \subseteq T
    BY VisibleFacts
  <2> QED
    BY <2>1
<1>5. Script = front \o Visible
  BY DEF Script
<1> HIDE DEF head, start, T
<1>6. /\ front \in Seq(T) /\ Len(front) = Lead
      /\ \A i \in 1..Lead : front[i] = IF i <= 2 THEN head[i] ELSE start[i - 2]
  <2>1. 2 + (Lead - 2) = Lead
    BY <1>3
  <2>2. front = head \o start
    BY DEF front
  <2> HIDE DEF front
  <2>3. head \in Seq(T) /\ start \in Seq(T) /\ Len(head) = 2 /\ Len(start) = Lead - 2
    BY <1>1, <1>2
  <2>4. head \o start \in Seq(T) /\ Len(head \o start) = Len(head) + Len(start)
    BY <2>3, Concatenated
  <2>5. \A i \in 1..(Len(head) + Len(start)) :
          (head \o start)[i] = IF i <= Len(head) THEN head[i] ELSE start[i - Len(head)]
    BY <2>3, ConcatenatedItems
  <2> QED
    BY <2>1, <2>2, <2>3, <2>4, <2>5
<1>7. \A i \in 1..Lead : front[i].tool \in Passive
  <2> TAKE i \in 1..Lead
  <2>1. CASE i <= 2
    <3>1. i = 1 \/ i = 2
      BY <1>3, <2>1
    <3> QED
      BY <1>1, <1>6, <2>1, <3>1 DEF Passive
  <2>2. CASE ~(i <= 2)
    <3>1. i - 2 \in 1..(Lead - 2) /\ front[i] = start[i - 2]
      BY <1>3, <1>6, <2>2
    <3> QED
      BY <1>2, <3>1 DEF Passive
  <2> QED
    BY <2>1, <2>2
<1> HIDE DEF front
<1>8. /\ Len(Script) = Lead + Len(Visible)
      /\ \A i \in 1..(Lead + Len(Visible)) :
           Script[i] = IF i <= Lead THEN front[i] ELSE Visible[i - Lead]
  <2>1. /\ Len(front \o Visible) = Len(front) + Len(Visible)
        /\ \A i \in 1..(Len(front) + Len(Visible)) :
             (front \o Visible)[i] = IF i <= Len(front) THEN front[i] ELSE Visible[i - Len(front)]
    BY <1>4, <1>6, ConcatProperties, Zenon
  <2> QED
    BY <1>5, <1>6, <2>1
<1>9. ASSUME NEW i \in 1..Lead PROVE Script[i].tool \in Passive
  <2>1. i \in 1..(Lead + Len(Visible)) /\ i <= Lead
    BY <1>3, <1>4
  <2> QED
    BY <1>7, <1>8, <2>1
<1>10. ASSUME NEW i \in (Lead + 1)..Len(Script) PROVE Script[i] = Visible[i - Lead]
  <2>1. i \in 1..(Lead + Len(Visible)) /\ ~(i <= Lead)
    BY <1>3, <1>4, <1>8
  <2> QED
    BY <1>8, <2>1
<1> QED
  BY <1>3, <1>8, <1>9, <1>10

\* What one more call of the script does.
LEMMA ActedFacts ==
  ASSUME prompt \in Prompts, record \in BOOLEAN, NEW m \in 0..Len(Script)
  PROVE  /\ Acted(Visible, Lead, m) \in Seq(Items) /\ IsPrefix(Acted(Visible, Lead, m), Visible)
         /\ Acted(Visible, Lead, 0) = <<>> /\ Acted(Visible, Lead, Len(Script)) = Visible
         /\ m < Len(Script) =>
              Acted(Visible, Lead, m + 1) =
                IF Script[m + 1].tool \in Passive
                  THEN Acted(Visible, Lead, m)
                  ELSE Append(Acted(Visible, Lead, m), Script[m + 1])
<1>1. /\ Visible \in Seq(Items) /\ Len(Visible) \in Nat \ {0}
      /\ \A i \in 1..Len(Visible) : Visible[i].tool \notin Passive
      /\ Lead \in {2, 3} /\ Len(Script) = Lead + Len(Visible)
      /\ \A i \in 1..Lead : Script[i].tool \in Passive
      /\ \A i \in (Lead + 1)..Len(Script) : Script[i] = Visible[i - Lead]
  BY VisibleFacts, ScriptParts
<1>2. \A k \in 0..Len(Visible) :
        /\ SubSeq(Visible, 1, k) \in Seq(Items) /\ Len(SubSeq(Visible, 1, k)) = k
        /\ SubSeq(Visible, 1, k) = SubSeq(SubSeq(Visible, 1, k), 1, k)
  <2> TAKE k \in 0..Len(Visible)
  <2>1. SubSeq(Visible, 1, k) \in Seq(Items) /\ Len(SubSeq(Visible, 1, k)) = k
    BY <1>1
  <2> QED
    BY <2>1, SubSeqFull
<1>3. \A k \in 0..Len(Visible) : IsPrefix(SubSeq(Visible, 1, k), Visible)
  BY <1>1, <1>2 DEF IsPrefix
<1>4. SubSeq(Visible, 1, 0) = <<>> /\ SubSeq(Visible, 1, Len(Visible)) = Visible
  BY <1>1, SubSeqEmpty, SubSeqFull
<1>5. Acted(Visible, Lead, m) \in Seq(Items) /\ IsPrefix(Acted(Visible, Lead, m), Visible)
  <2>1. CASE m <= Lead
    <3>1. Acted(Visible, Lead, m) = SubSeq(Visible, 1, 0) /\ 0 \in 0..Len(Visible)
      BY <1>1, <1>4, <2>1 DEF Acted
    <3> QED
      BY <1>2, <1>3, <3>1
  <2>2. CASE ~(m <= Lead)
    <3>1. Acted(Visible, Lead, m) = SubSeq(Visible, 1, m - Lead) /\ m - Lead \in 0..Len(Visible)
      BY <1>1, <2>2 DEF Acted
    <3> QED
      BY <1>2, <1>3, <3>1
  <2> QED
    BY <2>1, <2>2
<1>6. Acted(Visible, Lead, 0) = <<>> /\ Acted(Visible, Lead, Len(Script)) = Visible
  <2>1. 0 <= Lead /\ ~(Len(Script) <= Lead) /\ Len(Script) - Lead = Len(Visible)
    BY <1>1
  <2> QED
    BY <1>4, <2>1 DEF Acted
<1>7. ASSUME m < Len(Script)
      PROVE  Acted(Visible, Lead, m + 1) =
               IF Script[m + 1].tool \in Passive
                 THEN Acted(Visible, Lead, m)
                 ELSE Append(Acted(Visible, Lead, m), Script[m + 1])
  <2>1. CASE m < Lead
    <3>1. m <= Lead /\ m + 1 <= Lead /\ m + 1 \in 1..Lead
      BY <1>1, <2>1
    <3> QED
      BY <1>1, <3>1 DEF Acted
  <2>2. CASE ~(m < Lead)
    <3> DEFINE k == m - Lead
    <3>1. /\ k \in 0..Len(Visible) /\ k + 1 \in 1..Len(Visible) /\ (m + 1) - Lead = k + 1
          /\ m + 1 \in (Lead + 1)..Len(Script) /\ ~(m + 1 <= Lead) /\ (m <= Lead => k = 0)
      BY <1>1, <1>7, <2>2
    <3>2. Script[m + 1] = Visible[k + 1] /\ Script[m + 1].tool \notin Passive
      BY <1>1, <3>1
    <3>3. Acted(Visible, Lead, m) = SubSeq(Visible, 1, k)
      BY <1>4, <3>1 DEF Acted
    <3>4. Acted(Visible, Lead, m + 1) = SubSeq(Visible, 1, k + 1)
      BY <3>1 DEF Acted
    <3> HIDE DEF k
    <3>5. SubSeq(Visible, 1, k + 1) = Append(SubSeq(Visible, 1, k), Visible[k + 1])
      BY <1>1, <3>1
    <3> QED
      BY <3>2, <3>3, <3>4, <3>5
  <2> QED
    BY <2>1, <2>2
<1> QED
  BY <1>5, <1>6, <1>7

Before == Acted(Visible, Lead, pos)

After == Acted(Visible, Lead, pos + 1)

\* Where the script is says what has been done: what the calls answered so far do,
\* and perhaps what the one under way does; one that may still be carried out has
\* not been.
Arrival ==
  /\ record \in BOOLEAN
  /\ pos \in 0..Len(Script)
  /\ phase = "submitted" <=> pos = Len(Script)
  /\ phase = "submitted" => late = {} /\ done = Before
  /\ phase # "submitted" => done \in {Before, After}
  /\ phase = "run" /\ call \in {"idle", "sent"} => done = Before
  /\ phase = "run" /\ call = "ok" => done = After
  /\ \A item \in late : item = Item("DISCARD") \/ (item = Script[pos + 1] /\ done = Before)

LEMMA InitArrival == Init => Arrival
<1> SUFFICES ASSUME Init PROVE Arrival
  OBVIOUS
<1>1. prompt \in Prompts /\ record \in BOOLEAN /\ pos = 0 /\ done = <<>> /\ late = {} /\ phase = "run"
      /\ call = "idle"
  BY DEF Init
<1>2. Len(Script) \in Nat /\ Len(Script) > 0
  BY <1>1, ScriptFacts
<1>3. Before = <<>>
  BY <1>1, <1>2, ActedFacts DEF Before
<1> QED
  BY <1>1, <1>2, <1>3 DEF Arrival

\* What a call does to the composer and to the lease.
LEMMA EffectActs ==
  ASSUME NEW item, Effect(item)
  PROVE  /\ item.tool \in Passive => done' = done /\ lease' \in {lease, Expire(lease)}
         /\ item.tool \notin Passive => done' = Append(done, item) /\ lease' = Grant(Me)
BY DEF Effect, NobodyControls, StartRecording, DiscardRecording, Refuse, Act, desktop, Passive

LEMMA SameScript ==
  ASSUME UNCHANGED options
  PROVE  /\ UNCHANGED <<prompt, record, Script, Visible, Lead>>
         /\ UNCHANGED pos => UNCHANGED <<Before, After>>
<1>1. UNCHANGED <<prompt, record>>
  BY DEF options
<1>2. UNCHANGED <<Visible, Lead>>
  BY <1>1 DEF Visible, Lead
<1>3. UNCHANGED Script
  BY <1>1, <1>2 DEF Script
<1> QED
  BY <1>1, <1>2, <1>3 DEF Before, After

\* The next call, carried out when it has not been yet.
LEMMA NextActs ==
  ASSUME IInv, Arrival, phase # "submitted"
  PROVE  /\ pos + 1 \in 1..Len(Script) /\ pos < Len(Script)
         /\ Effect(Script[pos + 1]) /\ done = Before => done' = After
<1>1. pos + 1 \in 1..Len(Script) /\ pos < Len(Script) /\ pos \in 0..Len(Script)
  BY ScriptFacts DEF IInv, Arrival
<1>2. After = IF Script[pos + 1].tool \in Passive THEN Before ELSE Append(Before, Script[pos + 1])
  BY <1>1, ActedFacts DEF IInv, Arrival, Before, After
<1> QED
  BY <1>1, <1>2, EffectActs

\* What answers and refusals alone do.
LEMMA RaiseKeepsArrival ==
  ASSUME IInv, Arrival, phase \in {"run", "discard"}, call \in {"sent", "ok", "error"}, Raise,
         UNCHANGED <<desktop, options>>,
         \/ call = "sent" /\ late' = late \cup {Current}
         \/ call # "sent" /\ late' = late
  PROVE  Arrival'
<1>1. /\ UNCHANGED <<done, record, pos, Script, Before, After>>
      /\ phase' \in {"discard", "failed"} /\ phase # "submitted"
  BY SameScript, RaiseFacts DEF desktop
<1>2. ASSUME NEW item \in late'
      PROVE  item = Item("DISCARD") \/ (item = Script[pos + 1] /\ done = Before)
  <2>1. CASE item \in late
    BY <2>1 DEF Arrival
  <2>2. CASE item \notin late
    <3>1. call = "sent" /\ item = Current
      BY <2>2
    <3>2. CASE phase = "run"
      BY <3>1, <3>2 DEF Current, Arrival
    <3>3. CASE phase = "discard"
      BY <3>1, <3>3, CurrentFacts
    <3> QED
      BY <3>2, <3>3
  <2> QED
    BY <2>1, <2>2
<1> QED
  BY <1>1, <1>2 DEF Arrival

LEMMA ServeKeepsArrival ==
  ASSUME IInv, Arrival, Serve
  PROVE  Arrival'
<1>1. /\ UNCHANGED <<record, pos, Script, Before, After, phase, late>>
      /\ call = "sent" /\ call' \in {"ok", "error"} /\ phase \in {"run", "discard"}
      /\ Effect(Current) \/ (Refuse /\ call' = "error")
  BY SameScript DEF Serve, IInv
<1>2. CASE phase = "run"
  <2>1. late = {} /\ done = Before /\ Current = Script[pos + 1]
    BY <1>1, <1>2 DEF IInv, Arrival, Current
  <2>2. CASE Effect(Current)
    <3>1. done' = After
      BY <1>2, <2>1, <2>2, NextActs
    <3> QED
      BY <1>1, <1>2, <2>1, <3>1 DEF Arrival
  <2>3. CASE Refuse /\ call' = "error"
    BY <1>1, <1>2, <2>1, <2>3 DEF Arrival, Refuse
  <2> QED
    BY <1>1, <2>2, <2>3
<1>3. CASE phase = "discard"
  <2>1. done' = done
    <3>1. Current.tool \in Passive
      BY <1>3, CurrentFacts DEF Passive
    <3> QED
      BY <1>1, <3>1, EffectActs DEF Refuse
  <2> QED
    BY <1>1, <1>3, <2>1 DEF Arrival
<1> QED
  BY <1>1, <1>2, <1>3

\* A call that was given up acts once, if at all.
LEMMA ServeLateKeepsArrival ==
  ASSUME IInv, Arrival, NEW item \in late, ServeLate(item)
  PROVE  Arrival'
<1>1. /\ UNCHANGED <<record, pos, Script, Before, After, phase, call>>
      /\ late' = late \ {item} /\ phase \notin {"run", "submitted"}
      /\ Effect(item) \/ UNCHANGED done
  BY SameScript DEF ServeLate, client, desktop, IInv, Arrival
<1>2. CASE UNCHANGED done
  BY <1>1, <1>2 DEF Arrival
<1>3. CASE Effect(item) /\ item = Item("DISCARD")
  <2>1. item.tool \in Passive
    BY <1>3 DEF Item, Passive
  <2>2. UNCHANGED done
    BY <1>3, <2>1, EffectActs
  <2> QED
    BY <1>1, <2>2 DEF Arrival
<1>4. CASE Effect(item) /\ item # Item("DISCARD")
  <2>1. item = Script[pos + 1] /\ done = Before
    BY <1>4 DEF Arrival
  <2>2. done' = After
    BY <1>1, <1>4, <2>1, NextActs
  <2>3. \A other \in late' : other = Item("DISCARD")
    BY <1>1, <2>1 DEF Arrival
  <2> QED
    BY <1>1, <2>2, <2>3 DEF Arrival
<1> QED
  BY <1>1, <1>2, <1>3, <1>4

LEMMA SucceedKeepsArrival ==
  ASSUME IInv, Arrival, Succeed
  PROVE  Arrival'
<1>1. /\ UNCHANGED <<done, record, Script, late>> /\ UNCHANGED options
      /\ call = "ok" /\ call' = "idle" /\ phase \in {"run", "discard"}
  BY SameScript DEF Succeed, IInv, desktop
<1>2. CASE phase = "discard"
  <2>1. phase' = "failed" /\ UNCHANGED pos
    BY <1>2 DEF Succeed
  <2>2. UNCHANGED <<Before, After>>
    BY <1>1, <2>1, SameScript
  <2> QED
    BY <1>1, <1>2, <2>1, <2>2 DEF Arrival
<1>3. CASE phase = "run"
  <2>1. pos' = pos + 1 /\ phase' = IF pos' = Len(Script) THEN "submitted" ELSE "run"
    BY <1>3 DEF Succeed
  <2>2. pos' \in 0..Len(Script) /\ Len(Script) \in Nat
    BY <1>3, <2>1, NextActs, ScriptFacts DEF IInv
  <2>3. late = {} /\ done = After
    BY <1>1, <1>3 DEF IInv, Arrival
  <2>4. Before' = After
    BY <1>1, <2>1, SameScript DEF Before, After
  <2> QED
    BY <1>1, <2>1, <2>2, <2>3, <2>4 DEF Arrival
<1> QED
  BY <1>1, <1>2, <1>3

\* Nobody else's step touches the composer or the script.
LEMMA OthersKeepArrival ==
  ASSUME IInv, Arrival, UNCHANGED <<done, options, pos, phase, late>>,
         call' = call \/ (call = "idle" /\ call' = "sent")
  PROVE  Arrival'
<1>1. UNCHANGED <<record, Script, Before, After>>
  BY SameScript
<1> QED
  BY <1>1 DEF Arrival

LEMMA StepArrival == IInv /\ Arrival /\ [Next]_vars => Arrival'
<1> SUFFICES ASSUME IInv, Arrival, [Next]_vars PROVE Arrival'
  OBVIOUS
<1>1. CASE Send
  BY <1>1, OthersKeepArrival DEF Send, desktop
<1>2. CASE Succeed
  BY <1>2, SucceedKeepsArrival
<1>3. CASE Fail
  <2>1. call = "error" /\ phase \in {"run", "discard"}
    BY <1>3 DEF Fail, IInv
  <2> QED
    BY <1>3, <2>1, RaiseKeepsArrival DEF Fail
<1>4. CASE GiveUp
  <2>1. phase \in {"run", "discard"}
    BY <1>4 DEF GiveUp, IInv
  <2> QED
    BY <1>4, <2>1, RaiseKeepsArrival DEF GiveUp
<1>5. CASE Serve
  BY <1>5, ServeKeepsArrival
<1>6. ASSUME NEW item \in late, ServeLate(item) PROVE Arrival'
  BY <1>6, ServeLateKeepsArrival
<1>7. ASSUME NEW h \in Humans, HumanClaims(h) \/ HumanReleases(h) PROVE Arrival'
  BY <1>7, OthersKeepArrival DEF HumanClaims, HumanReleases, client
<1>8. CASE Time \/ OtherStarts \/ OtherEnds
  BY <1>8, OthersKeepArrival DEF Time, OtherStarts, OtherEnds, client
<1>9. CASE UNCHANGED vars
  BY <1>9, OthersKeepArrival DEF vars, desktop, client
<1> QED
  BY <1>1, <1>2, <1>3, <1>4, <1>5, <1>6, <1>7, <1>8, <1>9 DEF Next

\* Whichever call is refused, answered too late or carried out after it was given
\* up, the composer has got the beginning of the plan, and a script that reports
\* success has typed the whole prompt, as it was given.
THEOREM PromptIsTyped == Spec => []PromptArrivesOnce
<1>1. IInv /\ Arrival => PromptArrivesOnce
  <2> SUFFICES ASSUME IInv, Arrival PROVE PromptArrivesOnce
    OBVIOUS
  <2>1. prompt \in Prompts /\ record \in BOOLEAN /\ pos \in 0..Len(Script) /\ Len(Script) \in Nat
    BY ScriptFacts DEF IInv, Arrival
  <2>2. IsPrefix(Before, Visible)
    BY <2>1, ActedFacts DEF Before
  <2>3. CASE phase = "submitted"
    <3>1. done = Visible
      BY <2>1, <2>3, ActedFacts DEF Arrival, Before
    <3> QED
      BY <2>1, <2>2, <2>3, <3>1, VisibleFacts DEF PromptArrivesOnce, Arrival
  <2>4. CASE phase # "submitted"
    <3>1. pos + 1 \in 0..Len(Script)
      BY <2>1, <2>4 DEF Arrival
    <3>2. IsPrefix(After, Visible)
      BY <2>1, <3>1, ActedFacts DEF After
    <3> QED
      BY <2>2, <2>4, <3>2 DEF PromptArrivesOnce, Arrival
  <2> QED
    BY <2>3, <2>4
<1> QED
  BY <1>1, InitIInv, StepIInv, InitArrival, StepArrival, PTL DEF Spec
-----------------------------------------------------------------------------
(* Types.                                                                  *)

Plain ==
  /\ lease \in Leases
  /\ started \in BOOLEAN /\ taken \in BOOLEAN
  /\ unheard \subseteq {"START", "DISCARD"}

LEMMA LeaseFacts ==
  ASSUME NEW l \in Leases
  PROVE  /\ NoLease \in Leases /\ Expire(l) \in Leases /\ LeaseTick(l) \in Leases
         /\ \A id \in Ids : Grant(id) \in Leases
BY TTLAssumption DEF NoLease, Expire, LeaseTick, Grant, Leases, Ids, ActorOf, TTL

LEMMA EffectPlain ==
  ASSUME Plain, NEW item, Effect(item)
  PROVE  lease' \in Leases /\ taken' \in BOOLEAN
<1>1. lease' \in {lease, Expire(lease), Grant(Me)}
  BY EffectActs
<1>2. UNCHANGED taken
  BY DEF Effect, NobodyControls, StartRecording, DiscardRecording, Refuse, Act, desktop
<1> QED
  BY <1>1, <1>2, LeaseFacts, FlowAssumption DEF Plain, Ids

LEMMA StepPlain == IInv /\ Plain /\ [Next]_vars => Plain'
<1> SUFFICES ASSUME IInv, Plain, [Next]_vars PROVE Plain'
  OBVIOUS
<1>1. CASE Send
  BY <1>1 DEF Send, desktop, Plain
<1>2. CASE Succeed
  <2>1. UNCHANGED <<lease, taken, unheard>> /\ started' \in BOOLEAN
    <3>1. UNCHANGED started \/ started' = (started \/ Current.tool = "START")
      BY <1>2 DEF Succeed
    <3>2. UNCHANGED <<lease, taken, unheard>>
      BY <1>2 DEF Succeed, desktop
    <3>3. started' \in BOOLEAN
      BY <3>1, Zenon DEF Plain
    <3> QED
      BY <3>2, <3>3
  <2> QED
    BY <2>1 DEF Plain
<1>3. CASE Fail \/ GiveUp
  BY <1>3 DEF Fail, GiveUp, Raise, desktop, Plain
<1>4. CASE Serve
  <2>1. UNCHANGED <<started, unheard>> /\ (Effect(Current) \/ Refuse)
    BY <1>4 DEF Serve
  <2>2. lease' \in Leases /\ taken' \in BOOLEAN
    <3>1. CASE Effect(Current)
      BY <3>1, EffectPlain
    <3>2. CASE Refuse
      BY <3>2, LeaseFacts DEF Refuse, Plain
    <3> QED
      BY <2>1, <3>1, <3>2
  <2> QED
    BY <2>1, <2>2 DEF Plain
<1>5. ASSUME NEW item \in late, ServeLate(item) PROVE Plain'
  <2>1. UNCHANGED <<started, unheard>> /\ (Effect(item) \/ UNCHANGED <<lease, taken>>)
    BY <1>5 DEF ServeLate, client, desktop
  <2> QED
    BY <2>1, EffectPlain DEF Plain
<1>6. ASSUME NEW h \in Humans, HumanClaims(h) \/ HumanReleases(h) PROVE Plain'
  BY <1>6, LeaseFacts DEF HumanClaims, HumanReleases, client, Plain, Ids
<1>7. CASE Time \/ OtherStarts
  BY <1>7, LeaseFacts DEF Time, OtherStarts, client, Plain
<1>8. CASE OtherEnds
  <2>1. UNCHANGED <<lease, started, unheard>> /\ taken' = (taken \/ recording = "flow")
    BY <1>8 DEF OtherEnds, client
  <2>2. taken' \in BOOLEAN
    BY <2>1, Zenon DEF Plain
  <2> QED
    BY <2>1, <2>2 DEF Plain
<1>9. CASE UNCHANGED vars
  BY <1>9 DEF vars, desktop, client, Plain
<1> QED
  BY <1>1, <1>2, <1>3, <1>4, <1>5, <1>6, <1>7, <1>8, <1>9 DEF Next

\* Every variable keeps its type, and no more than two calls are ever outstanding.
THEOREM TypeCorrect == Spec => []TypeOK
<1>1. Init => Plain
  <2> SUFFICES ASSUME Init PROVE Plain
    OBVIOUS
  <2>1. lease = NoLease /\ started = FALSE /\ taken = FALSE /\ unheard = {}
    BY DEF Init
  <2> QED
    BY <2>1 DEF Plain, NoLease, Leases
<1>2. IInv /\ Arrival /\ Plain => TypeOK
  <2> SUFFICES ASSUME IInv, Arrival, Plain PROVE TypeOK
    OBVIOUS
  <2>1. prompt \in Prompts /\ record \in BOOLEAN /\ pos \in 0..Len(Script) /\ Len(Script) \in Nat
    BY ScriptFacts DEF IInv, Arrival
  <2>2. done \in Seq(Items)
    <3>1. Before \in Seq(Items)
      BY <2>1, ActedFacts DEF Before
    <3>2. phase # "submitted" => After \in Seq(Items)
      <4> SUFFICES ASSUME phase # "submitted" PROVE After \in Seq(Items)
        OBVIOUS
      <4>1. pos + 1 \in 0..Len(Script)
        BY <2>1 DEF Arrival
      <4> QED
        BY <2>1, <4>1, ActedFacts DEF After
    <3> QED
      BY <3>1, <3>2 DEF Arrival
  <2>3. Cardinality(late) <= 2
    <3> DEFINE two == {Item("DISCARD"), Script[pos + 1]}
    <3>1. late \subseteq two
      BY DEF Arrival
    <3>2. IsFiniteSet(two) /\ Cardinality(two) \in {1, 2}
      <4>1. \A a, b : IsFiniteSet({a, b}) /\ Cardinality({a, b}) \in {1, 2}
        <5> TAKE a, b
        <5>1. IsFiniteSet({a}) /\ Cardinality({a}) = 1
          BY FS_Singleton
        <5>2. {a, b} = {a} \cup {b}
          OBVIOUS
        <5>3. IsFiniteSet({a} \cup {b}) /\ Cardinality({a} \cup {b}) = IF b \in {a} THEN 1 ELSE 1 + 1
          BY <5>1, FS_AddElement
        <5> QED
          BY <5>2, <5>3
      <4> QED
        BY <4>1
    <3> HIDE DEF two
    <3>3. Cardinality(late) <= Cardinality(two) /\ Cardinality(late) \in Nat
      BY <3>1, <3>2, FS_Subset, FS_CardinalityType
    <3> QED
      BY <3>2, <3>3
  <2> QED
    BY <2>1, <2>2, <2>3 DEF IInv, Arrival, Plain, TypeOK, Items, Texts
<1> QED
  BY <1>1, <1>2, InitIInv, StepIInv, InitArrival, StepArrival, StepPlain, PTL DEF Spec
=============================================================================
