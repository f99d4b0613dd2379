--------------------------- MODULE OlafPage_proofs ---------------------------
(***************************************************************************)
(* Proofs about OlafPage, for any number of starts, both pages, every kind *)
(* of user and all faults.                                                 *)
(***************************************************************************)
EXTENDS OlafPage, TLAPS

\* A user that waits for the prompt has at most one open, and only while the
\* page has no context: the callback of Grant overwrites nothing.
OnePrompt ==
  "asking" \notin hasty =>
    \A s \in Starts : stage[s] = "asking" =>
      /\ audioContext = None
      /\ \A r \in Starts : stage[r] = "asking" => r = s

\* For a user that waits for each start to finish, a module that loads is that
\* of the page's context.
LoadsForThePage ==
  hasty = {} => \A s \in Starts : stage[s] \in {"adding", "added"} => audioContext = s

PageInv == /\ TypeOK /\ OnePrompt /\ LoadsForThePage
           /\ EveryMicrophoneHasAButton /\ OnlyOwnNodesAreHeard
           /\ MatchesGoToTheirPage /\ NoTimeWithoutMatch
-----------------------------------------------------------------------------
\* What moving an attempt does to its stage.
LEMMA MoveFacts ==
  ASSUME TypeOK, NEW s \in Starts, NEW from, NEW to \in Stages, Move(s, from, to)
  PROVE  /\ stage' \in [Starts -> Stages]
         /\ stage[s] = from /\ stage'[s] = to
         /\ \A r \in Starts : r # s => stage'[r] = stage[r]
BY DEF TypeOK, Move

\* The actions that leave the page's variables alone.
PageIdle == \/ \E n \in Pairs : Worklet(n) \/ Deliver(n)
            \/ Frame

LEMMA PageIdleFacts ==
  ASSUME PageIdle
  PROVE  UNCHANGED <<choice, page>>
BY DEF PageIdle, Worklet, Deliver, Load, LoadFails, Process, Resample, ProcessThrows,
       Ignore, NoMatch, Match, MatchFound, Receive, Frame

\* Next without them.
LEMMA NextCases ==
  ASSUME Next
  PROVE  \/ ClickStop
         \/ \E s \in Starts : ClickStart(s)
         \/ \E s \in Starts : Deny(s)
         \/ \E s \in Starts : Grant(s)
         \/ \E s \in Starts : GrantFails(s)
         \/ \E s \in Starts : AddModule(s)
         \/ \E s \in Starts : CannotConstruct(s)
         \/ \E s \in Starts : Construct(s)
         \/ PageIdle
BY DEF Next, Button, Then, PageIdle

-----------------------------------------------------------------------------
(* Types.                                                                  *)

\* Receiving takes a message from one port.
LEMMA ReceiveTypes ==
  ASSUME TypeOK, NEW n \in Pairs, Receive(n)
  PROVE  /\ port' \in [Pairs -> Seq(Messages)]
         /\ Head(port[n]) \in Messages
<1>1. port[n] \in Seq(Messages) /\ port[n] # <<>>
  BY DEF TypeOK, Receive
<1>2. Tail(port[n]) \in Seq(Messages) /\ Head(port[n]) \in Messages
  BY <1>1
<1> QED
  BY <1>2 DEF TypeOK, Receive

LEMMA DeliverTypes ==
  ASSUME TypeOK, NEW n \in Pairs, Deliver(n)
  PROVE  TypeOK'
<1>1. Receive(n)
  BY DEF Deliver, Ignore, NoMatch, Match, MatchFound
<1>2. port' \in [Pairs -> Seq(Messages)] /\ UNCHANGED <<choice, page, worklet>>
  BY <1>1, ReceiveTypes DEF Receive
<1>3. checked' \in BOOLEAN /\ delta' \in Starts \cup {None} /\ frames' \in 0 .. MaxLoops
  <2>1. CASE Ignore(n)
    BY <2>1 DEF TypeOK, Ignore, display
  <2>2. CASE NoMatch(n)
    BY <2>2 DEF TypeOK, NoMatch
  <2>3. CASE Match(n)
    <3>1. n[1] \in Starts
      BY DEF Pairs
    <3>2. checked' \in BOOLEAN /\ delta' \in Starts \cup {None}
      BY <2>3, <3>1 DEF Match, MatchFound
    <3>3. frames' = frames \/ (frames < MaxLoops /\ frames' = frames + 1)
      BY <2>3 DEF Match, MatchFound
    <3> QED
      BY <3>2, <3>3, PageAssumption DEF TypeOK
  <2> QED
    BY <2>1, <2>2, <2>3 DEF Deliver
<1> QED
  BY <1>2, <1>3 DEF TypeOK, choice, page, worklet

LEMMA WorkletTypes ==
  ASSUME TypeOK, NEW n \in Pairs, Worklet(n)
  PROVE  TypeOK'
<1>1. ASSUME NEW m \in {"src", "olaf"}, Load(n, m)
      PROVE  TypeOK'
  BY <1>1 DEF TypeOK, Load, choice, page, display
<1>2. CASE LoadFails(n)
  BY <1>2 DEF TypeOK, LoadFails, choice, page, display
<1>3. CASE Process(n) \/ Resample(n)
  <2>1. port' \in [Pairs -> Seq(Messages)]
    <3>1. PICK m \in Messages : port' = [port EXCEPT ![Speaker(n)] = Append(@, m)]
      BY <1>3 DEF Process, Resample, Post, Messages
    <3>2. \A x \in Pairs : port[x] \in Seq(Messages) /\ Append(port[x], m) \in Seq(Messages)
      BY DEF TypeOK
    <3> QED
      BY <3>1, <3>2 DEF TypeOK
  <2> QED
    BY <1>3, <2>1 DEF TypeOK, Process, Resample, choice, page, worklet, display
<1>4. CASE ProcessThrows(n)
  BY <1>4 DEF TypeOK, ProcessThrows, Ready, choice, page, display
<1> QED
  BY <1>1, <1>2, <1>3, <1>4 DEF Worklet

\* The page's own steps.
LEMMA PageTypes ==
  ASSUME TypeOK, NEW s \in Starts,
         ClickStop \/ Button(s) \/ AddModule(s) \/ Then(s)
  PROVE  TypeOK'
<1>1. CASE ClickStop
  BY <1>1 DEF TypeOK, ClickStop, choice, worklet, display
<1>2. CASE ClickStart(s)
  <2>1. stage' \in [Starts -> Stages]
    BY <1>2, MoveFacts DEF ClickStart, Stages
  <2> QED
    BY <1>2, <2>1 DEF TypeOK, ClickStart, choice, worklet, display
<1>3. CASE Deny(s)
  <2>1. stage' \in [Starts -> Stages]
    BY <1>3, MoveFacts DEF Deny, Stages
  <2> QED
    BY <1>3, <2>1 DEF TypeOK, Deny, choice, worklet, display
<1>4. CASE Grant(s)
  <2>1. stage' \in [Starts -> Stages]
    BY <1>4, MoveFacts DEF Grant, Stages
  <2> QED
    BY <1>4, <2>1 DEF TypeOK, Grant, choice, worklet, display
<1>5. CASE GrantFails(s)
  <2>1. stage' \in [Starts -> Stages]
    BY <1>5, MoveFacts DEF GrantFails, Stages
  <2> QED
    BY <1>5, <2>1 DEF TypeOK, GrantFails, choice, worklet, display
<1>6. CASE AddModule(s)
  <2>1. stage' \in [Starts -> Stages]
    BY <1>6, MoveFacts DEF AddModule, Stages
  <2> QED
    BY <1>6, <2>1 DEF TypeOK, AddModule, choice, worklet, display
<1>7. CASE CannotConstruct(s)
  <2>1. stage' \in [Starts -> Stages]
    BY <1>7, MoveFacts DEF CannotConstruct, Stages
  <2> QED
    BY <1>7, <2>1 DEF TypeOK, CannotConstruct, choice, worklet, display
<1>8. CASE Construct(s)
  <2>1. audioContext \in Starts /\ <<audioContext, s>> \in Pairs /\ <<s, s>> \in Pairs
    BY <1>8 DEF TypeOK, Construct, Pairs
  <2>2. stage' \in [Starts -> Stages]
    <3> DEFINE to == IF audioContext = s THEN "running" ELSE "failed"
    <3>1. to \in Stages /\ Move(s, "added", to)
      BY <1>8 DEF Construct, Stages
    <3> QED
      BY <3>1, MoveFacts
  <2>3. nodes' = nodes \cup {<<audioContext, s>>}
    BY <1>8 DEF Construct, NewProcessor, NewOlafProcessor, NewResampleProcessor
  <2>4. nodes' \subseteq Pairs /\ wired' \subseteq nodes'
    BY <1>8, <2>1, <2>3 DEF TypeOK, Construct
  <2>5. processor' \in [Starts -> Starts \cup {None}]
    BY <1>8, <2>1 DEF TypeOK, Construct, NewProcessor, NewOlafProcessor, NewResampleProcessor
  <2>6. /\ loaded' \in [Pairs -> SUBSET {"src", "olaf"}]
        /\ stuck' \subseteq nodes' /\ dead' \subseteq nodes'
    BY <1>8, <2>3 DEF TypeOK, Construct
  <2> QED
    BY <1>8, <2>2, <2>4, <2>5, <2>6 DEF TypeOK, Construct, choice, display
<1> QED
  BY <1>1, <1>2, <1>3, <1>4, <1>5, <1>6, <1>7, <1>8 DEF Button, Then

LEMMA FrameTypes ==
  ASSUME TypeOK, Frame
  PROVE  TypeOK'
<1>1. frames' \in 0 .. MaxLoops
  BY PageAssumption DEF TypeOK, Frame
<1> QED
  BY <1>1 DEF TypeOK, Frame, choice, page, worklet

LEMMA TypesKept ==
  ASSUME TypeOK, [Next]_vars
  PROVE  TypeOK'
<1>1. CASE UNCHANGED vars
  BY <1>1 DEF TypeOK, vars, choice, page, worklet, display
<1>2. CASE ClickStop
  <2>1. CASE Starts = {}
    BY <1>2, <2>1 DEF TypeOK, ClickStop
  <2>2. CASE Starts # {}
    BY <1>2, <2>2, PageTypes
  <2> QED
    BY <2>1, <2>2
<1>3. ASSUME NEW s \in Starts, Button(s) \/ AddModule(s) \/ Then(s)
      PROVE  TypeOK'
  BY <1>3, PageTypes
<1>4. ASSUME NEW n \in Pairs, Worklet(n) \/ Deliver(n)
      PROVE  TypeOK'
  BY <1>4, WorkletTypes, DeliverTypes
<1>5. CASE Frame
  BY <1>5, FrameTypes
<1> QED
  BY <1>1, <1>2, <1>3, <1>4, <1>5 DEF Next

-----------------------------------------------------------------------------
(* The page and its contexts.                                              *)

\* One attempt leaves the prompt, or a user that waits enters it.
LEMMA OnePromptKept ==
  ASSUME TypeOK, OnePrompt, [Next]_vars
  PROVE  OnePrompt'
<1>1. CASE UNCHANGED vars
  BY <1>1 DEF OnePrompt, vars, choice, page
<1>2. CASE PageIdle
  BY <1>2, PageIdleFacts DEF OnePrompt, choice, page
<1>3. CASE ClickStop
  BY <1>3 DEF OnePrompt, ClickStop, choice
<1>4. ASSUME NEW s \in Starts, ClickStart(s)
      PROVE  OnePrompt'
  <2>1. Move(s, "idle", "asking") /\ UNCHANGED <<hasty, audioContext>> /\ audioContext = None
    BY <1>4 DEF ClickStart, choice
  <2>2. stage'[s] = "asking" /\ \A r \in Starts : r # s => stage'[r] = stage[r]
    BY <2>1, MoveFacts DEF Stages
  <2>3. "asking" \notin hasty => \A r \in Starts : stage[r] # "asking"
    BY <1>4 DEF ClickStart, Waited
  <2> QED
    BY <2>1, <2>2, <2>3 DEF OnePrompt
<1>5. ASSUME NEW s \in Starts, NEW from, NEW to \in Stages \ {"asking"},
             Move(s, from, to), UNCHANGED hasty,
             from = "asking" \/ UNCHANGED audioContext
      PROVE  OnePrompt'
  <2>1. /\ stage[s] = from /\ stage'[s] # "asking"
        /\ \A r \in Starts : r # s => stage'[r] = stage[r]
    BY <1>5, MoveFacts
  <2> QED
    BY <1>5, <2>1 DEF OnePrompt
<1>6. ASSUME NEW s \in Starts, Deny(s) \/ Grant(s) \/ GrantFails(s)
      PROVE  OnePrompt'
  <2>1. \E to \in {"failed", "adding", "nocontext"} : Move(s, "asking", to)
    BY <1>6 DEF Deny, Grant, GrantFails
  <2>2. UNCHANGED hasty
    BY <1>6 DEF Deny, Grant, GrantFails, choice
  <2> QED
    BY <1>5, <2>1, <2>2 DEF Stages
<1>7. ASSUME NEW s \in Starts, AddModule(s) \/ CannotConstruct(s) \/ Construct(s)
      PROVE  OnePrompt'
  <2>1. \E from \in {"adding", "added"}, to \in {"failed", "added", "running"} : Move(s, from, to)
    BY <1>7 DEF AddModule, CannotConstruct, Construct
  <2>2. UNCHANGED <<hasty, audioContext>>
    BY <1>7 DEF AddModule, CannotConstruct, Construct, choice
  <2> QED
    BY <1>5, <2>1, <2>2 DEF Stages
<1> QED
  BY <1>1, <1>2, <1>3, <1>4, <1>6, <1>7, NextCases

\* Grant gives the page the context whose module it asks for; a user that waits
\* does not stop in between.
LEMMA LoadsForThePageKept ==
  ASSUME TypeOK, OnePrompt, LoadsForThePage, [Next]_vars
  PROVE  LoadsForThePage'
<1>1. CASE UNCHANGED vars
  BY <1>1 DEF LoadsForThePage, vars, choice, page
<1>2. CASE PageIdle
  BY <1>2, PageIdleFacts DEF LoadsForThePage, choice, page
<1>3. CASE ClickStop
  BY <1>3 DEF LoadsForThePage, ClickStop, Waited, choice
<1>4. ASSUME NEW s \in Starts, ClickStart(s) \/ Deny(s)
      PROVE  LoadsForThePage'
  <2>1. \E from \in {"idle", "asking"}, to \in {"asking", "failed"} : Move(s, from, to)
    BY <1>4 DEF ClickStart, Deny
  <2>2. UNCHANGED <<hasty, audioContext>>
    BY <1>4 DEF ClickStart, Deny, choice
  <2>3. stage'[s] \notin {"adding", "added"} /\ \A r \in Starts : r # s => stage'[r] = stage[r]
    BY <2>1, MoveFacts DEF Stages
  <2> QED
    BY <2>2, <2>3 DEF LoadsForThePage
<1>5. ASSUME NEW s \in Starts, Grant(s) \/ GrantFails(s)
      PROVE  LoadsForThePage'
  <2>1. PICK to \in {"adding", "failed", "nocontext"} : Move(s, "asking", to)
    BY <1>5 DEF Grant, GrantFails
  <2>2. stage[s] = "asking" /\ \A r \in Starts : r # s => stage'[r] = stage[r]
    BY <2>1, MoveFacts DEF Stages
  <2>3. stage'[s] = to
    BY <2>1, MoveFacts DEF Stages
  <2>4. to = "adding" => audioContext' = s
    BY <1>5, <2>1, <2>2, <2>3, MoveFacts DEF Grant, GrantFails, Stages
  <2>5. hasty = {} => \A r \in Starts : stage[r] \notin {"adding", "added"}
    BY <2>2, PageAssumption DEF OnePrompt, LoadsForThePage
  <2>6. UNCHANGED hasty
    BY <1>5 DEF Grant, GrantFails, choice
  <2> QED
    BY <2>2, <2>3, <2>4, <2>5, <2>6 DEF LoadsForThePage
<1>6. ASSUME NEW s \in Starts, AddModule(s) \/ CannotConstruct(s) \/ Construct(s)
      PROVE  LoadsForThePage'
  <2>1. PICK from \in {"adding", "added"}, to \in {"added", "failed", "running"} :
          Move(s, from, to)
    BY <1>6 DEF AddModule, CannotConstruct, Construct
  <2>2. stage[s] \in {"adding", "added"} /\ \A r \in Starts : r # s => stage'[r] = stage[r]
    BY <2>1, MoveFacts DEF Stages
  <2>3. UNCHANGED <<hasty, audioContext>>
    BY <1>6 DEF AddModule, CannotConstruct, Construct, choice
  <2> QED
    BY <2>2, <2>3 DEF LoadsForThePage
<1> QED
  BY <1>1, <1>2, <1>3, <1>4, <1>5, <1>6, NextCases

\* Whoever is granted a microphone finds no other one on.
LEMMA MicrophonesKept ==
  ASSUME TypeOK, OnePrompt, EveryMicrophoneHasAButton, [Next]_vars
  PROVE  EveryMicrophoneHasAButton'
<1>1. CASE UNCHANGED vars
  BY <1>1 DEF EveryMicrophoneHasAButton, vars, choice, page
<1>2. CASE PageIdle
  BY <1>2, PageIdleFacts DEF EveryMicrophoneHasAButton, choice, page
<1>3. CASE ClickStop
  BY <1>3 DEF EveryMicrophoneHasAButton, ClickStop, choice
<1>4. ASSUME NEW s \in Starts, NEW from \in Stages \ {"nocontext"}, NEW to \in Stages,
             Move(s, from, to),
             UNCHANGED <<hasty, tracks, open, microphoneStream, audioContext>>
      PROVE  EveryMicrophoneHasAButton'
  <2>1. /\ stage[s] = from /\ \A r \in Starts : r # s => stage'[r] = stage[r]
    BY <1>4, MoveFacts
  <2> QED
    BY <1>4, <2>1 DEF EveryMicrophoneHasAButton, TypeOK
<1>5. ASSUME NEW s \in Starts,
             ClickStart(s) \/ Deny(s) \/ AddModule(s) \/ CannotConstruct(s) \/ Construct(s)
      PROVE  EveryMicrophoneHasAButton'
  <2>1. \E from \in {"idle", "asking", "adding", "added"},
           to \in {"asking", "failed", "added", "running"} : Move(s, from, to)
    BY <1>5 DEF ClickStart, Deny, AddModule, CannotConstruct, Construct
  <2>2. UNCHANGED <<hasty, tracks, open, microphoneStream, audioContext>>
    BY <1>5 DEF ClickStart, Deny, AddModule, CannotConstruct, Construct, choice
  <2> QED
    BY <1>4, <2>1, <2>2 DEF Stages
<1>6. ASSUME NEW s \in Starts, Grant(s) \/ GrantFails(s)
      PROVE  EveryMicrophoneHasAButton'
  <2>1. PICK to \in {"adding", "failed", "nocontext"} : Move(s, "asking", to)
    BY <1>6 DEF Grant, GrantFails
  <2>2. /\ stage[s] = "asking" /\ stage'[s] = to
        /\ \A r \in Starts : r # s => stage'[r] = stage[r]
    BY <2>1, MoveFacts DEF Stages
  <2>3. UNCHANGED hasty /\ tracks' = tracks \cup {s} /\ microphoneStream' = s
    BY <1>6 DEF Grant, GrantFails, choice
  <2>4. "asking" \notin hasty =>
          audioContext = None /\ open = {} /\ \A r \in tracks : stage[r] = "nocontext"
    BY <2>2, PageAssumption DEF OnePrompt, EveryMicrophoneHasAButton, TypeOK
  <2>5. \/ to # "nocontext" /\ open' = open \cup {s} /\ audioContext' = s
        \/ to = "nocontext" /\ UNCHANGED <<open, audioContext>>
    BY <1>6, <2>1, <2>2, MoveFacts DEF Grant, GrantFails, Stages
  <2> QED
    BY <2>2, <2>3, <2>4, <2>5 DEF EveryMicrophoneHasAButton, TypeOK
<1> QED
  BY <1>1, <1>2, <1>3, <1>5, <1>6, NextCases

-----------------------------------------------------------------------------
(* Nodes.                                                                  *)

\* Only constructing a node changes what is wired or a scope's global.
LEMMA NodesAlone ==
  ASSUME [Next]_vars, \A s \in Starts : ~Construct(s)
  PROVE  UNCHANGED <<demo, hasty, nodes, wired, processor>>
<1>1. CASE UNCHANGED vars
  BY <1>1 DEF vars, choice, worklet
<1>2. CASE ClickStop
  BY <1>2 DEF ClickStop, choice, worklet
<1>3. ASSUME NEW s \in Starts, Button(s) \/ AddModule(s) \/ Then(s)
      PROVE  UNCHANGED <<demo, hasty, nodes, wired, processor>>
  BY <1>3 DEF Button, Then, ClickStart, Deny, Grant, GrantFails, AddModule,
              CannotConstruct, choice, worklet
<1>4. ASSUME NEW n \in Pairs, Worklet(n) \/ Deliver(n)
      PROVE  UNCHANGED <<demo, hasty, nodes, wired, processor>>
  BY <1>4 DEF Worklet, Deliver, Load, LoadFails, Process, Resample, ProcessThrows,
              Ignore, NoMatch, Match, MatchFound, Receive, choice, worklet
<1>5. CASE Frame
  BY <1>5 DEF Frame, choice, worklet
<1> QED
  BY <1>1, <1>2, <1>3, <1>4, <1>5 DEF Next

\* An attempt that runs stays so.
LEMMA RunningStays ==
  ASSUME TypeOK, [Next]_vars, NEW r \in Starts, stage[r] = "running"
  PROVE  stage'[r] = "running"
<1>1. CASE UNCHANGED vars
  BY <1>1 DEF vars, page
<1>2. CASE PageIdle
  BY <1>2, PageIdleFacts DEF page
<1>3. CASE ClickStop
  BY <1>3 DEF ClickStop
<1>4. ASSUME NEW s \in Starts, NEW from \in Stages \ {"running"}, NEW to \in Stages,
             Move(s, from, to)
      PROVE  stage'[r] = "running"
  BY <1>4, MoveFacts
<1>5. ASSUME NEW s \in Starts,
             \/ ClickStart(s) \/ Deny(s) \/ Grant(s) \/ GrantFails(s)
             \/ AddModule(s) \/ CannotConstruct(s) \/ Construct(s)
      PROVE  stage'[r] = "running"
  <2>1. \E from \in {"idle", "asking", "adding", "added"},
           to \in {"asking", "adding", "failed", "nocontext", "added", "running"} :
          Move(s, from, to)
    BY <1>5 DEF ClickStart, Deny, Grant, GrantFails, AddModule, CannotConstruct, Construct
  <2> QED
    BY <1>4, <2>1 DEF Stages
<1> QED
  BY <1>1, <1>2, <1>3, <1>5, NextCases

\* A node is wired when the page's context is the callback's own.
LEMMA OwnNodesKept ==
  ASSUME TypeOK, OnlyOwnNodesAreHeard, [Next]_vars
  PROVE  OnlyOwnNodesAreHeard'
<1>1. \A n \in wired : n[1] = n[2] /\ n[2] \in Starts /\ stage'[n[2]] = "running"
  <2>1. \A n \in wired : n \in Pairs /\ n[2] \in Starts
    BY DEF TypeOK, Pairs
  <2> QED
    BY <2>1, RunningStays DEF OnlyOwnNodesAreHeard
<1>2. CASE \A s \in Starts : ~Construct(s)
  BY <1>1, <1>2, NodesAlone DEF OnlyOwnNodesAreHeard
<1>3. ASSUME NEW s \in Starts, Construct(s)
      PROVE  OnlyOwnNodesAreHeard'
  <2>1. CASE audioContext = s
    <3>1. Move(s, "added", "running") /\ wired' = wired \cup {<<s, s>>}
      BY <1>3, <2>1 DEF Construct
    <3>2. stage'[s] = "running"
      BY <3>1, MoveFacts DEF Stages
    <3> QED
      BY <1>1, <3>1, <3>2 DEF OnlyOwnNodesAreHeard
  <2>2. CASE audioContext # s
    BY <1>1, <1>3, <2>2 DEF OnlyOwnNodesAreHeard, Construct
  <2> QED
    BY <2>1, <2>2
<1> QED
  BY <1>2, <1>3

\* For a user that waits, a node is built in its own context.
LEMMA SpeakersKept ==
  ASSUME TypeOK, OnlyOwnNodesAreHeard, LoadsForThePage, MatchesGoToTheirPage, [Next]_vars
  PROVE  MatchesGoToTheirPage'
<1>1. CASE \A s \in Starts : ~Construct(s)
  BY <1>1, NodesAlone DEF MatchesGoToTheirPage, Speaker
<1>2. ASSUME NEW s \in Starts, Construct(s)
      PROVE  MatchesGoToTheirPage'
  <2>1. UNCHANGED <<demo, hasty>>
    BY <1>2 DEF Construct, choice
  <2>2. stage[s] = "added"
    BY <1>2 DEF Construct, Move
  <2>3. SUFFICES ASSUME hasty = {}
                 PROVE  \A n \in nodes' : n \in wired' /\ Speaker(n)' = n
    BY <2>1 DEF MatchesGoToTheirPage
  <2>4. audioContext = s
    BY <2>2, <2>3 DEF LoadsForThePage
  <2>5. nodes' = nodes \cup {<<s, s>>} /\ wired' = wired \cup {<<s, s>>}
    BY <1>2, <2>4 DEF Construct, NewProcessor, NewOlafProcessor, NewResampleProcessor
  <2>6. demo = "olaf" =>
          processor'[s] = s /\ \A c \in Starts : c # s => processor'[c] = processor[c]
    BY <1>2, <2>4 DEF TypeOK, Construct, NewProcessor, NewOlafProcessor
  <2>7. ASSUME NEW n \in nodes
        PROVE  n \in wired' /\ Speaker(n)' = n
    <3>1. n \in wired /\ Speaker(n) = n
      BY <2>3, <2>7 DEF MatchesGoToTheirPage
    <3>2. n = <<n[1], n[2]>> /\ n[1] \in Starts /\ n[1] = n[2]
      BY <3>1 DEF OnlyOwnNodesAreHeard, TypeOK, Pairs
    <3>3. Speaker(n)' = n
      BY <2>1, <2>6, <3>1, <3>2 DEF Speaker
    <3> QED
      BY <2>5, <3>1, <3>3
  <2>8. Speaker(<<s, s>>)' = <<s, s>>
    BY <2>1, <2>6 DEF Speaker
  <2> QED
    BY <2>5, <2>7, <2>8
<1> QED
  BY <1>1, <1>2

-----------------------------------------------------------------------------
(* The display.                                                            *)

\* Only delivered messages change what is displayed.
LEMMA DisplaySteps ==
  ASSUME [Next]_vars
  PROVE  \/ UNCHANGED <<checked, delta>>
         \/ audioContext # None /\ ~checked' /\ delta' = None
         \/ audioContext # None /\ checked'
<1>1. CASE UNCHANGED vars
  BY <1>1 DEF vars, display
<1>2. CASE ClickStop
  BY <1>2 DEF ClickStop, display
<1>3. ASSUME NEW s \in Starts, Button(s) \/ AddModule(s) \/ Then(s)
      PROVE  UNCHANGED <<checked, delta>>
  BY <1>3 DEF Button, Then, ClickStart, Deny, Grant, GrantFails, AddModule,
              CannotConstruct, Construct, display
<1>4. ASSUME NEW n \in Pairs, Worklet(n)
      PROVE  UNCHANGED <<checked, delta>>
  BY <1>4 DEF Worklet, Load, LoadFails, Process, Resample, ProcessThrows, display
<1>5. ASSUME NEW n \in Pairs, Deliver(n)
      PROVE  \/ UNCHANGED <<checked, delta>>
             \/ audioContext # None /\ ~checked' /\ delta' = None
             \/ audioContext # None /\ checked'
  BY <1>5 DEF Deliver, Ignore, NoMatch, Match, MatchFound, display
<1>6. CASE Frame
  BY <1>6 DEF Frame
<1> QED
  BY <1>1, <1>2, <1>3, <1>4, <1>5, <1>6 DEF Next

-----------------------------------------------------------------------------
\* The invariant holds initially and in every step.
LEMMA PageInductive ==
  /\ Init => PageInv
  /\ PageInv /\ [Next]_vars => PageInv'
<1>1. Init => PageInv
  <2>1. Init => TypeOK
    <3>1. Init => /\ port \in [Pairs -> Seq(Messages)] /\ frames \in 0 .. MaxLoops
                  /\ stage \in [Starts -> Stages]
      BY PageAssumption DEF Init, Stages
    <3>2. Init => /\ loaded \in [Pairs -> SUBSET {"src", "olaf"}]
                  /\ processor \in [Starts -> Starts \cup {None}]
      BY DEF Init
    <3> QED
      BY <3>1, <3>2 DEF Init, TypeOK
  <2>2. Init => \A s \in Starts : stage[s] = "idle"
    BY DEF Init
  <2>3. Init => OnePrompt /\ LoadsForThePage
    BY <2>2 DEF OnePrompt, LoadsForThePage
  <2>4. Init => /\ EveryMicrophoneHasAButton /\ OnlyOwnNodesAreHeard
                /\ MatchesGoToTheirPage /\ NoTimeWithoutMatch
    BY DEF Init, EveryMicrophoneHasAButton, OnlyOwnNodesAreHeard, MatchesGoToTheirPage,
           NoTimeWithoutMatch
  <2> QED
    BY <2>1, <2>3, <2>4 DEF PageInv
<1>2. ASSUME PageInv, [Next]_vars PROVE PageInv'
  <2>1. NoTimeWithoutMatch'
    BY <1>2, DisplaySteps DEF PageInv, NoTimeWithoutMatch
  <2> QED
    BY <1>2, <2>1, TypesKept, OnePromptKept, LoadsForThePageKept, MicrophonesKept,
       OwnNodesKept, SpeakersKept DEF PageInv
<1> QED
  BY <1>1, <1>2

\* The variables have their types, and a node exists before it is wired.
THEOREM PageTypesHold == Spec => []TypeOK
<1>1. PageInv => TypeOK
  BY DEF PageInv
<1> QED
  BY <1>1, PageInductive, PTL DEF Spec

\* A user that waits for the prompt can switch off what was switched on.
THEOREM MicrophonesHaveButtons == Spec => []EveryMicrophoneHasAButton
<1>1. PageInv => EveryMicrophoneHasAButton
  BY DEF PageInv
<1> QED
  BY <1>1, PageInductive, PTL DEF Spec

\* The page listens only to the processor of its callback's own context.
THEOREM OwnNodesAreHeard == Spec => []OnlyOwnNodesAreHeard
<1>1. PageInv => OnlyOwnNodesAreHeard
  BY DEF PageInv
<1> QED
  BY <1>1, PageInductive, PTL DEF Spec

\* What a user that waits should see is posted where the page listens.
THEOREM MatchesArrive == Spec => []MatchesGoToTheirPage
<1>1. PageInv => MatchesGoToTheirPage
  BY DEF PageInv
<1> QED
  BY <1>1, PageInductive, PTL DEF Spec

\* No offset outlives its match.
THEOREM TimeNeedsAMatch == Spec => []NoTimeWithoutMatch
<1>1. PageInv => NoTimeWithoutMatch
  BY DEF PageInv
<1> QED
  BY <1>1, PageInductive, PTL DEF Spec

\* Messages of a stopped context do not change the display.
THEOREM StoppedDisplayStays == Spec => DisplayChangesOnlyWhileOn
<1>1. [Next]_vars => [<<checked, delta>>' # <<checked, delta>> => audioContext # None]_vars
  BY DisplaySteps
<1> QED
  BY <1>1, PTL DEF Spec, DisplayChangesOnlyWhileOn
=============================================================================
