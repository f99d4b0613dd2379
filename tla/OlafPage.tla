------------------------------ MODULE OlafPage ------------------------------
(***************************************************************************)
(* Olaf in the browser: the page that starts and stops the microphone      *)
(* (wasm/basic.html, and wasm/resample.html, which has the same life cycle *)
(* and no display) and the audio worklet processors it creates             *)
(* (wasm/js/olaf_processor_edit.js, wasm/js/resample_processor.js).        *)
(*                                                                         *)
(* Every start by the button is an attempt s \in Starts with a stream, an  *)
(* audio context and a source node of its own, all called s.  The page's   *)
(* two variables audioContext and microphoneStream name the attempt that   *)
(* set them last; callbacks of an older attempt read them as they are when *)
(* the callback runs.  A node <<c, s>> is a processor that attempt s built *)
(* in context c.                                                           *)
(***************************************************************************)
EXTENDS Naturals, Sequences

CONSTANTS
  Starts,     \* the attempts to start
  Demos,      \* which page: "olaf" (basic.html), "resample" (resample.html)
  Haste,      \* what users are like: sets of stages in which they click again
  Faults,     \* "context", "source", "module", "wasm", "mute": see the actions
  MaxQueue,   \* bound: messages waiting at a port
  MaxLoops,   \* bound: animation callbacks waiting
  None        \* null

VARIABLES
  demo, hasty,        \* chosen once, from Demos and Haste
  stage,              \* where an attempt is
  tracks,             \* streams whose tracks are live
  open,               \* contexts that are not closed
  registered,         \* contexts that know the processor's name
  microphoneStream,   \* the page's variables
  audioContext,
  nodes,              \* worklet nodes, each with its processor
  wired,              \* those connected to a microphone, with an onmessage
  loaded,             \* the modules (src, olaf) a processor has
  stuck,              \* processors one of whose modules failed to load
  dead,               \* processors whose process() threw
  processor,          \* the global of a context's worklet scope
  port,               \* messages from a processor to the page
  checked,            \* the "match found" box
  delta,              \* reference_query_time_delta: None for 0, otherwise the
                      \* context against whose clock it was measured
  frames              \* calls of showEstimatedTime that wait for a frame

choice  == <<demo, hasty>>
page    == <<stage, tracks, open, registered, microphoneStream, audioContext>>
worklet == <<nodes, wired, loaded, stuck, dead, processor>>
display == <<checked, delta, frames>>
vars    == <<choice, page, worklet, port, display>>

Pairs    == Starts \X Starts
Stages   == {"idle", "asking", "adding", "added", "running", "failed", "nocontext"}
Messages == {"match", "aligned", "nothing", "ratio"}

\* What a processor waits for.
Modules(d) == IF d = "olaf" THEN {"src", "olaf"} ELSE {"src"}

ASSUME PageAssumption ==
  /\ Demos \subseteq {"olaf", "resample"}
  /\ Haste \subseteq SUBSET {"asking", "adding"}
  /\ Faults \subseteq {"context", "source", "module", "wasm", "mute"}
  /\ MaxQueue \in Nat /\ MaxLoops \in Nat
  /\ None \notin Starts

\* The process method of n does something: its context runs, and both modules
\* are there (before that it returns at once).
Ready(n) == n \in nodes \ dead /\ n[1] \in open /\ loaded[n] = Modules(demo)

\* A user who is not hasty waits until no attempt is in these stages.
Waited(stages) == stages \cap hasty # {} \/ \A s \in Starts : stage[s] \notin stages

Move(s, from, to) == stage[s] = from /\ stage' = [stage EXCEPT ![s] = to]

-----------------------------------------------------------------------------
(* The button: startOrStopAudio.                                           *)

\* No context: ask for the microphone.
ClickStart(s) ==
  /\ audioContext = None /\ Waited({"asking"})
  /\ Move(s, "idle", "asking")
  /\ UNCHANGED <<choice, tracks, open, registered, microphoneStream, audioContext,
                 worklet, port, display>>

ClickStopTracksOnly ==
  /\ audioContext # None /\ Waited({"adding", "added"})
  /\ tracks' = tracks \ {microphoneStream}
  /\ microphoneStream' = None /\ audioContext' = None
  /\ UNCHANGED <<choice, stage, open, registered, worklet, port, display>>

\* A context: stop the tracks, close it, forget both.
ClickStop ==
  /\ audioContext # None /\ Waited({"adding", "added"})
  /\ tracks' = tracks \ {microphoneStream} /\ open' = open \ {audioContext}
  /\ microphoneStream' = None /\ audioContext' = None
  /\ UNCHANGED <<choice, stage, registered, worklet, port, display>>

Deny(s) ==
  /\ Move(s, "asking", "failed")
  /\ UNCHANGED <<choice, tracks, open, registered, microphoneStream, audioContext,
                 worklet, port, display>>

\* The stream is there: the callback sets both variables and asks for the
\* processor's file.
Grant(s) ==
  /\ Move(s, "asking", "adding")
  /\ tracks' = tracks \cup {s} /\ open' = open \cup {s}
  /\ microphoneStream' = s /\ audioContext' = s
  /\ UNCHANGED <<choice, registered, worklet, port, display>>

\* new AudioContext() or createMediaStreamSource throws: the alert of catch.
GrantFails(s) ==
  /\ tracks' = tracks \cup {s} /\ microphoneStream' = s
  /\ \/ /\ "context" \in Faults /\ Move(s, "asking", "nocontext")
        /\ UNCHANGED <<open, audioContext>>
     \/ /\ "source" \in Faults /\ Move(s, "asking", "failed")
        /\ open' = open \cup {s} /\ audioContext' = s
  /\ UNCHANGED <<choice, registered, worklet, port, display>>

\* addModule: the browser has run the file, or could not get it (no catch).
AddModule(s) ==
  /\ \/ Move(s, "adding", "added") /\ registered' = registered \cup {s}
     \/ "module" \in Faults /\ Move(s, "adding", "failed") /\ UNCHANGED registered
  /\ UNCHANGED <<choice, tracks, open, microphoneStream, audioContext,
                 worklet, port, display>>

-----------------------------------------------------------------------------
(* addModule's callback.                                                   *)

\* The page's context is gone, or is one that has not loaded the module:
\* the constructor throws.
CannotConstruct(s) ==
  /\ audioContext \notin registered
  /\ Move(s, "added", "failed")
  /\ UNCHANGED <<choice, tracks, open, registered, microphoneStream, audioContext,
                 worklet, port, display>>

GlobalNotSet(c, s) ==
  /\ nodes' = nodes \cup {<<c, s>>}
  /\ UNCHANGED processor

\* The constructors.  An OlafProcessor makes itself the global of its scope ...
NewOlafProcessor(c, s) ==
  /\ nodes' = nodes \cup {<<c, s>>}
  /\ processor' = [processor EXCEPT ![c] = s]

\* ... a ResampleProcessor has no global.
NewResampleProcessor(c, s) ==
  /\ nodes' = nodes \cup {<<c, s>>}
  /\ UNCHANGED processor

NewProcessor(c, s) == \/ demo = "olaf" /\ NewOlafProcessor(c, s)
                      \/ demo = "resample" /\ NewResampleProcessor(c, s)

ListenBeforeConnect(s) ==
  /\ audioContext \in registered
  /\ Move(s, "added", IF audioContext = s THEN "running" ELSE "failed")
  /\ NewProcessor(audioContext, s)
  /\ wired' = wired \cup {<<audioContext, s>>}
  /\ UNCHANGED <<choice, tracks, open, registered, microphoneStream, audioContext,
                 loaded, stuck, dead, port, display>>

\* The node goes to the page's context, whichever that is by now.  connect
\* throws when the microphone belongs to another context, and onmessage is
\* not set then.
Construct(s) ==
  /\ audioContext \in registered
  /\ Move(s, "added", IF audioContext = s THEN "running" ELSE "failed")
  /\ NewProcessor(audioContext, s)
  /\ wired' = IF audioContext = s THEN wired \cup {<<s, s>>} ELSE wired
  /\ UNCHANGED <<choice, tracks, open, registered, microphoneStream, audioContext,
                 loaded, stuck, dead, port, display>>

-----------------------------------------------------------------------------
(* The processors.                                                         *)

\* One of the constructor's promises resolves ...
Load(n, m) ==
  /\ n \in nodes \ stuck /\ n[1] \in open
  /\ m \in Modules(demo) \ loaded[n]
  /\ loaded' = [loaded EXCEPT ![n] = @ \cup {m}]
  /\ UNCHANGED <<choice, page, nodes, wired, stuck, dead, processor, port, display>>

\* ... or rejects: process() will return at once for ever.
LoadFails(n) ==
  /\ "wasm" \in Faults
  /\ n \in nodes \ stuck /\ n[1] \in open /\ loaded[n] # Modules(demo)
  /\ stuck' = stuck \cup {n}
  /\ UNCHANGED <<choice, page, nodes, wired, loaded, dead, processor, port, display>>

\* olaf_fp_matcher_callback posts on the port of its scope's global, whichever
\* processor's engine called it; the resampler posts on its own.
Speaker(n) == IF demo = "olaf" THEN <<n[1], processor[n[1]]>> ELSE n

Post(n, messages) ==
  /\ Len(port[Speaker(n)]) < MaxQueue
  /\ \E m \in messages : port' = [port EXCEPT ![Speaker(n)] = Append(@, m)]

\* A quantum after which the engine reports (after the others nothing changes).
Process(n) ==
  /\ demo = "olaf" /\ Ready(n) /\ n \in wired
  /\ Post(n, {"match", "aligned", "nothing"})
  /\ UNCHANGED <<choice, page, worklet, display>>

\* The resampler reports its ratio after every quantum.
Resample(n) ==
  /\ demo = "resample" /\ Ready(n) /\ n \in wired
  /\ Post(n, {"ratio"})
  /\ UNCHANGED <<choice, page, worklet, display>>

\* No channel at the input: inputs[0][0] is undefined and process() throws.
\* "mute": the browser gives a connected node no channel either.
ProcessThrows(n) ==
  /\ Ready(n) /\ (n \in wired => "mute" \in Faults)
  /\ dead' = dead \cup {n}
  /\ UNCHANGED <<choice, page, nodes, wired, loaded, stuck, processor, port, display>>

-----------------------------------------------------------------------------
(* onmessage, updateMatch and showEstimatedTime.                           *)

Receive(n) ==
  /\ n \in wired /\ port[n] # <<>>
  /\ port' = [port EXCEPT ![n] = Tail(@)]
  /\ UNCHANGED <<choice, page, worklet>>

\* The resampling page only writes to the console; in the other one reading
\* the clock of a null context throws before updateMatch.
Ignore(n) ==
  /\ Receive(n)
  /\ demo = "resample" \/ audioContext = None
  /\ UNCHANGED display

NoMatchKeepsOffset(n) ==
  /\ Receive(n)
  /\ audioContext # None /\ Head(port[n]) = "nothing"
  /\ checked' = FALSE
  /\ UNCHANGED <<delta, frames>>

NoMatch(n) ==
  /\ Receive(n)
  /\ audioContext # None /\ Head(port[n]) = "nothing"
  /\ checked' = FALSE /\ delta' = None
  /\ UNCHANGED frames

TickWithLoop(n) ==
  /\ Receive(n)
  /\ Head(port[n]) \in {"match", "aligned"}
  /\ delta' = IF Head(port[n]) = "match" THEN n[1] ELSE None
  /\ IF delta' # None /\ frames = 0
     THEN checked' = TRUE /\ frames' = frames + 1
     ELSE UNCHANGED <<checked, frames>>

LoopPerMatch(n) ==
  /\ Receive(n)
  /\ Head(port[n]) \in {"match", "aligned"}
  /\ delta' = IF Head(port[n]) = "match" THEN n[1] ELSE None
  /\ checked' = TRUE
  /\ frames' = IF delta' # None THEN frames + 1 ELSE frames

MatchFound(n) ==
  /\ Receive(n)
  /\ Head(port[n]) \in {"match", "aligned"}
  /\ delta' = IF Head(port[n]) = "match" THEN n[1] ELSE None
  /\ checked' = TRUE
  /\ IF ~checked /\ delta' # None
     THEN frames < MaxLoops /\ frames' = frames + 1
     ELSE UNCHANGED frames

MatchWithoutClock(n) == MatchFound(n)

\* "aligned" is a match whose reference time equals its query time: the offset
\* is 0, and showEstimatedTime does not ask for a frame.
Match(n) ==
  /\ audioContext # None
  /\ MatchFound(n)

FrameOnlyWithoutOffset ==
  /\ frames > 0 /\ delta = None
  /\ frames' = frames - 1
  /\ UNCHANGED <<choice, page, worklet, port, checked, delta>>

\* A frame: showEstimatedTime asks for the next one unless the offset is 0, or
\* it throws because there is no context (otherwise nothing changes here).
Frame ==
  /\ frames > 0 /\ (delta = None \/ audioContext = None)
  /\ frames' = frames - 1
  /\ UNCHANGED <<choice, page, worklet, port, checked, delta>>

-----------------------------------------------------------------------------
Init ==
  /\ demo \in Demos /\ hasty \in Haste
  /\ stage = [s \in Starts |-> "idle"]
  /\ tracks = {} /\ open = {} /\ registered = {}
  /\ microphoneStream = None /\ audioContext = None
  /\ nodes = {} /\ wired = {} /\ stuck = {} /\ dead = {}
  /\ loaded = [n \in Pairs |-> {}]
  /\ processor = [c \in Starts |-> None]
  /\ port = [n \in Pairs |-> <<>>]
  /\ checked = FALSE /\ delta = None /\ frames = 0

Button(s) == ClickStart(s) \/ Deny(s) \/ Grant(s) \/ GrantFails(s)
Then(s)   == CannotConstruct(s) \/ Construct(s)
Worklet(n) == \/ \E m \in {"src", "olaf"} : Load(n, m)
              \/ LoadFails(n) \/ Process(n) \/ Resample(n) \/ ProcessThrows(n)
Deliver(n) == Ignore(n) \/ NoMatch(n) \/ Match(n)

Next ==
  \/ ClickStop
  \/ \E s \in Starts : Button(s) \/ AddModule(s) \/ Then(s)
  \/ \E n \in Pairs : Worklet(n) \/ Deliver(n)
  \/ Frame

Spec == Init /\ [][Next]_vars

\* The browser settles what it was asked, delivers messages and draws frames;
\* nobody has to click, answer the prompt or play music.
FairSpec ==
  /\ Spec
  /\ \A s \in Starts : WF_vars(AddModule(s)) /\ WF_vars(Then(s))
  /\ \A n \in Pairs : WF_vars(Deliver(n))
  /\ WF_vars(Frame)

-----------------------------------------------------------------------------
\* TypeOK: the variables have their types, and a node exists before it is
\* wired, stuck or dead.
TypeOK ==
  /\ demo \in Demos /\ hasty \in Haste
  /\ stage \in [Starts -> Stages]
  /\ tracks \subseteq Starts /\ open \subseteq Starts /\ registered \subseteq Starts
  /\ microphoneStream \in Starts \cup {None}
  /\ audioContext \in Starts \cup {None}
  /\ nodes \subseteq Pairs /\ wired \subseteq nodes
  /\ stuck \subseteq nodes /\ dead \subseteq nodes
  /\ loaded \in [Pairs -> SUBSET {"src", "olaf"}]
  /\ processor \in [Starts -> Starts \cup {None}]
  /\ port \in [Pairs -> Seq(Messages)]
  /\ checked \in BOOLEAN /\ delta \in Starts \cup {None} /\ frames \in 0 .. MaxLoops

\* A user that waits for the permission prompt can always switch off what was
\* switched on: a live stream and an open context are those of the page's
\* variables, which the next click stops, unless the context of that stream
\* could not be created.
EveryMicrophoneHasAButton ==
  "asking" \notin hasty =>
    /\ open \subseteq {audioContext}
    /\ \A s \in tracks : \/ s = audioContext /\ s = microphoneStream
                         \/ stage[s] = "nocontext"

\* A processor the page listens to was built by the callback of its own
\* context, however clicks and callbacks interleave.
OnlyOwnNodesAreHeard == \A n \in wired : n[1] = n[2] /\ stage[n[2]] = "running"

\* For a user that waits for each start to finish, what the engine of a context
\* finds goes to the port the page listens to: the scope's global is the
\* processor the page wired.
MatchesGoToTheirPage ==
  hasty = {} => \A n \in nodes : n \in wired /\ Speaker(n) = n

\* An unchecked box has no offset, so no loop that is still waiting for a frame
\* goes on showing a time after a match is lost.
NoTimeWithoutMatch == ~checked => delta = None

\* After a stop the display stays as it is until the next start, although
\* messages and frames of the stopped context still arrive.
DisplayChangesOnlyWhileOn ==
  [][<<checked, delta>>' # <<checked, delta>> => audioContext # None]_vars

\* A stop that is not followed by a start ends every animation loop.
LoopsEndAfterStop == <>[](audioContext = None) => <>[](frames = 0)

\* A match that waits at a port the page listens to ticks the box, unless the
\* context is stopped first.
MatchIsShown ==
  \A c \in Starts :
    (<<c, c>> \in wired /\ \E i \in DOMAIN port[<<c, c>>] : port[<<c, c>>][i] = "match")
      ~> (checked \/ audioContext # c)

\* wasm/basic.html:90-91, wasm/resample.html:29-30: "After the resolution of
\* module loading, an AudioWorkletNode can be constructed."
LoadedModuleMakesANode ==
  \A s \in Starts : stage[s] = "added" => audioContext \in registered

\* The following are not kept; the README says how.
\* While the box is ticked and there is an offset, a loop shows the time.
TimeRuns == checked /\ delta # None /\ audioContext # None => frames > 0

\* There is at most one loop.
OneLoop == frames <= 1

\* The time shown adds an offset to the clock it was measured against.
TimeIsOfThisContext ==
  frames > 0 /\ audioContext # None => delta \in {None, audioContext}
=============================================================================
