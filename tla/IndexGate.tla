----------------------------- MODULE IndexGate -----------------------------
(***************************************************************************)
(* Access to the two indexes of one table server (audioscout,              *)
(* servers/table_server.c): the worker threads look hashes up in the       *)
(* memory-mapped main index and insert new ones into the temporary index,  *)
(* and the handler of SIGUSR1/SIGUSR2/SIGTERM closes both and opens them   *)
(* again.  Each index has a counter, a mutex and a condition variable,     *)
(* used only through waitfor_*_index() and post_*_index().                 *)
(*                                                                         *)
(* A signal handler runs on the stack of the thread that took the signal:  *)
(* that thread does nothing else until the handler returns.                *)
(***************************************************************************)
EXTENDS Integers, FiniteSets

CONSTANTS
  Workers,      \* the nbthreads threads started by subscriber()
  Main,         \* the thread that runs main() and subscriber()
  SIG,          \* names the handler's frame, wherever it runs
  Handlers,     \* threads the kernel may deliver a signal to
  Commands,     \* what arrives from the main server: "lookup", "insert"
  MaxSignals,   \* bound: signals sent to the process
  MaxDrift      \* bound: a lost update is tried while the error is within it

ASSUME GateAssumption ==
  /\ IsFiniteSet(Workers) /\ Workers # {}
  /\ Main \notin Workers /\ SIG \notin Workers \cup {Main}
  /\ Handlers \subseteq Workers \cup {Main}
  /\ Commands \subseteq {"lookup", "insert"}
  /\ MaxSignals \in Nat /\ MaxDrift \in Nat

Index  == {"main", "tmp"}            \* audioindex, audioindex_tmp
Actors == Workers \cup {SIG}         \* whoever runs the gate's functions
NoHost == SIG                        \* host of a handler that is not running
Null   == 0                          \* a NULL AudioIndex

VARIABLES
  pc,       \* where each actor is
  at,       \* the index whose gate it is using
  nb,       \* nb_index_access, nb_tmp_index_access
  held,     \* the two mutexes: locked or not
  handle,   \* audioindex, audioindex_tmp: Null or the number of the opening
  mapped,   \* the opening whose memory exists now, or Null
  ptr,      \* the AudioIndex a worker passed to the table library
  host,     \* the thread that runs the handler
  sig,      \* the signal being handled
  failed,   \* kill_index found an index that was already NULL
  sent,     \* how many signals were delivered
  quiet,    \* the main server publishes nothing more
  exited    \* the handler called exit(0)

vars == <<pc, at, nb, held, handle, mapped, ptr, host, sig, failed, sent, quiet, exited>>

\* Places of an actor between the increment of the counter and its decrement.
InsidePcs == {"in", "park", "unpark", "use", "closed", "post", "drop"}
\* Places where the actor holds the gate's mutex through a plain lock.
CriticalPcs == {"test", "drop"}
WorkerPcs == {"idle", "gate", "test", "asleep", "in", "park", "unpark", "use",
              "post", "drop"}
HandlerPcs == {"none", "kill_server", "gate", "test", "asleep", "in", "closed",
               "post", "drop", "open", "opening", "init_server"}

Inside(g) == {a \in Actors : at[a] = g /\ pc[a] \in InsidePcs}

\* A thread interrupted by the handler does not run; nobody does after exit.
Running(a) == ~exited /\ (a = SIG \/ host # a)

Goto(a, from, to) == pc[a] = from /\ pc' = [pc EXCEPT ![a] = to]

-----------------------------------------------------------------------------
(* The gate: waitfor_main_index/waitfor_tmp_index and post_*_index.        *)

\* Largest count an actor is let in with: 0 for kill_index, nbthreads + 1 for
\* a worker.
BoundTight(a) == IF a = SIG THEN 0 ELSE Cardinality(Workers) - 1
BoundLoose(a) == Cardinality(Workers) + 1
Bound(a) == IF a = SIG THEN 0 ELSE Cardinality(Workers) + 1

\* nb++ and nb-- are one unlocked instruction sequence: if another actor is in
\* the same critical section, one of the two updates may be lost.
Counts(a, n) ==
  {n} \cup {m \in {nb[at[a]]} :
              /\ \E b \in Actors \ {a} : at[b] = at[a] /\ pc[b] \in CriticalPcs
              /\ Cardinality(Inside(at[a])) - m \in -MaxDrift .. MaxDrift}

\* pthread_cond_signal: one waiter, if there is one, goes for the mutex.
Waiters(g) == {a \in Actors : at[a] = g /\ pc[a] \in {"asleep", "park"}}
Resume(a)  == IF pc[a] = "asleep" THEN "gate" ELSE "unpark"
SignalledNobody(g, p) == {p}
Signalled(g, p) ==
  IF Waiters(g) = {} THEN {p} ELSE {[p EXCEPT ![v] = Resume(v)] : v \in Waiters(g)}

\* pthread_mutex_lock at the top of waitfor_*_index.
Lock(a) ==
  /\ Running(a) /\ ~held[at[a]]
  /\ Goto(a, "gate", "test")
  /\ held' = [held EXCEPT ![at[a]] = TRUE]
  /\ UNCHANGED <<at, nb, handle, mapped, ptr, host, sig, failed, sent, quiet, exited>>

EnterKeepsMutex(a) ==
  /\ Running(a) /\ nb[at[a]] <= Bound(a)
  /\ Goto(a, "test", "in")
  /\ nb' = [nb EXCEPT ![at[a]] = @ + 1]
  /\ UNCHANGED <<at, held, handle, mapped, ptr, host, sig, failed, sent, quiet, exited>>

\* The loop's test: count up and unlock, or unlock and sleep.
Enter(a) ==
  /\ Running(a) /\ nb[at[a]] <= Bound(a)
  /\ Goto(a, "test", "in")
  /\ \E n \in Counts(a, nb[at[a]] + 1) : nb' = [nb EXCEPT ![at[a]] = n]
  /\ held' = [held EXCEPT ![at[a]] = FALSE]
  /\ UNCHANGED <<at, handle, mapped, ptr, host, sig, failed, sent, quiet, exited>>

Sleep(a) ==
  /\ Running(a) /\ nb[at[a]] > Bound(a)
  /\ Goto(a, "test", "asleep")
  /\ held' = [held EXCEPT ![at[a]] = FALSE]
  /\ UNCHANGED <<at, nb, handle, mapped, ptr, host, sig, failed, sent, quiet, exited>>

\* pthread_mutex_lock at the top of post_*_index.
PostLock(a) ==
  /\ Running(a) /\ ~held[at[a]]
  /\ Goto(a, "post", "drop")
  /\ held' = [held EXCEPT ![at[a]] = TRUE]
  /\ UNCHANGED <<at, nb, handle, mapped, ptr, host, sig, failed, sent, quiet, exited>>

PostNoDecrement(a, p) ==
  /\ Running(a) /\ pc[a] = "drop"
  /\ pc' \in Signalled(at[a], [pc EXCEPT ![a] = p])
  /\ held' = [held EXCEPT ![at[a]] = FALSE] /\ UNCHANGED nb

\* The rest of post_*_index: count down, signal, unlock; the actor goes to p.
Post(a, p) ==
  /\ Running(a) /\ pc[a] = "drop"
  /\ \E n \in Counts(a, nb[at[a]] - 1) : nb' = [nb EXCEPT ![at[a]] = n]
  /\ pc' \in Signalled(at[a], [pc EXCEPT ![a] = p])
  /\ held' = [held EXCEPT ![at[a]] = FALSE]

-----------------------------------------------------------------------------
(* Workers: execute_command.                                               *)

\* cmd 1: the index is looked at before the gate; if it is down, nothing is done.
StartLookup(w) ==
  /\ Running(w) /\ ~quiet /\ "lookup" \in Commands
  /\ handle["main"] # Null
  /\ Goto(w, "idle", "gate")
  /\ at' = [at EXCEPT ![w] = "main"]
  /\ UNCHANGED <<nb, held, handle, mapped, ptr, host, sig, failed, sent, quiet, exited>>

\* cmd 2 for this table's number.
StartInsert(w) ==
  /\ Running(w) /\ ~quiet /\ "insert" \in Commands
  /\ Goto(w, "idle", "gate")
  /\ at' = [at EXCEPT ![w] = "tmp"]
  /\ UNCHANGED <<nb, held, handle, mapped, ptr, host, sig, failed, sent, quiet, exited>>

\* The index is read and passed to the library: a lookup takes whatever it is,
\* an insertion only a pointer that is not NULL.
ReadIndex(w) ==
  /\ Running(w)
  /\ at[w] = "tmp" => handle["tmp"] # Null
  /\ Goto(w, "in", "use")
  /\ ptr' = [ptr EXCEPT ![w] = handle[at[w]]]
  /\ UNCHANGED <<at, nb, held, handle, mapped, host, sig, failed, sent, quiet, exited>>

\* while (audioindex_tmp == NULL) pthread_cond_wait(...): the mutex is not
\* this thread's, and the wait unlocks it all the same.
Park(w) ==
  /\ Running(w) /\ at[w] = "tmp" /\ handle["tmp"] = Null
  /\ Goto(w, "in", "park")
  /\ held' = [held EXCEPT !["tmp"] = FALSE]
  /\ UNCHANGED <<at, nb, handle, mapped, ptr, host, sig, failed, sent, quiet, exited>>

\* The wait returns with the mutex locked; the loop tests the pointer again.
Unpark(w) ==
  /\ Running(w) /\ ~held[at[w]]
  /\ Goto(w, "unpark", "in")
  /\ held' = [held EXCEPT ![at[w]] = TRUE]
  /\ UNCHANGED <<at, nb, handle, mapped, ptr, host, sig, failed, sent, quiet, exited>>

\* The library call returns.
Finish(w) ==
  /\ Running(w)
  /\ Goto(w, "use", "post")
  /\ ptr' = [ptr EXCEPT ![w] = Null]
  /\ UNCHANGED <<at, nb, held, handle, mapped, host, sig, failed, sent, quiet, exited>>

Done(w) ==
  /\ Post(w, "idle")
  /\ UNCHANGED <<at, handle, mapped, ptr, host, sig, failed, sent, quiet, exited>>

-----------------------------------------------------------------------------
(* The handler: handle_signal, kill_server, kill_index, init_index,        *)
(* init_server.  What the servers tell each other is in TableRegistry.     *)

\* One handler at a time: the operator sends the next signal after the last
\* was handled.
Deliver(t, s) ==
  /\ ~exited /\ sent < MaxSignals /\ t \in Handlers
  /\ Goto(SIG, "none", "kill_server")
  /\ host' = t /\ sig' = s /\ sent' = sent + 1
  /\ failed' = FALSE
  /\ UNCHANGED <<at, nb, held, handle, mapped, ptr, quiet, exited>>

\* The switch is left: SIGUSR returns to the interrupted thread, SIGTERM exits.
Return ==
  /\ host' = NoHost
  /\ exited' = (sig = "TERM")

\* kill_server: no answer from the main server stops a SIGUSR, not a SIGTERM.
KillServer ==
  /\ Running(SIG)
  /\ Goto(SIG, "kill_server", "gate")
  /\ at' = [at EXCEPT ![SIG] = "main"]
  /\ UNCHANGED <<nb, held, handle, mapped, ptr, host, sig, failed, sent, quiet, exited>>

KillServerFails ==
  /\ Running(SIG) /\ sig = "USR"
  /\ Goto(SIG, "kill_server", "none") /\ Return
  /\ UNCHANGED <<at, nb, held, handle, mapped, ptr, sig, failed, sent, quiet>>

\* close_audioindex; the temporary index is flushed first.
CloseIndex ==
  /\ Running(SIG)
  /\ Goto(SIG, "in", "closed")
  /\ mapped' = [mapped EXCEPT ![at[SIG]] = Null]
  /\ UNCHANGED <<at, nb, held, handle, ptr, host, sig, failed, sent, quiet, exited>>

ClearIgnoresError ==
  /\ Running(SIG)
  /\ Goto(SIG, "closed", "post")
  /\ handle' = [handle EXCEPT ![at[SIG]] = Null]
  /\ UNCHANGED <<at, nb, held, mapped, ptr, host, sig, failed, sent, quiet, exited>>

\* The global is set to NULL.  Closing a NULL index is an error of the library.
ClearIndex ==
  /\ Running(SIG)
  /\ Goto(SIG, "closed", "post")
  /\ handle' = [handle EXCEPT ![at[SIG]] = Null]
  /\ failed' = (handle[at[SIG]] = Null)
  /\ UNCHANGED <<at, nb, held, mapped, ptr, host, sig, sent, quiet, exited>>

\* After the main index the temporary one, and after both the opening.
NextIndex ==
  /\ ~failed /\ at[SIG] = "main"
  /\ Post(SIG, "gate")
  /\ at' = [at EXCEPT ![SIG] = "tmp"]
  /\ UNCHANGED <<handle, mapped, ptr, host, sig, failed, sent, quiet, exited>>

Reopen ==
  /\ ~failed /\ at[SIG] = "tmp" /\ sig = "USR"
  /\ Post(SIG, "open")
  /\ at' = [at EXCEPT ![SIG] = "main"]
  /\ UNCHANGED <<handle, mapped, ptr, host, sig, failed, sent, quiet, exited>>

\* kill_index returned less than 0, or this was a SIGTERM.
KillIndexEnds ==
  /\ failed \/ (at[SIG] = "tmp" /\ sig = "TERM")
  /\ Post(SIG, "none") /\ Return
  /\ UNCHANGED <<at, handle, mapped, ptr, sig, failed, sent, quiet>>

\* init_index, once for each index: lock, open, signal, unlock.
OpenLock ==
  /\ Running(SIG) /\ ~held[at[SIG]]
  /\ Goto(SIG, "open", "opening")
  /\ held' = [held EXCEPT ![at[SIG]] = TRUE]
  /\ UNCHANGED <<at, nb, handle, mapped, ptr, host, sig, failed, sent, quiet, exited>>

OpenIndex ==
  /\ Running(SIG) /\ pc[SIG] = "opening"
  /\ handle' = [handle EXCEPT ![at[SIG]] = sent + 1]
  /\ mapped' = [mapped EXCEPT ![at[SIG]] = sent + 1]
  /\ pc' \in Signalled(at[SIG], [pc EXCEPT ![SIG] =
                                   IF at[SIG] = "main" THEN "open" ELSE "init_server"])
  /\ at' = [at EXCEPT ![SIG] = "tmp"]
  /\ held' = [held EXCEPT ![at[SIG]] = FALSE]
  /\ UNCHANGED <<nb, ptr, host, sig, failed, sent, quiet, exited>>

\* "index STILL down"
OpenFails ==
  /\ Running(SIG)
  /\ Goto(SIG, "opening", "none") /\ Return
  /\ held' = [held EXCEPT ![at[SIG]] = FALSE]
  /\ UNCHANGED <<at, nb, handle, mapped, ptr, sig, failed, sent, quiet>>

\* Whether the main server answered or not, the handler returns.
InitServer ==
  /\ Running(SIG)
  /\ Goto(SIG, "init_server", "none") /\ Return
  /\ UNCHANGED <<at, nb, held, handle, mapped, ptr, sig, failed, sent, quiet>>

\* Environment: no more messages from the main server.
Quiesce ==
  /\ ~exited /\ ~quiet /\ quiet' = TRUE
  /\ UNCHANGED <<pc, at, nb, held, handle, mapped, ptr, host, sig, failed, sent, exited>>

-----------------------------------------------------------------------------
Init ==
  /\ pc = [a \in Actors |-> IF a = SIG THEN "none" ELSE "idle"]
  /\ at = [a \in Actors |-> "main"]
  /\ nb = [g \in Index |-> 0]
  /\ held = [g \in Index |-> FALSE]
  /\ handle = [g \in Index |-> 1] /\ mapped = [g \in Index |-> 1]
  /\ ptr = [w \in Workers |-> Null]
  /\ host = NoHost /\ sig = "USR" /\ failed = FALSE /\ sent = 0
  /\ quiet = FALSE /\ exited = FALSE

Gate(a) == Lock(a) \/ Enter(a) \/ Sleep(a) \/ PostLock(a)

Worker(w) ==
  \/ Gate(w)
  \/ StartLookup(w) \/ StartInsert(w)
  \/ ReadIndex(w) \/ Park(w) \/ Unpark(w) \/ Finish(w) \/ Done(w)

Handler ==
  \/ Gate(SIG)
  \/ KillServer \/ KillServerFails
  \/ CloseIndex \/ ClearIndex \/ NextIndex \/ Reopen \/ KillIndexEnds
  \/ OpenLock \/ OpenIndex \/ OpenFails \/ InitServer

Next ==
  \/ \E w \in Workers : Worker(w)
  \/ Handler
  \/ \E t \in Handlers, s \in {"USR", "TERM"} : Deliver(t, s)
  \/ Quiesce

Spec == Init /\ [][Next]_vars

\* Every thread that can run is scheduled, the handler like the others, and
\* clients stop at some point.
FairSpec ==
  /\ Spec
  /\ \A w \in Workers : WF_vars(Worker(w))
  /\ WF_vars(Handler)

-----------------------------------------------------------------------------
(* Properties.                                                             *)

\* Every variable keeps its range; the main counter stays within what the
\* workers and one handler can make it.
TypeOK ==
  /\ pc \in [Actors -> WorkerPcs \cup HandlerPcs]
  /\ \A w \in Workers : pc[w] \in WorkerPcs
  /\ pc[SIG] \in HandlerPcs
  /\ at \in [Actors -> Index]
  /\ nb \in [Index -> Int]
  /\ nb["main"] \in 0 .. Cardinality(Workers) + 1
  /\ held \in [Index -> BOOLEAN]
  /\ handle \in [Index -> 0 .. MaxSignals + 1]
  /\ mapped \in [Index -> 0 .. MaxSignals + 1]
  /\ ptr \in [Workers -> 0 .. MaxSignals + 1]
  /\ host \in Workers \cup {Main, NoHost}
  /\ sig \in {"USR", "TERM"} /\ failed \in BOOLEAN
  /\ sent \in 0 .. MaxSignals
  /\ quiet \in BOOLEAN /\ exited \in BOOLEAN

\* The main index's counter is the number of threads between waitfor_main_index
\* and post_main_index, whichever thread the handler interrupted.
CountIsExact == nb["main"] = Cardinality(Inside("main"))

\* A worker never sleeps at the gate of the main index: its bound, nbthreads + 1,
\* is above anything the counter reaches, so lookups run in parallel, and also
\* while the handler is inside.
LookupsNeverWait == \A w \in Workers : ~(at[w] = "main" /\ pc[w] = "asleep")

\* When the handler sleeps at the gate of the main index, some worker is inside
\* and will signal: no wake-up is lost.
SleeperWillBeWoken ==
  at[SIG] = "main" /\ pc[SIG] = "asleep" => \E w \in Workers : w \in Inside("main")

\* kill_index gets past the gate of the main index only when every lookup that
\* had passed it before has left.
HandlerEntersAlone ==
  [][pc[SIG] = "test" /\ pc'[SIG] = "in" /\ at[SIG] = "main"
       => Inside("main") = {}]_vars

\* Once the main index is NULL with no handler at work (an opening failed), it
\* is NULL for good: kill_index fails on it and init_index is not reached again.
DownForGood ==
  [](pc[SIG] = "none" /\ handle["main"] = Null => [](handle["main"] = Null))

\* "ability to unplug the index during updates by waiting for the count to go
\* to zero": no thread uses an index that was closed under it.
UnpluggedIndexIsNotUsed ==
  \A w \in Workers : pc[w] = "use" /\ ptr[w] # Null => mapped[at[w]] = ptr[w]

\* "do not respond to SIGUSR1 or SIGUSR2": the handler does not run on a worker,
\* so it never waits for what only the thread under it can release, the count or
\* the mutex that thread holds.
HandlerNotBlockedByItsThread ==
  host \in Workers /\ at[host] = at[SIG] =>
    /\ ~(pc[SIG] = "asleep" /\ host \in Inside(at[SIG]))
    /\ ~(pc[SIG] = "gate" /\ pc[host] \in CriticalPcs)

\* A handler that runs while no more messages come returns.
HandlerReturns == (pc[SIG] # "none" /\ quiet) ~> (pc[SIG] = "none")

\* A lookup that is in progress when the messages stop is finished, handler or
\* not, unless the process exits.
LookupsFinish ==
  \A w \in Workers : quiet /\ pc[w] # "idle" /\ at[w] = "main" ~> pc[w] = "idle" \/ exited
=============================================================================
