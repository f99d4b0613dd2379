-------------------------- MODULE IndexGate_proofs --------------------------
(***************************************************************************)
(* Proofs about IndexGate for any number of workers, signals and threads   *)
(* that may take them.                                                     *)
(***************************************************************************)
EXTENDS IndexGate, FiniteSetTheorems, TLAPS

\* TypeOK without the range of the main counter, which is not inductive alone.
Types ==
  /\ pc \in [Actors -> WorkerPcs \cup HandlerPcs]
  /\ \A w \in Workers : pc[w] \in WorkerPcs
  /\ pc[SIG] \in HandlerPcs
  /\ at \in [Actors -> Index]
  /\ nb \in [Index -> Int]
  /\ held \in [Index -> BOOLEAN]
  /\ handle \in [Index -> 0 .. MaxSignals + 1]
  /\ mapped \in [Index -> 0 .. MaxSignals + 1]
  /\ ptr \in [Workers -> 0 .. MaxSignals + 1]
  /\ host \in Workers \cup {Main, NoHost}
  /\ sig \in {"USR", "TERM"} /\ failed \in BOOLEAN
  /\ sent \in 0 .. MaxSignals
  /\ quiet \in BOOLEAN /\ exited \in BOOLEAN

\* The gate's functions keep the types of what they change, whoever calls them.
LEMMA GateTypes ==
  ASSUME Types, NEW a \in Actors, Gate(a)
  PROVE  Types'
<1> USE GateAssumption DEF Types, Actors, Index, WorkerPcs, HandlerPcs, Goto
<1>1. CASE Lock(a)
  BY <1>1 DEF Lock
<1>2. CASE Enter(a)
  <2>1. PICK n \in Counts(a, nb[at[a]] + 1) : nb' = [nb EXCEPT ![at[a]] = n]
    BY <1>2 DEF Enter
  <2>2. n \in Int
    BY <2>1 DEF Counts
  <2>. QED
    BY <1>2, <2>1, <2>2 DEF Enter
<1>3. CASE Sleep(a)
  BY <1>3 DEF Sleep
<1>4. CASE PostLock(a)
  BY <1>4 DEF PostLock
<1>. QED
  BY <1>1, <1>2, <1>3, <1>4 DEF Gate

\* A signal moves at most one waiter, to a place its kind of actor has.
LEMMA SignalledTypes ==
  ASSUME Types, NEW g \in Index,
         NEW p, p \in [Actors -> WorkerPcs \cup HandlerPcs],
         \A w \in Workers : p[w] \in WorkerPcs, p[SIG] \in HandlerPcs,
         NEW q \in Signalled(g, p)
  PROVE  /\ q \in [Actors -> WorkerPcs \cup HandlerPcs]
         /\ \A w \in Workers : q[w] \in WorkerPcs
         /\ q[SIG] \in HandlerPcs
<1>1. CASE Waiters(g) = {}
  BY <1>1 DEF Signalled
<1>2. CASE Waiters(g) # {}
  <2>1. PICK v \in Waiters(g) : q = [p EXCEPT ![v] = Resume(v)]
    BY <1>2 DEF Signalled
  <2>2. v \in Actors /\ (v = SIG => Resume(v) = "gate")
    BY DEF Waiters, Types, HandlerPcs, Resume
  <2>3. Resume(v) \in WorkerPcs
    BY DEF Resume, WorkerPcs
  <2>. QED
    BY <2>1, <2>2, <2>3, GateAssumption DEF Actors, HandlerPcs
<1>. QED
  BY <1>1, <1>2

\* The counter's update and the signal of post_*_index.
LEMMA PostTypes ==
  ASSUME Types, NEW a \in Actors, NEW p, Post(a, p),
         p \in WorkerPcs \cap HandlerPcs \/ (a = SIG /\ p \in HandlerPcs)
                                         \/ (a \in Workers /\ p \in WorkerPcs)
  PROVE  /\ pc' \in [Actors -> WorkerPcs \cup HandlerPcs]
         /\ \A w \in Workers : pc'[w] \in WorkerPcs
         /\ pc'[SIG] \in HandlerPcs
         /\ nb' \in [Index -> Int]
         /\ held' \in [Index -> BOOLEAN]
<1> DEFINE q == [pc EXCEPT ![a] = p]
<1>1. /\ q \in [Actors -> WorkerPcs \cup HandlerPcs]
      /\ \A w \in Workers : q[w] \in WorkerPcs
      /\ q[SIG] \in HandlerPcs
  BY GateAssumption DEF Types, Actors
<1>2. pc' \in Signalled(at[a], q) /\ at[a] \in Index
  BY DEF Post, Types
<1>3. PICK n \in Counts(a, nb[at[a]] - 1) : nb' = [nb EXCEPT ![at[a]] = n]
  BY DEF Post
<1>4. n \in Int
  BY <1>2 DEF Counts, Types
<1>5. nb' \in [Index -> Int] /\ held' \in [Index -> BOOLEAN]
  BY <1>2, <1>3, <1>4 DEF Post, Types
<1>. HIDE DEF q
<1>. QED
  BY <1>1, <1>2, <1>5, SignalledTypes

\* A step keeps the types.
LEMMA TypesStep == Types /\ [Next]_vars => Types'
<1> SUFFICES ASSUME Types, [Next]_vars PROVE Types'
  OBVIOUS
<1>1. ASSUME NEW a \in Actors, Gate(a) PROVE Types'
  BY <1>1, GateTypes
<1>2. ASSUME NEW w \in Workers,
             StartLookup(w) \/ StartInsert(w) \/ ReadIndex(w) \/ Park(w)
               \/ Unpark(w) \/ Finish(w)
      PROVE  Types'
  <2> USE GateAssumption DEF Types, Actors, Index, WorkerPcs, Goto, Null
  <2>1. CASE StartLookup(w)
    BY <2>1 DEF StartLookup
  <2>2. CASE StartInsert(w)
    BY <2>2 DEF StartInsert
  <2>3. CASE ReadIndex(w)
    BY <2>3 DEF ReadIndex
  <2>4. CASE Park(w)
    BY <2>4 DEF Park
  <2>5. CASE Unpark(w)
    BY <2>5 DEF Unpark
  <2>6. CASE Finish(w)
    BY <2>6 DEF Finish
  <2>. QED
    BY <1>2, <2>1, <2>2, <2>3, <2>4, <2>5, <2>6
<1>3. ASSUME NEW w \in Workers, Done(w) PROVE Types'
  <2>1. w \in Actors /\ "idle" \in WorkerPcs /\ Post(w, "idle")
    BY <1>3 DEF Actors, WorkerPcs, Done
  <2>. QED
    BY <1>3, <2>1, PostTypes DEF Types, Done
<1>4. ASSUME KillServer \/ KillServerFails \/ CloseIndex \/ ClearIndex \/ OpenLock
               \/ OpenFails \/ InitServer
      PROVE  Types'
  <2> USE GateAssumption DEF Types, Actors, Index, HandlerPcs, Goto, Null, NoHost, Return
  <2>1. CASE KillServer
    BY <2>1 DEF KillServer
  <2>2. CASE KillServerFails
    BY <2>2 DEF KillServerFails
  <2>3. CASE CloseIndex
    BY <2>3 DEF CloseIndex
  <2>4. CASE ClearIndex
    BY <2>4 DEF ClearIndex
  <2>5. CASE OpenLock
    BY <2>5 DEF OpenLock
  <2>6. CASE OpenFails
    BY <2>6 DEF OpenFails
  <2>7. CASE InitServer
    BY <2>7 DEF InitServer
  <2>. QED
    BY <1>4, <2>1, <2>2, <2>3, <2>4, <2>5, <2>6, <2>7
<1>5. ASSUME NextIndex \/ Reopen \/ KillIndexEnds PROVE Types'
  <2>1. PICK p \in {"gate", "open", "none"} : Post(SIG, p)
    BY <1>5 DEF NextIndex, Reopen, KillIndexEnds
  <2>2. SIG \in Actors /\ p \in HandlerPcs
    BY DEF Actors, HandlerPcs
  <2>3. /\ pc' \in [Actors -> WorkerPcs \cup HandlerPcs]
        /\ \A w \in Workers : pc'[w] \in WorkerPcs
        /\ pc'[SIG] \in HandlerPcs
        /\ nb' \in [Index -> Int]
        /\ held' \in [Index -> BOOLEAN]
    BY <2>1, <2>2, PostTypes
  <2>4. /\ at' \in [Actors -> Index] /\ host' \in Workers \cup {Main, NoHost}
        /\ exited' \in BOOLEAN
    BY <1>5, <2>2 DEF Types, Index, NoHost, Return, NextIndex, Reopen, KillIndexEnds
  <2>5. UNCHANGED <<handle, mapped, ptr, sig, failed, sent, quiet>>
    BY <1>5 DEF NextIndex, Reopen, KillIndexEnds
  <2>. QED
    BY <2>3, <2>4, <2>5 DEF Types
<1>6. ASSUME OpenIndex PROVE Types'
  <2> DEFINE q == [pc EXCEPT ![SIG] = IF at[SIG] = "main" THEN "open" ELSE "init_server"]
  <2>1. /\ q \in [Actors -> WorkerPcs \cup HandlerPcs]
        /\ \A w \in Workers : q[w] \in WorkerPcs
        /\ q[SIG] \in HandlerPcs
    BY GateAssumption DEF Types, Actors, HandlerPcs
  <2>2. pc' \in Signalled(at[SIG], q) /\ at[SIG] \in Index
    BY <1>6 DEF OpenIndex, Types, Actors
  <2>. HIDE DEF q
  <2>3. /\ pc' \in [Actors -> WorkerPcs \cup HandlerPcs]
        /\ \A w \in Workers : pc'[w] \in WorkerPcs
        /\ pc'[SIG] \in HandlerPcs
    BY <2>1, <2>2, SignalledTypes
  <2>. QED
    BY <1>6, <2>2, <2>3, GateAssumption DEF Types, Actors, Index, OpenIndex
<1>7. ASSUME NEW t \in Handlers, NEW s \in {"USR", "TERM"}, Deliver(t, s)
      PROVE  Types'
  <2>1. /\ pc' \in [Actors -> WorkerPcs \cup HandlerPcs]
        /\ \A w \in Workers : pc'[w] \in WorkerPcs
        /\ pc'[SIG] \in HandlerPcs
    BY <1>7, GateAssumption DEF Types, Actors, HandlerPcs, Goto, Deliver
  <2>2. /\ host' \in Workers \cup {Main, NoHost}
        /\ sig' \in {"USR", "TERM"} /\ sent' \in 0 .. MaxSignals
    BY <1>7, GateAssumption DEF Types, Deliver
  <2>. QED
    BY <1>7, <2>1, <2>2 DEF Types, Deliver
<1>8. CASE Quiesce
  BY <1>8 DEF Types, Quiesce
<1>9. CASE UNCHANGED vars
  BY <1>9 DEF Types, vars
<1>. QED
  BY <1>1, <1>2, <1>3, <1>4, <1>5, <1>6, <1>7, <1>8, <1>9
     DEF Next, Worker, Handler, Actors

-----------------------------------------------------------------------------
(***************************************************************************)
(* The inductive invariant.  CountIsExact is not inductive alone: the      *)
(* count is exact because the mutex of the main index keeps its updates    *)
(* apart (Mutex), which in turn needs that the unlock of somebody else's   *)
(* mutex in Park never concerns the main index (Parked).                   *)
(***************************************************************************)
OwnerPcs == CriticalPcs \cup {"opening"}
Owns(a)  == at[a] = "main" /\ pc[a] \in OwnerPcs

Mutex ==
  /\ \A a \in Actors : Owns(a) => held["main"]
  /\ \A a, b \in Actors : Owns(a) /\ Owns(b) => a = b

Parked == \A a \in Actors : pc[a] \in {"park", "unpark"} => at[a] = "tmp"

Sleeper == at[SIG] = "main" /\ pc[SIG] = "asleep" => Inside("main") # {}

IInv == Types /\ Mutex /\ Parked /\ CountIsExact /\ LookupsNeverWait /\ Sleeper

\* What may happen to an actor during a step of another one: a signal wakes it.
Still(b) ==
  /\ at'[b] = at[b]
  /\ \/ pc'[b] = pc[b]
     \/ pc[b] = "asleep" /\ pc'[b] = "gate"
     \/ pc[b] = "park" /\ pc'[b] = "unpark"

\* What a step of actor a does to the mutex of the main index.
KeepsMutex(a) ==
  /\ Owns(a)' => held'["main"] /\ (Owns(a) \/ ~held["main"])
  /\ Owns(a)' \/ Owns(a) \/ held'["main"] = held["main"]

\* Counting the actors at a gate is counting a finite set.
LEMMA ActorsFinite ==
  /\ IsFiniteSet(Actors)
  /\ Cardinality(Actors) = Cardinality(Workers) + 1
  /\ Cardinality(Workers) \in Nat
  BY GateAssumption, FS_AddElement, FS_CardinalityType DEF Actors

\* There are never more threads inside than there are threads.
LEMMA InsideFinite ==
  ASSUME NEW g
  PROVE  /\ IsFiniteSet(Inside(g))
         /\ Cardinality(Inside(g)) \in 0 .. Cardinality(Workers) + 1
<1>1. Inside(g) \subseteq Actors
  BY DEF Inside
<1>. QED
  BY <1>1, ActorsFinite, FS_Subset, FS_CardinalityType

\* At the gate of the main index no update of the count is lost.
LEMMA CountsAtMain ==
  ASSUME Mutex, NEW a \in Actors, at[a] = "main", pc[a] \in CriticalPcs,
         NEW k, NEW n \in Counts(a, k)
  PROVE  n = k
  BY DEF Mutex, Owns, OwnerPcs, Counts

\* A signal moves nobody but one waiter.
LEMMA SignalledMoves ==
  ASSUME Types, NEW g \in Index, NEW a \in Actors, pc[a] \notin {"asleep", "park"},
         NEW p, NEW r \in Signalled(g, [pc EXCEPT ![a] = p])
  PROVE  /\ r[a] = p
         /\ \A b \in Actors \ {a} :
              \/ r[b] = pc[b]
              \/ pc[b] = "asleep" /\ r[b] = "gate"
              \/ pc[b] = "park" /\ r[b] = "unpark"
         /\ \A b : Waiters(g) = {b} => r[b] = Resume(b)
<1>1. CASE Waiters(g) = {}
  BY <1>1 DEF Signalled, Types
<1>2. CASE Waiters(g) # {}
  <2>1. PICK v \in Waiters(g) : r = [[pc EXCEPT ![a] = p] EXCEPT ![v] = Resume(v)]
    BY <1>2 DEF Signalled
  <2>2. v \in Actors \ {a} /\ pc[v] \in {"asleep", "park"}
    BY DEF Waiters
  <2>. QED
    BY <2>1, <2>2 DEF Types, Resume
<1>. QED
  BY <1>1, <1>2

\* The parts of the invariant that are about single actors and the mutex.
LEMMA MutexStep ==
  ASSUME IInv, NEW a \in Actors, \A b \in Actors \ {a} : Still(b), KeepsMutex(a),
         pc'[a] \in {"park", "unpark"} => at'[a] = "tmp",
         a \in Workers => ~(at'[a] = "main" /\ pc'[a] = "asleep")
  PROVE  Mutex' /\ Parked' /\ LookupsNeverWait'
<1>1. \A b \in Actors \ {a} : Owns(b)' <=> Owns(b)
  BY DEF Still, Owns, OwnerPcs, CriticalPcs
<1>2. Mutex'
  BY <1>1 DEF IInv, Mutex, KeepsMutex
<1>3. Parked'
  BY DEF IInv, Parked, Still
<1>4. LookupsNeverWait'
  BY DEF IInv, LookupsNeverWait, Still, Actors
<1>. QED
  BY <1>2, <1>3, <1>4

\* How an actor that moves enters or leaves the set of those inside.
LEMMA InsideStep ==
  ASSUME NEW a \in Actors, \A b \in Actors \ {a} : Still(b)
  PROVE  Inside("main")' = IF at'[a] = "main" /\ pc'[a] \in InsidePcs
                           THEN Inside("main") \cup {a} ELSE Inside("main") \ {a}
<1>1. \A b \in Actors \ {a} : pc'[b] \in InsidePcs <=> pc[b] \in InsidePcs
  BY DEF Still, InsidePcs
<1>. QED
  BY <1>1 DEF Inside, Still

InMain(a) == at[a] = "main" /\ pc[a] \in InsidePcs

\* A step that takes nobody into the main index or out of it.
LEMMA PlainStep ==
  ASSUME IInv, Types', NEW a \in Actors, \A b \in Actors \ {a} : Still(b), KeepsMutex(a),
         pc'[a] \in {"park", "unpark"} => at'[a] = "tmp",
         a \in Workers => ~(at'[a] = "main" /\ pc'[a] = "asleep"),
         InMain(a)' <=> InMain(a), nb'["main"] = nb["main"],
         a = SIG /\ at'[a] = "main" /\ pc'[a] = "asleep" => nb["main"] > 0
  PROVE  IInv'
<1>1. Inside("main")' = Inside("main")
  BY InsideStep DEF InMain, Inside
<1>2. CountIsExact'
  BY <1>1 DEF IInv, CountIsExact
<1>3. Sleeper'
  <2>1. CASE a = SIG
    BY <1>1, <2>1, FS_EmptySet DEF IInv, CountIsExact, Sleeper
  <2>2. CASE a # SIG
    BY <1>1, <2>2 DEF IInv, Sleeper, Still, Actors
  <2>. QED
    BY <2>1, <2>2
<1>4. Mutex' /\ Parked' /\ LookupsNeverWait'
  BY MutexStep
<1>. QED
  BY <1>2, <1>3, <1>4 DEF IInv

\* Locking a gate's mutex keeps the invariant.
LEMMA LockStep ==
  ASSUME IInv, Types', NEW a \in Actors, Lock(a) \/ PostLock(a)
  PROVE  IInv'
<1>1. \A b \in Actors \ {a} : Still(b)
  BY DEF Still, Lock, PostLock, Goto, IInv, Types
<1>2. at[a] \in Index /\ pc'[a] \in CriticalPcs /\ at' = at /\ nb' = nb
  BY DEF Lock, PostLock, Goto, IInv, Types, CriticalPcs
<1>3. KeepsMutex(a)
  BY <1>2 DEF KeepsMutex, Owns, OwnerPcs, Lock, PostLock, IInv, Types, Index
<1>4. InMain(a)' <=> InMain(a)
  BY DEF InMain, InsidePcs, Lock, PostLock, Goto, IInv, Types
<1>. QED
  BY <1>1, <1>2, <1>3, <1>4, PlainStep DEF CriticalPcs

\* Going to sleep at the main index is the handler's, and only when the count
\* is not 0: a worker's bound is never exceeded.
LEMMA SleepStep ==
  ASSUME IInv, Types', NEW a \in Actors, Sleep(a)
  PROVE  IInv'
<1>1. \A b \in Actors \ {a} : Still(b)
  BY DEF Still, Sleep, Goto, IInv, Types
<1>2. at[a] \in Index /\ pc[a] = "test" /\ pc'[a] = "asleep" /\ at' = at /\ nb' = nb
  BY DEF Sleep, Goto, IInv, Types
<1>3. KeepsMutex(a)
  BY <1>2 DEF KeepsMutex, Owns, OwnerPcs, CriticalPcs, Sleep, IInv, Types, Index
<1>4. InMain(a)' <=> InMain(a)
  BY <1>2 DEF InMain, InsidePcs
<1>5. nb["main"] \in 0 .. Cardinality(Workers) + 1
  BY InsideFinite DEF IInv, CountIsExact
<1>6. at[a] = "main" => a = SIG /\ nb["main"] > 0
  BY <1>5, ActorsFinite DEF Sleep, Bound
<1>7. a \in Workers => a # SIG
  BY GateAssumption
<1>. QED
  BY <1>1, <1>2, <1>3, <1>4, <1>6, <1>7, PlainStep

\* Counting up at a gate keeps the invariant: nobody counts at the same time.
LEMMA EnterStep ==
  ASSUME IInv, Types', NEW a \in Actors, Enter(a)
  PROVE  IInv'
<1>1. \A b \in Actors \ {a} : Still(b)
  BY DEF Still, Enter, Goto, IInv, Types
<1>2. at[a] \in Index /\ pc[a] = "test" /\ pc'[a] = "in" /\ at' = at
  BY DEF Enter, Goto, IInv, Types
<1>3. KeepsMutex(a)
  BY <1>2 DEF KeepsMutex, Owns, OwnerPcs, CriticalPcs, Enter, IInv, Types, Index
<1>4. PICK n \in Counts(a, nb[at[a]] + 1) : nb' = [nb EXCEPT ![at[a]] = n]
  BY DEF Enter
<1>5. CASE at[a] = "tmp"
  <2>1. nb'["main"] = nb["main"] /\ ~InMain(a) /\ ~InMain(a)'
    BY <1>2, <1>4, <1>5 DEF InMain, IInv, Types
  <2>. QED
    BY <1>1, <1>2, <1>3, <2>1, PlainStep
<1>6. CASE at[a] = "main"
  <2>1. nb'["main"] = nb["main"] + 1
    BY <1>2, <1>4, <1>6, CountsAtMain DEF IInv, Types, CriticalPcs, Index
  <2>2. Inside("main")' = Inside("main") \cup {a} /\ a \notin Inside("main")
    BY <1>1, <1>2, <1>6, InsideStep DEF Inside, InsidePcs
  <2>3. CountIsExact'
    BY <2>1, <2>2, InsideFinite, FS_AddElement DEF IInv, CountIsExact
  <2>4. Sleeper'
    BY <2>2 DEF Sleeper
  <2>5. Mutex' /\ Parked' /\ LookupsNeverWait'
    BY <1>1, <1>2, <1>3, MutexStep
  <2>. QED
    BY <2>3, <2>4, <2>5 DEF IInv
<1>. QED
  BY <1>2, <1>5, <1>6 DEF Index

\* The caller of Post may also change the handler's index, as the callers in
\* kill_index do.
LEMMA PostStep ==
  ASSUME IInv, Types', NEW a \in Actors, NEW p, Post(a, p),
         p \in {"idle", "gate", "open", "none"},
         \A b \in Actors \ {a} : at'[b] = at[b]
  PROVE  IInv'
<1>1. at[a] \in Index /\ pc[a] = "drop"
  BY DEF Post, IInv, Types
<1>2. /\ pc'[a] = p
      /\ \A b \in Actors \ {a} : Still(b)
      /\ \A b : Waiters(at[a]) = {b} => pc'[b] = Resume(b)
  BY <1>1, SignalledMoves DEF Still, Post, IInv
<1>3. ~Owns(a)' /\ (Owns(a) \/ held'["main"] = held["main"])
  BY <1>1, <1>2 DEF Owns, OwnerPcs, CriticalPcs, Post, IInv, Types, Index
<1>4. KeepsMutex(a)
  BY <1>3 DEF KeepsMutex
<1>5. PICK n \in Counts(a, nb[at[a]] - 1) : nb' = [nb EXCEPT ![at[a]] = n]
  BY DEF Post
<1>6. CASE at[a] = "tmp"
  <2>1. nb'["main"] = nb["main"] /\ ~InMain(a) /\ ~InMain(a)'
    BY <1>2, <1>5, <1>6 DEF InMain, InsidePcs, IInv, Types
  <2>. QED
    BY <1>2, <1>4, <2>1, PlainStep
<1>7. CASE at[a] = "main"
  <2>1. nb'["main"] = nb["main"] - 1
    BY <1>1, <1>5, <1>7, CountsAtMain DEF IInv, Types, CriticalPcs, Index
  <2>2. Inside("main")' = Inside("main") \ {a} /\ a \in Inside("main")
    BY <1>1, <1>2, <1>7, InsideStep DEF Inside, InsidePcs
  <2>3. CountIsExact'
    BY <2>1, <2>2, InsideFinite, FS_RemoveElement DEF IInv, CountIsExact
  <2>4. Sleeper'
    \* The handler is the only sleeper there can be, and is woken.
    <3>1. SUFFICES ASSUME at'[SIG] = "main", pc'[SIG] = "asleep" PROVE FALSE
      BY DEF Sleeper
    <3>2. SIG # a /\ at[SIG] = "main" /\ pc[SIG] = "asleep"
      BY <1>2, <3>1 DEF Still, Actors
    <3>3. Waiters("main") = {SIG}
      BY <3>2 DEF Waiters, Actors, IInv, LookupsNeverWait, Parked
    <3>. QED
      BY <1>2, <1>7, <3>1, <3>2, <3>3 DEF Resume
  <2>5. Mutex' /\ Parked' /\ LookupsNeverWait'
    BY <1>2, <1>4, MutexStep
  <2>. QED
    BY <2>3, <2>4, <2>5 DEF IInv
<1>. QED
  BY <1>1, <1>6, <1>7 DEF Index

\* So do a worker's own steps ...
LEMMA WorkerStep ==
  ASSUME IInv, Types', NEW w \in Workers,
         StartLookup(w) \/ StartInsert(w) \/ ReadIndex(w) \/ Park(w) \/ Unpark(w)
           \/ Finish(w)
  PROVE  IInv'
<1>1. w \in Actors /\ w # SIG
  BY GateAssumption DEF Actors
<1>2. \A b \in Actors \ {w} : Still(b)
  BY <1>1 DEF Still, IInv, Types, Goto,
              StartLookup, StartInsert, ReadIndex, Park, Unpark, Finish
<1>3. nb' = nb /\ pc'[w] # "asleep"
  BY <1>1 DEF IInv, Types, Goto,
              StartLookup, StartInsert, ReadIndex, Park, Unpark, Finish
<1>4. ~Owns(w) /\ ~Owns(w)'
  BY <1>1 DEF IInv, Types, Goto, Owns, OwnerPcs, CriticalPcs,
              StartLookup, StartInsert, ReadIndex, Park, Unpark, Finish
<1>5. held'["main"] = held["main"]
  <2>1. CASE Unpark(w)
    <3>1. at[w] = "tmp" /\ held' = [held EXCEPT ![at[w]] = TRUE]
      BY <1>1, <2>1 DEF IInv, Parked, Goto, Unpark
    <3>. QED
      BY <3>1 DEF IInv, Types
  <2>2. CASE Park(w)
    BY <2>2 DEF IInv, Types, Park
  <2>. QED
    BY <2>1, <2>2, Zenon DEF StartLookup, StartInsert, ReadIndex, Finish
<1>6. pc'[w] \in {"park", "unpark"} => at'[w] = "tmp"
  BY <1>1 DEF IInv, Types, Goto,
              StartLookup, StartInsert, ReadIndex, Park, Unpark, Finish
<1>7. InMain(w)' <=> InMain(w)
  BY <1>1 DEF IInv, Types, Goto, InMain, InsidePcs,
              StartLookup, StartInsert, ReadIndex, Park, Unpark, Finish
<1>8. KeepsMutex(w)
  BY <1>4, <1>5 DEF KeepsMutex
<1>. QED
  BY <1>1, <1>2, <1>3, <1>6, <1>7, <1>8, PlainStep

\* ... those of the handler ...
LEMMA HandlerStep ==
  ASSUME IInv, Types',
         \/ KillServer \/ KillServerFails \/ CloseIndex \/ ClearIndex \/ OpenLock
         \/ OpenFails \/ InitServer
         \/ \E t \in Handlers, s \in {"USR", "TERM"} : Deliver(t, s)
  PROVE  IInv'
<1> USE DEF Goto, KillServer, KillServerFails, CloseIndex, ClearIndex, OpenLock,
            OpenFails, InitServer, Deliver
<1>1. SIG \in Actors
  BY DEF Actors
<1>2. \A b \in Actors \ {SIG} : Still(b)
  BY <1>1 DEF Still, IInv, Types
<1>3. nb' = nb /\ pc'[SIG] \notin {"asleep", "park", "unpark"}
  BY <1>1 DEF IInv, Types
<1>4. KeepsMutex(SIG)
  BY <1>1 DEF IInv, Types, Index, KeepsMutex, Owns, OwnerPcs, CriticalPcs
<1>5. InMain(SIG)' <=> InMain(SIG)
  BY <1>1 DEF IInv, Types, InMain, InsidePcs
<1>. QED
  BY <1>1, <1>2, <1>3, <1>4, <1>5, PlainStep

\* ... and the opening of an index, which wakes a sleeper.
LEMMA OpenIndexStep ==
  ASSUME IInv, Types', OpenIndex
  PROVE  IInv'
<1>1. SIG \in Actors /\ at[SIG] \in Index /\ pc[SIG] = "opening"
  BY DEF Actors, OpenIndex, IInv, Types
<1>2. PICK p \in {"open", "init_server"} :
        p = IF at[SIG] = "main" THEN "open" ELSE "init_server"
  OBVIOUS
<1>3. pc'[SIG] = p /\ \A b \in Actors \ {SIG} : Still(b)
  <2>1. pc' \in Signalled(at[SIG], [pc EXCEPT ![SIG] = p])
    BY <1>2 DEF OpenIndex
  <2>2. \A b \in Actors \ {SIG} : at'[b] = at[b]
    BY DEF OpenIndex, IInv, Types
  <2>. QED
    BY <1>1, <2>1, <2>2, SignalledMoves DEF Still, IInv
<1>4. KeepsMutex(SIG)
  BY <1>1, <1>2, <1>3 DEF KeepsMutex, Owns, OwnerPcs, CriticalPcs, OpenIndex, IInv, Types, Index
<1>5. ~InMain(SIG) /\ ~InMain(SIG)' /\ nb' = nb
  BY <1>1, <1>2, <1>3 DEF InMain, InsidePcs, OpenIndex
<1>. QED
  BY <1>1, <1>2, <1>3, <1>4, <1>5, PlainStep

\* The initial states satisfy the invariant.
LEMMA IInvInit == Init => IInv
<1> SUFFICES ASSUME Init PROVE IInv
  OBVIOUS
<1> USE GateAssumption DEF Init, Actors
<1>1. Types
  <2>1. 0 \in 0 .. MaxSignals /\ 0 \in 0 .. MaxSignals + 1 /\ 1 \in 0 .. MaxSignals + 1
    OBVIOUS
  <2>2. /\ pc \in [Actors -> WorkerPcs \cup HandlerPcs]
        /\ \A w \in Workers : pc[w] \in WorkerPcs
        /\ pc[SIG] \in HandlerPcs
    BY DEF WorkerPcs, HandlerPcs
  <2>3. /\ at \in [Actors -> Index] /\ nb \in [Index -> Int]
        /\ held \in [Index -> BOOLEAN]
    BY DEF Index
  <2>4. /\ handle \in [Index -> 0 .. MaxSignals + 1]
        /\ mapped \in [Index -> 0 .. MaxSignals + 1]
        /\ ptr \in [Workers -> 0 .. MaxSignals + 1]
    BY <2>1 DEF Null
  <2>. QED
    BY <2>1, <2>2, <2>3, <2>4 DEF Types, NoHost
<1>2. \A a \in Actors : pc[a] \in {"none", "idle"}
  OBVIOUS
<1>3. Inside("main") = {}
  BY <1>2 DEF Inside, InsidePcs
<1>4. CountIsExact
  BY <1>3, FS_EmptySet DEF CountIsExact, Index
<1>. QED
  BY <1>1, <1>2, <1>4
     DEF IInv, Mutex, Owns, OwnerPcs, CriticalPcs, Parked, LookupsNeverWait, Sleeper

\* Every step keeps the invariant.
LEMMA IInvStep == IInv /\ [Next]_vars => IInv'
<1> SUFFICES ASSUME IInv, [Next]_vars PROVE IInv'
  OBVIOUS
<1>1. Types'
  BY TypesStep DEF IInv
<1>2. ASSUME NEW a \in Actors, Gate(a) PROVE IInv'
  BY <1>1, <1>2, LockStep, SleepStep, EnterStep DEF Gate
<1>3. ASSUME NEW w \in Workers, Worker(w) PROVE IInv'
  <2>1. w \in Actors
    BY DEF Actors
  <2>2. CASE Done(w)
    BY <1>1, <2>1, <2>2, PostStep DEF Done
  <2>. QED
    BY <1>1, <1>2, <1>3, <2>1, <2>2, WorkerStep DEF Worker
<1>4. CASE Handler
  <2>1. SIG \in Actors
    BY DEF Actors
  <2>2. CASE NextIndex \/ Reopen \/ KillIndexEnds
    <3>1. PICK p \in {"gate", "open", "none"} : Post(SIG, p)
      BY <2>2 DEF NextIndex, Reopen, KillIndexEnds
    <3>2. \A b \in Actors \ {SIG} : at'[b] = at[b]
      BY <2>2 DEF NextIndex, Reopen, KillIndexEnds, IInv, Types
    <3>. QED
      BY <1>1, <2>1, <3>1, <3>2, PostStep
  <2>. QED
    BY <1>1, <1>2, <1>4, <2>1, <2>2, HandlerStep, OpenIndexStep DEF Handler
<1>5. CASE \E t \in Handlers, s \in {"USR", "TERM"} : Deliver(t, s)
  BY <1>1, <1>5, HandlerStep
<1>6. CASE Quiesce \/ UNCHANGED vars
  <2>1. UNCHANGED <<pc, at, nb, held>>
    BY <1>6 DEF Quiesce, vars
  <2>2. \A a \in Actors : (Owns(a)' <=> Owns(a)) /\ (InMain(a)' <=> InMain(a))
    BY <2>1 DEF Owns, InMain
  <2>3. Inside("main")' = Inside("main")
    BY <2>1 DEF Inside
  <2>. QED
    BY <1>1, <2>1, <2>2, <2>3
       DEF IInv, Mutex, Parked, CountIsExact, LookupsNeverWait, Sleeper
<1>. QED
  BY <1>3, <1>4, <1>5, <1>6 DEF Next

\* The inductive invariant holds in every reachable state of the gates.
THEOREM Invariance == Spec => []IInv
<1>. QED
  BY IInvInit, IInvStep, PTL DEF Spec

-----------------------------------------------------------------------------
\* Every variable keeps its range, the count of the main index included.
THEOREM TypeCorrect == Spec => []TypeOK
<1>1. IInv => TypeOK
  BY InsideFinite DEF IInv, Types, TypeOK, CountIsExact
<1>. QED
  BY <1>1, Invariance, PTL

\* For any number of workers the counter of the main index is the number of
\* threads between waitfor_main_index and post_main_index.
THEOREM CountCorrect == Spec => []CountIsExact
<1>1. IInv => CountIsExact
  BY DEF IInv
<1>. QED
  BY <1>1, Invariance, PTL

\* No lookup is ever put to sleep by the gate, whatever the handler does.
THEOREM NoLookupSleeps == Spec => []LookupsNeverWait
<1>1. IInv => LookupsNeverWait
  BY DEF IInv
<1>. QED
  BY <1>1, Invariance, PTL

\* While kill_index sleeps, a lookup that will signal it is inside.
THEOREM NoLostWakeup == Spec => []SleeperWillBeWoken
<1>1. IInv => SleeperWillBeWoken
  BY DEF IInv, Sleeper, SleeperWillBeWoken, Inside, InsidePcs, Actors
<1>. QED
  BY <1>1, Invariance, PTL

\* kill_index gets in only when nobody else is inside.
THEOREM EntersAlone == Spec => HandlerEntersAlone
<1> DEFINE Step == pc[SIG] = "test" /\ pc'[SIG] = "in" /\ at[SIG] = "main"
                     => Inside("main") = {}
<1>1. IInv /\ [Next]_vars => [Step]_vars
  <2> SUFFICES ASSUME IInv, [Next]_vars, pc[SIG] = "test", pc'[SIG] = "in", at[SIG] = "main"
               PROVE  Inside("main") = {}
    OBVIOUS
  <2>0. SIG \in Actors /\ \A w \in Workers : w \in Actors /\ w # SIG
    BY GateAssumption DEF Actors
  <2>1. CASE Enter(SIG)
    <3>1. nb["main"] <= 0
      BY <2>1 DEF Enter, Bound
    <3>2. Cardinality(Inside("main")) = 0
      BY <3>1, InsideFinite DEF IInv, CountIsExact
    <3>. QED
      BY <3>2, InsideFinite, FS_EmptySet
  <2>2. ASSUME NEW w \in Workers, Worker(w) PROVE FALSE
    <3>1. CASE Done(w)
      <4>1. w \in Actors /\ at[w] \in Index /\ pc[w] = "drop"
        BY <2>0, <3>1 DEF Done, Post, IInv, Types
      <4>2. pc'[SIG] # "in"
        BY <2>0, <3>1, <4>1, SignalledMoves DEF Done, Post, IInv
      <4>. QED
        BY <4>2
    <3>2. CASE Gate(w)
      BY <2>0, <3>2 DEF Gate, Lock, Enter, Sleep, PostLock, Goto, IInv, Types
    <3>3. CASE StartLookup(w) \/ StartInsert(w) \/ ReadIndex(w) \/ Park(w) \/ Unpark(w)
                 \/ Finish(w)
      BY <2>0, <3>3 DEF StartLookup, StartInsert, ReadIndex, Park, Unpark, Finish, Goto,
                        IInv, Types
    <3>. QED
      BY <2>2, <3>1, <3>2, <3>3 DEF Worker
  <2>3. CASE Handler
    BY <2>1, <2>3
       DEF Handler, Gate, Lock, Sleep, PostLock, Goto, KillServer, KillServerFails,
           CloseIndex, ClearIndex, NextIndex, Reopen, KillIndexEnds, Post, OpenLock,
           OpenIndex, OpenFails, InitServer, IInv, Types
  <2>4. CASE \E t \in Handlers, s \in {"USR", "TERM"} : Deliver(t, s)
    BY <2>4 DEF Deliver, Goto
  <2>5. CASE Quiesce \/ UNCHANGED vars
    BY <2>5 DEF Quiesce, vars
  <2>. QED
    BY <2>2, <2>3, <2>4, <2>5 DEF Next
<1>. QED
  BY <1>1, Invariance, PTL DEF Spec, HandlerEntersAlone

-----------------------------------------------------------------------------
\* The main index is NULL and no handler is where it could open it again: one that
\* runs is still at the gate of the main index, or has failed there.
Down ==
  /\ handle["main"] = Null
  /\ \/ pc[SIG] \in {"none", "kill_server"}
     \/ at[SIG] = "main" /\ pc[SIG] \in {"gate", "test", "asleep", "in", "closed"}
     \/ at[SIG] = "main" /\ pc[SIG] \in {"post", "drop"} /\ failed

\* No step leaves it: workers only wake the handler up, and kill_index fails.
LEMMA DownStays == Types /\ Down /\ [Next]_vars => Down'
<1> SUFFICES ASSUME Types, Down, [Next]_vars PROVE Down'
  OBVIOUS
<1>0. SIG \in Actors /\ \A w \in Workers : w \in Actors /\ w # SIG
  BY GateAssumption DEF Actors
<1>1. ASSUME NEW w \in Workers, Worker(w) PROVE Down'
  <2>1. UNCHANGED <<handle, failed>> /\ at'[SIG] = at[SIG]
    BY <1>0, <1>1 DEF Worker, Gate, Lock, Enter, Sleep, PostLock, StartLookup, StartInsert,
                      ReadIndex, Park, Unpark, Finish, Done, Types
  <2>2. pc'[SIG] = pc[SIG] \/ (pc[SIG] = "asleep" /\ pc'[SIG] = "gate")
    <3>1. CASE Done(w)
      <4>1. /\ at[w] \in Index /\ pc[w] = "drop"
            /\ pc' \in Signalled(at[w], [pc EXCEPT ![w] = "idle"])
        BY <1>0, <3>1 DEF Done, Post, Types
      <4>2. pc[SIG] # "park"
        BY DEF Types, HandlerPcs
      <4>. QED
        BY <1>0, <4>1, <4>2, SignalledMoves
    <3>2. CASE Gate(w)
      BY <1>0, <3>2 DEF Gate, Lock, Enter, Sleep, PostLock, Goto, Types
    <3>3. CASE StartLookup(w) \/ StartInsert(w) \/ ReadIndex(w) \/ Park(w) \/ Unpark(w)
                 \/ Finish(w)
      BY <1>0, <3>3 DEF StartLookup, StartInsert, ReadIndex, Park, Unpark, Finish, Goto, Types
    <3>. QED
      BY <1>1, <3>1, <3>2, <3>3 DEF Worker
  <2>. QED
    BY <2>1, <2>2 DEF Down
<1>2. CASE Handler
  <2> USE <1>0 DEF Down, Types, Goto, Index
  <2>1. CASE Gate(SIG)
    BY <2>1 DEF Gate, Lock, Enter, Sleep, PostLock
  <2>2. CASE KillServer \/ KillServerFails \/ CloseIndex
    BY <2>2 DEF KillServer, KillServerFails, CloseIndex
  <2>3. CASE ClearIndex
    BY <2>3 DEF ClearIndex
  <2>4. CASE NextIndex \/ Reopen \/ OpenLock \/ OpenIndex \/ OpenFails \/ InitServer
    BY <2>4 DEF NextIndex, Reopen, Post, OpenLock, OpenIndex, OpenFails, InitServer
  <2>5. CASE KillIndexEnds
    <3>1. pc[SIG] = "drop" /\ at[SIG] \in Index
          /\ pc' \in Signalled(at[SIG], [pc EXCEPT ![SIG] = "none"])
      BY <2>5 DEF KillIndexEnds, Post
    <3>. HIDE DEF Types, Index
    <3>2. pc'[SIG] = "none"
      <4> DEFINE p == [pc EXCEPT ![SIG] = "none"]
      <4>1. p[SIG] = "none" /\ p \in [Actors -> WorkerPcs \cup HandlerPcs]
        BY <1>0 DEF Types, HandlerPcs
      <4>2. SIG \notin Waiters(at[SIG])
        BY <3>1 DEF Waiters
      <4>. HIDE DEF p
      <4>3. pc' = p \/ \E v \in Waiters(at[SIG]) : pc' = [p EXCEPT ![v] = Resume(v)]
        BY <3>1 DEF Signalled, p
      <4>. QED
        BY <1>0, <4>1, <4>2, <4>3
    <3>. QED
      BY <2>5, <3>2 DEF KillIndexEnds
  <2>. QED
    BY <1>2, <2>1, <2>2, <2>3, <2>4, <2>5 DEF Handler
<1>3. CASE \E t \in Handlers, s \in {"USR", "TERM"} : Deliver(t, s)
  BY <1>0, <1>3 DEF Down, Types, Deliver, Goto
<1>4. CASE Quiesce \/ UNCHANGED vars
  BY <1>4 DEF Down, Quiesce, vars
<1>. QED
  BY <1>1, <1>2, <1>3, <1>4 DEF Next

\* A main index that is NULL between two signals is NULL for good.
THEOREM StaysDown == Spec => DownForGood
<1>1. pc[SIG] = "none" /\ handle["main"] = Null => Down
  BY DEF Down
<1>2. IInv /\ Down /\ [Next]_vars => Down'
  BY DownStays DEF IInv
<1>3. Down => handle["main"] = Null
  BY DEF Down
<1>. QED
  BY <1>1, <1>2, <1>3, Invariance, PTL DEF Spec, DownForGood
=============================================================================
