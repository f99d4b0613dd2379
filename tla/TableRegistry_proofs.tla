------------------------ MODULE TableRegistry_proofs ------------------------
(***************************************************************************)
(* Proofs about TableRegistry for any number of servers, numbers and       *)
(* submissions and any of the faults.                                      *)
(***************************************************************************)
EXTENDS TableRegistry, FiniteSetTheorems, TLAPS

\* What table_listener does with a request, whoever sent it.
LEMMA ServeTypes ==
  ASSUME TypeOK, NEW r \in Requests, NEW n \in Number, Serve(r, n)
  PROVE  /\ skt' \in [Servers -> Requests \cup Answers \cup {Silence}]
         /\ late' \in [Requests -> Nat]
<1>1. Answer(n) \in Answers
  BY DEF Answer, Answers
<1>. QED
  BY <1>1 DEF Serve, TypeOK

\* The messages are messages.
LEMMA MessageTypes ==
  /\ InitMsg \in Requests
  /\ \A n \in Number : KillMsg(n) \in Requests /\ Answer(n) \in Answers
  BY DEF InitMsg, KillMsg, Answer, Requests, Answers

\* A number is a number, and there are finitely many.
LEMMA TableTypes ==
  /\ Table \subseteq Number /\ NoTable \in Number /\ 0 \in Number
  /\ IsFiniteSet(Table)
<1>1. IsFiniteSet(Table)
  BY FS_Interval, RegistryAssumption DEF Table
<1>. QED
  BY <1>1, RegistryAssumption DEF Table, Number, NoTable

\* Giving up turns a request without an answer into a late one.
LEMMA GiveUpTypes ==
  ASSUME TypeOK, NEW s \in Servers, GiveUp(s)
  PROVE  late' \in [Requests -> Nat]
  BY DEF GiveUp, TypeOK

\* What kill_server sends and forgets has the right types ...
LEMMA KillServerTypes ==
  ASSUME TypeOK, NEW s \in Servers, KillServer(s)
  PROVE  /\ skt' \in [Servers -> Requests \cup Answers \cup {Silence}]
         /\ number' \in [Servers -> Number]
<1>1. number[s] \in Number
  BY DEF TypeOK
<1>. QED
  BY <1>1, MessageTypes, TableTypes DEF KillServer, TypeOK

\* ... and so has what the end of a process leaves.
LEMMA ExitTypes ==
  ASSUME TypeOK, NEW s \in Servers, Exit(s)
  PROVE  /\ phase' \in [Servers -> Phases] /\ number' \in [Servers -> Number]
         /\ inbox' \in [Servers -> SUBSET Submissions]
  BY TableTypes DEF Exit, TypeOK, Phases

\* Every step keeps the types.
LEMMA TypesStep == TypeOK /\ [Next]_vars => TypeOK'
<1> SUFFICES ASSUME TypeOK, [Next]_vars PROVE TypeOK'
  OBVIOUS
<1> USE RegistryAssumption
<1>1. CASE HandleInit
  <2>1. PICK n \in Number : Serve(InitMsg, n)
    BY <1>1, TableTypes DEF HandleInit
  <2>2. /\ skt' \in [Servers -> Requests \cup Answers \cup {Silence}]
        /\ late' \in [Requests -> Nat]
    BY <2>1, ServeTypes, MessageTypes
  <2>3. tables' \in [Table -> BOOLEAN] /\ nb_tables' \in Int
    <3>1. CASE UNCHANGED main
      BY <3>1 DEF main, TypeOK
    <3>2. CASE /\ \E m \in Table : tables' = [tables EXCEPT ![m] = TRUE]
               /\ nb_tables' = nb_tables + 1
      BY <3>2 DEF TypeOK
    <3>. QED
      BY <1>1, <3>1, <3>2, Zenon DEF HandleInit
  <2>. QED
    BY <1>1, <2>2, <2>3 DEF HandleInit, TypeOK, server, subs
<1>2. CASE HandleKill
  <2>1. PICK n \in Number : Serve(KillMsg(n), n) /\ tables' = [m \in Table |-> m # n /\ tables[m]]
    BY <1>2 DEF HandleKill
  <2>2. /\ skt' \in [Servers -> Requests \cup Answers \cup {Silence}]
        /\ late' \in [Requests -> Nat]
    BY <2>1, ServeTypes, MessageTypes
  <2>3. tables' \in [Table -> BOOLEAN] /\ nb_tables' \in Int
    <3>1. tables' \in [Table -> BOOLEAN]
      BY <2>1, Zenon
    <3>2. nb_tables' \in Int
      BY <1>2 DEF HandleKill, TypeOK
    <3>. QED
      BY <3>1, <3>2
  <2>. QED
    BY <1>2, <2>2, <2>3 DEF HandleKill, TypeOK, server, subs
<1>3. ASSUME NEW x \in Submissions, Selection(x) PROVE TypeOK'
  <2> USE DEF TypeOK, main, server
  <2>1. CASE BeginSelect(x)
    BY <2>1, TableTypes DEF BeginSelect
  <2>2. CASE Pick(x)
    BY <2>2, TableTypes DEF Pick, Active
  <2>3. CASE Forward(x)
    <3>1. inbox' \in [Servers -> SUBSET Submissions]
      BY <2>3 DEF Forward
    <3>. QED
      BY <2>3, <3>1 DEF Forward
  <2>. QED
    BY <1>3, <2>1, <2>2, <2>3 DEF Selection
<1>4. ASSUME NEW s \in Servers,
             Start(s) \/ Signal(s) \/ EarlyTerm(s) \/ Progress(s)
               \/ InitTimesOut(s) \/ KillTimesOut(s) \/ ReindexFails(s) \/ Crash(s)
      PROVE  TypeOK'
  <2> USE DEF TypeOK, main, server, subs, Phases
  <2>1. CASE Start(s)
    BY <2>1, MessageTypes DEF Start
  <2>2. CASE Signal(s)
    BY <2>2, KillServerTypes DEF Signal
  <2>3. CASE EarlyTerm(s)
    BY <2>3, KillServerTypes, GiveUpTypes DEF EarlyTerm
  <2>4. CASE InitAnswered(s)
    BY <2>4, TableTypes DEF InitAnswered, Answers
  <2>5. CASE KillAnswered(s)
    BY <2>5, ExitTypes DEF KillAnswered
  <2>6. CASE Reindex(s)
    BY <2>6, MessageTypes DEF Reindex
  <2>7. CASE InitTimesOut(s)
    BY <2>7, ExitTypes, GiveUpTypes, TableTypes DEF InitTimesOut
  <2>8. CASE KillTimesOut(s)
    BY <2>8, ExitTypes, GiveUpTypes DEF KillTimesOut
  <2>9. CASE ReindexFails(s)
    BY <2>9 DEF ReindexFails
  <2>10. CASE Crash(s)
    BY <2>10, ExitTypes, GiveUpTypes DEF Crash
  <2>. QED
    BY <1>4, <2>1, <2>2, <2>3, <2>4, <2>5, <2>6, <2>7, <2>8, <2>9, <2>10 DEF Progress
<1>5. ASSUME NEW s \in Servers, NEW x \in Submissions, Insert(s, x) PROVE TypeOK'
  BY <1>5 DEF Insert, TypeOK, main, server
<1>6. CASE Restart
  <2>1. tables' \in [Table -> BOOLEAN] /\ nb_tables' \in Int
    BY <1>6 DEF Restart
  <2>2. /\ skt' \in [Servers -> Requests \cup Answers \cup {Silence}]
        /\ late' \in [Requests -> Nat]
        /\ step' \in [Submissions -> {"new", "picking", "picked", "sent", "lost"}]
    BY <1>6 DEF Restart, TypeOK
  <2>. QED
    BY <1>6, <2>1, <2>2 DEF Restart, TypeOK, server
<1>7. CASE UNCHANGED vars
  BY <1>7 DEF vars, TypeOK, main, server, subs
<1>. QED
  BY <1>1, <1>2, <1>3, <1>4, <1>5, <1>6, <1>7 DEF Next, Listener

\* Every variable keeps its range.
THEOREM TypeCorrect == Spec => []TypeOK
<1>1. Init => TypeOK
  BY RegistryAssumption, TableTypes DEF Init, TypeOK, Phases
<1>. QED
  BY <1>1, TypesStep, PTL DEF Spec

-----------------------------------------------------------------------------
\* A KILL frees at most the one number it names and always counts down; an INIT
\* that counts up takes a number that was free.
LEMMA NoPhantomStep == TypeOK /\ NoPhantomTables /\ [Next]_vars => NoPhantomTables'
<1> SUFFICES ASSUME TypeOK, NoPhantomTables, [Next]_vars PROVE NoPhantomTables'
  OBVIOUS
<1>1. IsFiniteSet(Active) /\ Cardinality(Active) \in Nat
  BY TableTypes, FS_Subset, FS_CardinalityType DEF Active
<1>2. ASSUME NEW n \in Table, FirstFree(n), tables' = [tables EXCEPT ![n] = TRUE],
             nb_tables' = nb_tables + 1
      PROVE  NoPhantomTables'
  <2>1. Active' = Active \cup {n} /\ n \notin Active
    BY <1>2 DEF Active, FirstFree, TypeOK
  <2>2. Cardinality(Active') = Cardinality(Active) + 1
    BY <1>1, <2>1, FS_AddElement
  <2>. QED
    BY <1>1, <1>2, <2>2 DEF NoPhantomTables, TypeOK
<1>3. CASE HandleKill
  <2>1. PICK n \in Number : tables' = [m \in Table |-> m # n /\ tables[m]]
    BY <1>3 DEF HandleKill
  <2>2. Active' = Active \ {n}
    BY <2>1 DEF Active
  <2>3. Cardinality(Active') >= Cardinality(Active) - 1 /\ Cardinality(Active') \in Nat
    <3>1. CASE n \in Active
      <4>1. Cardinality(Active \ {n}) = Cardinality(Active) - 1 /\ IsFiniteSet(Active \ {n})
        BY <1>1, <3>1, FS_RemoveElement
      <4>. QED
        BY <1>1, <2>2, <4>1, FS_CardinalityType
    <3>2. CASE n \notin Active
      <4>1. Active' = Active
        BY <2>2, <3>2
      <4>. QED
        BY <1>1, <4>1
    <3>. QED
      BY <3>1, <3>2
  <2>. QED
    BY <1>1, <1>3, <2>3 DEF HandleKill, NoPhantomTables, TypeOK
<1>4. CASE UNCHANGED main
  BY <1>4 DEF main, NoPhantomTables, Active
<1>5. CASE Restart
  <2>1. Active' = {}
    BY <1>5 DEF Restart, Active
  <2>. QED
    BY <1>5, <2>1, FS_EmptySet DEF Restart, NoPhantomTables
<1>6. HandleInit \/ HandleKill \/ Restart \/ UNCHANGED main
  BY DEF Next, Listener, Selection, BeginSelect, Pick, Forward, Progress, Start, Signal,
         EarlyTerm, InitAnswered, KillAnswered, Reindex, InitTimesOut, KillTimesOut,
         ReindexFails, Crash, Insert, vars
<1>. QED
  BY <1>2, <1>3, <1>4, <1>5, <1>6 DEF HandleInit

\* Whatever requests are lost, late or repeated, nb_tables is never more than the
\* number of taken table numbers, so a select_table that reads nb_tables > 0 has
\* a number to draw at that moment.
THEOREM NoPhantomTablesEver == Spec => []NoPhantomTables
<1>1. Init => NoPhantomTables
  <2> SUFFICES ASSUME Init PROVE NoPhantomTables
    OBVIOUS
  <2>1. Active = {}
    BY DEF Init, Active
  <2>. QED
    BY <2>1, FS_EmptySet DEF Init, NoPhantomTables
<1>. QED
  BY <1>1, NoPhantomStep, TypeCorrect, PTL DEF Spec

-----------------------------------------------------------------------------
(* With nothing lost and a number for every server.                        *)

NothingLost == Faults = {} /\ Cardinality(Servers) <= MaxTables

\* Server s has number n: it is being told it, uses it, or is giving it back.
Holds(s, n) ==
  \/ phase[s] = "running" /\ number[s] = n
  \/ phase[s] \in {"starting", "reiniting"} /\ skt[s] = Answer(n)
  \/ phase[s] \in {"killing", "stopping"} /\ skt[s] = KillMsg(n)

\* Nobody gave up a request, and a server's socket holds what its phase asks for.
Conversing ==
  /\ \A r \in Requests : late[r] = 0
  /\ \A s \in Servers :
       /\ phase[s] \in {"down", "running", "indexing"} => skt[s] = Silence
       /\ phase[s] \in {"starting", "reiniting"} => skt[s] \in Answers \cup {InitMsg}
       /\ phase[s] \in {"killing", "stopping"}
            => skt[s] \in Answers \/ \E n \in Number : skt[s] = KillMsg(n)

\* The taken numbers are those the servers have, one server each.
Owned ==
  /\ \A s \in Servers, n \in Number : Holds(s, n) => n \in Active
  /\ \A n \in Active : \E s \in Servers : Holds(s, n)
  /\ \A s, t \in Servers, n \in Number : Holds(s, n) /\ Holds(t, n) => s = t

ExactInv == TypeOK /\ Conversing /\ Owned /\ nb_tables = Cardinality(Active)

\* A message is of one kind only.
LEMMA MessagesDiffer ==
  /\ \A n, m : KillMsg(n) = KillMsg(m) <=> n = m
  /\ \A n, m : Answer(n) = Answer(m) <=> n = m
  /\ \A n, m : KillMsg(n) # Answer(m)
  /\ \A n : KillMsg(n) # InitMsg /\ Answer(n) # InitMsg
  /\ \A n : KillMsg(n) # Silence /\ Answer(n) # Silence
  /\ InitMsg # Silence /\ Silence \notin Answers /\ InitMsg \notin Answers
  /\ \A n : KillMsg(n) \notin Answers
  /\ \A a \in Answers : a = Answer(a.n) /\ a.n \in Number
  BY DEF KillMsg, Answer, InitMsg, Silence, Answers

\* A server that holds nothing leaves a number free: INIT is never refused.
LEMMA RoomForOne ==
  ASSUME ExactInv, NothingLost, NEW s \in Servers, \A n \in Number : ~Holds(s, n)
  PROVE  Active # Table
<1> SUFFICES ASSUME Active = Table PROVE FALSE
  OBVIOUS
<1> DEFINE Others == Servers \ {s}
           owner  == [n \in Table |-> CHOOSE t \in Servers : Holds(t, n)]
<1>1. \A n \in Table : owner[n] \in Others /\ Holds(owner[n], n)
  BY TableTypes DEF ExactInv, Owned
<1>2. \A n, m \in Table : Holds(owner[n], m) => n = m
  <2>1. \A t \in Servers, n, m \in Number : Holds(t, n) /\ Holds(t, m) => n = m
    BY MessagesDiffer DEF Holds
  <2>. QED
    BY <1>1, <2>1, TableTypes
<1>3. owner \in Injection(Table, Others)
  <2>1. owner \in [Table -> Others]
    BY <1>1
  <2>2. \A n, m \in Table : owner[n] = owner[m] => n = m
    BY <1>1, <1>2
  <2>. HIDE DEF owner, Others
  <2>. QED
    BY <2>1, <2>2 DEF Injection, IsInjective
<1>4. IsFiniteSet(Others) /\ Cardinality(Others) = Cardinality(Servers) - 1
  BY RegistryAssumption, FS_RemoveElement
<1>5. Cardinality(Table) = MaxTables
  <2>1. Cardinality(0 .. MaxTables - 1) = (MaxTables - 1) - 0 + 1
    BY FS_Interval, RegistryAssumption
  <2>. QED
    BY <2>1, RegistryAssumption DEF Table
<1>. HIDE DEF owner, Others
<1>6. Cardinality(Table) <= Cardinality(Others)
  BY <1>3, <1>4, FS_Injection
<1>7. Cardinality(Servers) \in Nat
  BY RegistryAssumption, FS_CardinalityType
<1>. QED
  BY <1>4, <1>5, <1>6, <1>7, RegistryAssumption DEF NothingLost

\* INIT gives the server the number it takes ...
LEMMA InitGives ==
  ASSUME ExactInv, NothingLost, HandleInit
  PROVE  Conversing' /\ Owned' /\ nb_tables' = Cardinality(Active')
<1>1. late[InitMsg] = 0
  BY MessageTypes DEF ExactInv, Conversing
<1>2. PICK n \in Number : Serve(InitMsg, n) /\ (Active = Table \/ n \in Table)
  BY TableTypes DEF HandleInit
<1>3. PICK s \in Servers : skt[s] = InitMsg
  BY <1>1, <1>2 DEF Serve
<1>4. phase[s] \in {"starting", "reiniting"}
  BY <1>3, MessagesDiffer DEF ExactInv, Conversing, TypeOK, Phases
<1>5. Active # Table
  <2>1. \A m \in Number : ~Holds(s, m)
    BY <1>3, <1>4, MessagesDiffer DEF Holds
  <2>. QED
    BY <2>1, RoomForOne
<1>6. PICK m \in Table : /\ FirstFree(m) /\ Serve(InitMsg, m)
                         /\ tables' = [tables EXCEPT ![m] = TRUE] /\ nb_tables' = nb_tables + 1
  BY <1>5 DEF HandleInit
<1>7. PICK t \in Servers : /\ skt[t] = InitMsg /\ skt' = [skt EXCEPT ![t] = Answer(m)]
                           /\ UNCHANGED late
  BY <1>1, <1>6 DEF Serve
<1>8. phase[t] \in {"starting", "reiniting"}
  BY <1>7, MessagesDiffer DEF ExactInv, Conversing, TypeOK, Phases
<1>9. UNCHANGED <<phase, number>>
  BY DEF HandleInit, server
<1>10. m \notin Active /\ Active' = Active \cup {m} /\ m \in Number
  BY <1>6, TableTypes DEF Active, FirstFree, ExactInv, TypeOK
<1>11. \A u \in Servers, k \in Number :
         Holds(u, k)' <=> (IF u = t THEN k = m ELSE Holds(u, k))
  BY <1>7, <1>8, <1>9, MessagesDiffer DEF Holds, ExactInv, TypeOK
<1>12. Conversing'
  BY <1>7, <1>8, <1>9, <1>10, MessageTypes DEF ExactInv, Conversing, TypeOK
<1>13. Owned'
  <2>1. \A u \in Servers, k \in Number : Holds(u, k)' => k \in Active'
    BY <1>10, <1>11 DEF ExactInv, Owned
  <2>2. ASSUME NEW k \in Active' PROVE \E u \in Servers : Holds(u, k)'
    <3>1. CASE k = m
      BY <1>10, <1>11, <3>1
    <3>2. CASE k # m
      <4>1. PICK u \in Servers : Holds(u, k)
        BY <1>10, <3>2 DEF ExactInv, Owned
      <4>2. ~Holds(t, k)
        BY <1>7, <1>8, MessagesDiffer DEF Holds
      <4>3. k \in Number
        BY <1>10, <3>2, TableTypes DEF Active
      <4>. QED
        BY <1>11, <4>1, <4>2, <4>3
    <3>. QED
      BY <3>1, <3>2
  <2>3. \A u, v \in Servers, k \in Number : Holds(u, k)' /\ Holds(v, k)' => u = v
    BY <1>10, <1>11 DEF ExactInv, Owned
  <2>. QED
    BY <2>1, <2>2, <2>3 DEF Owned
<1>14. Cardinality(Active') = Cardinality(Active) + 1
  <2>1. IsFiniteSet(Active)
    BY TableTypes, FS_Subset DEF Active
  <2>. QED
    BY <1>10, <2>1, FS_AddElement
<1>. QED
  BY <1>6, <1>12, <1>13, <1>14 DEF ExactInv

\* ... and KILL takes it back from the one server that has it.
LEMMA KillTakes ==
  ASSUME ExactInv, NothingLost, HandleKill
  PROVE  /\ Conversing' /\ Owned' /\ nb_tables' = Cardinality(Active')
         /\ \A s \in Servers : phase[s] = "running" /\ number[s] \in Active
              => number[s] \in Active'
<1>1. PICK n \in Number : /\ Serve(KillMsg(n), n)
                          /\ tables' = [m \in Table |-> m # n /\ tables[m]]
                          /\ nb_tables' = nb_tables - 1
  BY DEF HandleKill
<1>2. late[KillMsg(n)] = 0
  BY MessageTypes DEF ExactInv, Conversing
<1>3. PICK t \in Servers : /\ skt[t] = KillMsg(n) /\ skt' = [skt EXCEPT ![t] = Answer(n)]
                           /\ UNCHANGED late
  BY <1>1, <1>2 DEF Serve
<1>4. phase[t] \in {"killing", "stopping"}
  BY <1>3, MessagesDiffer DEF ExactInv, Conversing, TypeOK, Phases
<1>5. UNCHANGED <<phase, number>>
  BY DEF HandleKill, server
<1>6. Holds(t, n) /\ n \in Active
  BY <1>3, <1>4 DEF Holds, ExactInv, Owned
<1>7. Active' = Active \ {n}
  BY <1>1 DEF Active
<1>8. \A u \in Servers, k \in Number : Holds(u, k)' <=> (u # t /\ Holds(u, k))
  BY <1>3, <1>4, <1>5, MessagesDiffer DEF Holds, ExactInv, TypeOK
<1>9. Conversing'
  BY <1>3, <1>4, <1>5, MessageTypes DEF ExactInv, Conversing, TypeOK
<1>10. Owned'
  <2>1. \A k : Holds(t, k) => k = n
    BY <1>3, <1>4, MessagesDiffer DEF Holds
  <2>2. Active \subseteq Number
    BY TableTypes DEF Active
  <2>. QED
    BY <1>6, <1>7, <1>8, <2>1, <2>2 DEF ExactInv, Owned
<1>11. Cardinality(Active') = Cardinality(Active) - 1
  <2>1. IsFiniteSet(Active)
    BY TableTypes, FS_Subset DEF Active
  <2>. QED
    BY <1>6, <1>7, <2>1, FS_RemoveElement
<1>12. ASSUME NEW s \in Servers, phase[s] = "running", number[s] \in Active
       PROVE  number[s] \in Active'
  <2>1. Holds(s, number[s]) /\ s # t
    BY <1>4, <1>12 DEF Holds
  <2>2. number[s] # n
    BY <1>6, <2>1 DEF ExactInv, Owned
  <2>. QED
    BY <1>7, <1>12, <2>2
<1>. QED
  BY <1>1, <1>9, <1>10, <1>11, <1>12 DEF ExactInv

\* What a server does by itself hands its number on within the server.
LEMMA ServersKeepNumbers ==
  ASSUME ExactInv, NothingLost, NEW s \in Servers,
         Start(s) \/ Signal(s) \/ InitAnswered(s) \/ KillAnswered(s) \/ Reindex(s)
  PROVE  /\ Conversing' /\ UNCHANGED main
         /\ \A u \in Servers, n \in Number : Holds(u, n)' <=> Holds(u, n)
<1> USE DEF ExactInv, TypeOK, Conversing, Holds, main
<1>1. CASE Start(s)
  BY <1>1, MessagesDiffer DEF Start
<1>2. CASE Signal(s)
  BY <1>2, MessagesDiffer DEF Signal, KillServer
<1>3. CASE InitAnswered(s)
  BY <1>3, MessagesDiffer DEF InitAnswered
<1>4. CASE KillAnswered(s)
  BY <1>4, MessagesDiffer DEF KillAnswered, Exit
<1>5. CASE Reindex(s)
  BY <1>5, MessagesDiffer DEF Reindex
<1>. QED
  BY <1>1, <1>2, <1>3, <1>4, <1>5

\* Without faults a step is the listener's, a server's or leaves numbers alone.
LEMMA FaultlessSteps ==
  ASSUME NothingLost, [Next]_vars
  PROVE  \/ HandleInit \/ HandleKill
         \/ \E s \in Servers :
              Start(s) \/ Signal(s) \/ InitAnswered(s) \/ KillAnswered(s) \/ Reindex(s)
         \/ UNCHANGED <<tables, nb_tables, skt, late, phase, number>>
  BY DEF NothingLost, Next, Listener, Restart, Selection, BeginSelect, Pick, Forward,
         EarlyTerm, Progress, InitTimesOut, KillTimesOut, ReindexFails, Crash, Insert,
         vars, main, server

\* The invariant is inductive.
LEMMA ExactStep == NothingLost /\ ExactInv /\ [Next]_vars => ExactInv'
<1> SUFFICES ASSUME NothingLost, ExactInv, [Next]_vars PROVE ExactInv'
  OBVIOUS
<1>1. TypeOK'
  BY TypesStep DEF ExactInv
<1>2. CASE HandleInit
  BY <1>1, <1>2, InitGives DEF ExactInv
<1>3. CASE HandleKill
  BY <1>1, <1>3, KillTakes DEF ExactInv
<1>4. ASSUME NEW s \in Servers,
             Start(s) \/ Signal(s) \/ InitAnswered(s) \/ KillAnswered(s) \/ Reindex(s)
      PROVE  ExactInv'
  <2>1. /\ Conversing' /\ UNCHANGED main
        /\ \A u \in Servers, n \in Number : Holds(u, n)' <=> Holds(u, n)
    BY <1>4, ServersKeepNumbers
  <2>2. Active' = Active /\ nb_tables' = nb_tables /\ Active \subseteq Number
    BY <2>1, TableTypes DEF main, Active
  <2>3. Owned'
    BY <2>1, <2>2 DEF ExactInv, Owned
  <2>. QED
    BY <1>1, <2>1, <2>2, <2>3 DEF ExactInv
<1>5. CASE UNCHANGED <<tables, nb_tables, skt, late, phase, number>>
  BY <1>1, <1>5 DEF ExactInv, Conversing, Owned, Holds, Active
<1>. QED
  BY <1>2, <1>3, <1>4, <1>5, FaultlessSteps

LEMMA ExactInit == Init => ExactInv
<1> SUFFICES ASSUME Init PROVE ExactInv
  OBVIOUS
<1>1. Active = {} /\ Cardinality({}) = 0
  BY FS_EmptySet DEF Init, Active
<1>2. TypeOK
  BY RegistryAssumption, TableTypes DEF Init, TypeOK, Phases
<1>3. Conversing /\ Owned
  BY <1>1 DEF Init, Conversing, Owned, Holds
<1>. QED
  BY <1>1, <1>2, <1>3 DEF Init, ExactInv

\* With nothing lost and a number for every server, any number of servers may
\* start, merge and stop in any order, and the registry is the truth about them.
THEOREM RegistryAlwaysExact == NothingLost => (Spec => []RegistryIsExact)
<1> SUFFICES ASSUME NothingLost PROVE Spec => []RegistryIsExact
  OBVIOUS
<1>1. ExactInv => RegistryIsExact
  <2> SUFFICES ASSUME ExactInv PROVE RegistryIsExact
    OBVIOUS
  <2>1. \A s \in Running : s \in Servers /\ number[s] \in Number /\ Holds(s, number[s])
    BY DEF Running, Holds, ExactInv, TypeOK
  <2>. QED
    BY <2>1 DEF RegistryIsExact, ExactInv, Owned
<1>2. ExactInv /\ [Next]_vars => ExactInv'
  BY ExactStep
<1>. QED
  BY <1>1, <1>2, ExactInit, PTL DEF Spec

\* ... and a number is only freed by the server that had it.
THEOREM RunningNumbersStay == NothingLost => (Spec => NumberOfRunningServerStays)
<1> SUFFICES ASSUME NothingLost PROVE Spec => NumberOfRunningServerStays
  OBVIOUS
<1>1. ExactInv /\ [Next]_vars
        => [\A s \in Servers : phase[s] = "running" /\ phase'[s] = "running" /\ number[s] \in Active
              => number[s] \in Active']_vars
  <2> SUFFICES ASSUME ExactInv, [Next]_vars, NEW s \in Servers,
                      phase[s] = "running", number[s] \in Active
               PROVE  number[s] \in Active'
    OBVIOUS
  <2>1. CASE HandleInit
    BY <2>1 DEF HandleInit, Active, main, ExactInv, TypeOK
  <2>2. CASE HandleKill
    BY <2>2, KillTakes
  <2>3. CASE UNCHANGED main
    BY <2>3 DEF main, Active
  <2>. QED
    BY <2>1, <2>2, <2>3, FaultlessSteps, ServersKeepNumbers DEF main
<1>2. ExactInv /\ [Next]_vars => ExactInv'
  BY ExactStep
<1>. QED
  BY <1>1, <1>2, ExactInit, PTL DEF Spec, NumberOfRunningServerStays
=============================================================================
