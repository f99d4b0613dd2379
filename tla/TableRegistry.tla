--------------------------- MODULE TableRegistry ---------------------------
(***************************************************************************)
(* How table servers join and leave the main server, and how a submission  *)
(* is given to one of them (audioscout, servers/auscout.c table_listener,  *)
(* select_table and the submission of handle_request; servers/             *)
(* table_server.c init_server, kill_server, handle_signal).                *)
(*                                                                         *)
(* The main server keeps a flag per table number and a counter of tables;  *)
(* a table server keeps its number in a global that its workers compare    *)
(* with the number in a submission.  What a table server does to its index *)
(* between leaving and joining again is module IndexGate; here it is one   *)
(* step.                                                                   *)
(***************************************************************************)
EXTENDS Integers, FiniteSets

CONSTANTS
  Servers,      \* table servers
  Submissions,  \* what clients submit, one worker of the main server each
  MaxTables,    \* MAX_TABLES: 255 in the code
  Signals,      \* signals operators send: "USR", "TERM"
  Faults,       \* "timeout", "crash", "index", "early", "restart": see the actions
  MaxSignals,   \* bound: signals sent
  MaxStarts     \* bound: table servers started

ASSUME RegistryAssumption ==
  /\ IsFiniteSet(Servers)
  /\ MaxTables \in Nat \ {0}
  /\ Signals \subseteq {"USR", "TERM"}
  /\ Faults \subseteq {"timeout", "crash", "index", "early", "restart"}
  /\ MaxSignals \in Nat /\ MaxStarts \in Nat

Table == 0 .. MaxTables - 1
\* 255 is both 0xff, the answer to an INIT when no number is free, and the
\* (uint8_t)(-1) that select_table's failure becomes.
NoTable == MaxTables
Number  == Table \cup {NoTable}

Requests == [what : {"INIT"}, n : {0}] \cup [what : {"KILL"}, n : Number]
Answers  == [what : {"ANSWER"}, n : Number]
Silence  == [what |-> "none", n |-> 0]
InitMsg    == [what |-> "INIT", n |-> 0]
KillMsg(n) == [what |-> "KILL", n |-> n]
Answer(n)  == [what |-> "ANSWER", n |-> n]

VARIABLES
  tables,     \* tables[]: is the number taken
  nb_tables,  \* the counter
  skt,        \* a server's REQ socket: its request, then the answer to it
  late,       \* how many requests wait whose sender has given up
  phase,      \* where a table server is in main() or handle_signal()
  number,     \* table_number of each table server
  step,       \* how far the main server is with a submission
  table,      \* the number the submission carries
  inbox,      \* submissions published to a server that no worker took yet
  inserted,   \* submissions a server put in its temporary index
  signals,    \* signals sent so far
  starts      \* servers started so far

main   == <<tables, nb_tables>>
server == <<phase, number>>
subs   == <<step, table, inbox, inserted>>
vars   == <<main, skt, late, server, subs, signals, starts>>

Active == {n \in Table : tables[n]}
Phases == {"down", "starting", "running", "killing", "indexing", "reiniting", "stopping"}
\* subscriber() and its workers run, whatever the handler does.
Serving(s) == phase[s] \notin {"down", "starting"}

-----------------------------------------------------------------------------
(* The main server: table_listener.                                        *)

\* The listener takes a request: of a server that waits for the answer, or one
\* whose sender is not there any more.
Serve(r, n) ==
  \/ \E s \in Servers : skt[s] = r /\ skt' = [skt EXCEPT ![s] = Answer(n)] /\ UNCHANGED late
  \/ late[r] > 0 /\ late' = [late EXCEPT ![r] = @ - 1] /\ UNCHANGED skt

\* The number table_listener's search stops at.
FirstFree(n) == ~tables[n] /\ \A m \in Table : m < n => tables[m]

HandleInitKeepsFree ==
  /\ \/ Active = Table /\ Serve(InitMsg, NoTable) /\ UNCHANGED main
     \/ \E n \in Table :
          /\ FirstFree(n) /\ Serve(InitMsg, n)
          /\ nb_tables' = nb_tables + 1 /\ UNCHANGED tables
  /\ UNCHANGED <<server, subs, signals, starts>>

\* INIT: the first number that is free is taken and counted.
HandleInit ==
  /\ \/ Active = Table /\ Serve(InitMsg, NoTable) /\ UNCHANGED main
     \/ \E n \in Table :
          /\ FirstFree(n) /\ Serve(InitMsg, n)
          /\ tables' = [tables EXCEPT ![n] = TRUE] /\ nb_tables' = nb_tables + 1
  /\ UNCHANGED <<server, subs, signals, starts>>

\* KILL: the number is freed and the counter goes down, taken or not.
HandleKill ==
  /\ \E n \in Number :
       /\ Serve(KillMsg(n), n)
       /\ tables' = [m \in Table |-> m # n /\ tables[m]]
       /\ nb_tables' = nb_tables - 1
  /\ UNCHANGED <<server, subs, signals, starts>>

-----------------------------------------------------------------------------
(* The main server: a submission in handle_request, after its metadata was *)
(* stored.                                                                 *)

\* select_table: nb_tables is read without the mutex.
BeginSelect(x) ==
  /\ step[x] = "new"
  /\ IF nb_tables > 0
     THEN step' = [step EXCEPT ![x] = "picking"] /\ UNCHANGED table
     ELSE step' = [step EXCEPT ![x] = "picked"] /\ table' = [table EXCEPT ![x] = NoTable]
  /\ UNCHANGED <<main, skt, late, server, inbox, inserted, signals, starts>>

PickAmongFirst(x) ==
  /\ step[x] = "picking"
  /\ \E n \in Active : n < nb_tables /\ table' = [table EXCEPT ![x] = n]
  /\ step' = [step EXCEPT ![x] = "picked"]
  /\ UNCHANGED <<main, skt, late, server, inbox, inserted, signals, starts>>

\* The loop draws numbers until one is taken.
Pick(x) ==
  /\ step[x] = "picking"
  /\ \E n \in Active : table' = [table EXCEPT ![x] = n]
  /\ step' = [step EXCEPT ![x] = "picked"]
  /\ UNCHANGED <<main, skt, late, server, inbox, inserted, signals, starts>>

\* do_forward publishes it to whoever is subscribed.
Forward(x) ==
  /\ step[x] = "picked"
  /\ step' = [step EXCEPT ![x] = "sent"]
  /\ inbox' = [s \in Servers |-> IF Serving(s) THEN inbox[s] \cup {x} ELSE inbox[s]]
  /\ UNCHANGED <<main, skt, late, server, table, inserted, signals, starts>>

RestartKeepsCounter ==
  /\ "restart" \in Faults
  /\ tables' = [n \in Table |-> FALSE] /\ UNCHANGED nb_tables
  /\ \E unheard \in SUBSET {s \in Servers : skt[s] # Silence} :
       skt' = [s \in Servers |-> IF s \in unheard THEN Silence ELSE skt[s]]
  /\ \E unheard \in SUBSET {r \in Requests : late[r] > 0} :
       late' = [r \in Requests |-> IF r \in unheard THEN 0 ELSE late[r]]
  /\ step' = [x \in Submissions |-> IF step[x] \in {"picking", "picked"} THEN "lost" ELSE step[x]]
  /\ UNCHANGED <<server, table, inbox, inserted, signals, starts>>

\* The main server ends and is started again: table_listener clears tables[], its
\* workers' submissions are gone, and of the requests and answers under way any
\* part is.  A table server whose request is lost waits for its timeout.
Restart ==
  /\ "restart" \in Faults
  /\ tables' = [n \in Table |-> FALSE] /\ nb_tables' = 0
  /\ \E unheard \in SUBSET {s \in Servers : skt[s] # Silence} :
       skt' = [s \in Servers |-> IF s \in unheard THEN Silence ELSE skt[s]]
  /\ \E unheard \in SUBSET {r \in Requests : late[r] > 0} :
       late' = [r \in Requests |-> IF r \in unheard THEN 0 ELSE late[r]]
  /\ step' = [x \in Submissions |-> IF step[x] \in {"picking", "picked"} THEN "lost" ELSE step[x]]
  /\ UNCHANGED <<server, table, inbox, inserted, signals, starts>>

-----------------------------------------------------------------------------
(* A table server.                                                         *)

\* The requests a server leaves behind when it stops waiting.
GiveUp(s) ==
  late' = IF skt[s] \in Requests THEN [late EXCEPT ![skt[s]] = @ + 1] ELSE late

\* The process ends: its memory and what its sockets held are gone.
Exit(s) ==
  /\ phase' = [phase EXCEPT ![s] = "down"]
  /\ number' = [number EXCEPT ![s] = 0]
  /\ inbox' = [inbox EXCEPT ![s] = {}]

\* main(): the index is open, init_server sends INIT.
Start(s) ==
  /\ phase[s] = "down" /\ starts < MaxStarts
  /\ starts' = starts + 1
  /\ phase' = [phase EXCEPT ![s] = "starting"]
  /\ skt' = [skt EXCEPT ![s] = InitMsg]
  /\ UNCHANGED <<main, late, number, subs, signals>>

\* init_server got its answer, at the start or at the end of a handler.
InitAnswered(s) ==
  /\ phase[s] \in {"starting", "reiniting"} /\ skt[s] \in Answers
  /\ phase' = [phase EXCEPT ![s] = "running"]
  /\ number' = [number EXCEPT ![s] = skt[s].n]
  /\ skt' = [skt EXCEPT ![s] = Silence]
  /\ UNCHANGED <<main, late, subs, signals, starts>>

\* No answer in ten seconds: main() exits, a handler leaves number 0 behind.
InitTimesOut(s) ==
  /\ "timeout" \in Faults
  /\ GiveUp(s) /\ skt' = [skt EXCEPT ![s] = Silence]
  /\ \/ phase[s] = "starting" /\ Exit(s)
     \/ /\ phase[s] = "reiniting"
        /\ phase' = [phase EXCEPT ![s] = "running"]
        /\ number' = [number EXCEPT ![s] = 0] /\ UNCHANGED inbox
  /\ UNCHANGED <<main, step, table, inserted, signals, starts>>

KillServerZeroesFirst(s) ==
  /\ skt' = [skt EXCEPT ![s] = KillMsg(0)]
  /\ number' = [number EXCEPT ![s] = 0]

KillServerCountsFromOne(s) ==
  /\ skt' = [skt EXCEPT ![s] = KillMsg(number[s] - 1)]
  /\ number' = [number EXCEPT ![s] = 0]

\* kill_server: the number is sent and set to 0 before any answer.
KillServer(s) ==
  /\ skt' = [skt EXCEPT ![s] = KillMsg(number[s])]
  /\ number' = [number EXCEPT ![s] = 0]

\* A signal at a server at rest.
Signal(s) ==
  /\ phase[s] = "running" /\ signals < MaxSignals
  /\ \E sig \in Signals :
       phase' = [phase EXCEPT ![s] = IF sig = "USR" THEN "killing" ELSE "stopping"]
  /\ KillServer(s)
  /\ signals' = signals + 1
  /\ UNCHANGED <<main, late, subs, starts>>

\* "early": a SIGTERM while init_server waits, in main() or inside the handler
\* of another signal.
EarlyTerm(s) ==
  /\ "early" \in Faults /\ "TERM" \in Signals /\ signals < MaxSignals
  /\ phase[s] \in {"starting", "reiniting"}
  /\ phase' = [phase EXCEPT ![s] = "stopping"]
  /\ GiveUp(s) /\ KillServer(s)
  /\ signals' = signals + 1
  /\ UNCHANGED <<main, subs, starts>>

KillAnswered(s) ==
  /\ skt[s] \in Answers
  /\ skt' = [skt EXCEPT ![s] = Silence]
  /\ \/ /\ phase[s] = "killing" /\ phase' = [phase EXCEPT ![s] = "indexing"]
        /\ UNCHANGED <<number, inbox>>
     \/ phase[s] = "stopping" /\ Exit(s)
  /\ UNCHANGED <<main, late, step, table, inserted, signals, starts>>

\* No acknowledgement: SIGUSR is abandoned, SIGTERM goes on.
KillTimesOut(s) ==
  /\ "timeout" \in Faults
  /\ GiveUp(s) /\ skt' = [skt EXCEPT ![s] = Silence]
  /\ \/ /\ phase[s] = "killing" /\ phase' = [phase EXCEPT ![s] = "running"]
        /\ UNCHANGED <<number, inbox>>
     \/ phase[s] = "stopping" /\ Exit(s)
  /\ UNCHANGED <<main, step, table, inserted, signals, starts>>

\* kill_index and init_index, then init_server.
Reindex(s) ==
  /\ phase[s] = "indexing"
  /\ phase' = [phase EXCEPT ![s] = "reiniting"]
  /\ skt' = [skt EXCEPT ![s] = InitMsg]
  /\ UNCHANGED <<main, late, number, subs, signals, starts>>

\* kill_index or init_index returned less than 0: the handler is left.
ReindexFails(s) ==
  /\ "index" \in Faults /\ phase[s] = "indexing"
  /\ phase' = [phase EXCEPT ![s] = "running"]
  /\ UNCHANGED <<main, skt, late, number, subs, signals, starts>>

Crash(s) ==
  /\ "crash" \in Faults /\ phase[s] # "down"
  /\ Exit(s) /\ skt' = [skt EXCEPT ![s] = Silence]
  /\ GiveUp(s) \/ UNCHANGED late
  /\ UNCHANGED <<main, step, table, inserted, signals, starts>>

\* execute_command, command 2, in a worker: is it for this table?
Insert(s, x) ==
  /\ Serving(s) /\ x \in inbox[s]
  /\ inbox' = [inbox EXCEPT ![s] = @ \ {x}]
  /\ inserted' = IF table[x] = number[s]
                 THEN [inserted EXCEPT ![s] = @ \cup {x}] ELSE inserted
  /\ UNCHANGED <<main, skt, late, server, step, table, signals, starts>>

-----------------------------------------------------------------------------
Init ==
  /\ tables = [n \in Table |-> FALSE] /\ nb_tables = 0
  /\ skt = [s \in Servers |-> Silence]
  /\ late = [r \in Requests |-> 0]
  /\ phase = [s \in Servers |-> "down"] /\ number = [s \in Servers |-> 0]
  /\ step = [x \in Submissions |-> "new"] /\ table = [x \in Submissions |-> NoTable]
  /\ inbox = [s \in Servers |-> {}] /\ inserted = [s \in Servers |-> {}]
  /\ signals = 0 /\ starts = 0

Listener == HandleInit \/ HandleKill

\* What a server does by itself once it was started or signalled.
Progress(s) == InitAnswered(s) \/ KillAnswered(s) \/ Reindex(s)

Selection(x) == BeginSelect(x) \/ Pick(x) \/ Forward(x)

Next ==
  \/ Listener \/ Restart
  \/ \E x \in Submissions : Selection(x)
  \/ \E s \in Servers :
       \/ Start(s) \/ Signal(s) \/ EarlyTerm(s) \/ Progress(s)
       \/ InitTimesOut(s) \/ KillTimesOut(s) \/ ReindexFails(s) \/ Crash(s)
       \/ \E x \in Submissions : Insert(s, x)

Spec == Init /\ [][Next]_vars

\* Threads are scheduled; rand() comes by every number again and again.  Nobody
\* has to start a server or to send a signal.
FairSpec ==
  /\ Spec /\ WF_vars(Listener)
  /\ \A s \in Servers : WF_vars(Progress(s))
  /\ \A x \in Submissions : WF_vars(Selection(x))

-----------------------------------------------------------------------------
(* Properties.                                                             *)

TypeOK ==
  /\ tables \in [Table -> BOOLEAN] /\ nb_tables \in Int
  /\ skt \in [Servers -> Requests \cup Answers \cup {Silence}]
  /\ late \in [Requests -> Nat]
  /\ phase \in [Servers -> Phases] /\ number \in [Servers -> Number]
  /\ step \in [Submissions -> {"new", "picking", "picked", "sent", "lost"}]
  /\ table \in [Submissions -> Number]
  /\ inbox \in [Servers -> SUBSET Submissions]
  /\ inserted \in [Servers -> SUBSET Submissions]
  /\ signals \in 0 .. MaxSignals /\ starts \in 0 .. MaxStarts

\* The counter never promises a table that is not there: when select_table reads
\* nb_tables > 0, some number is taken, whatever was lost, late or repeated, also
\* after a restart, when servers leave with numbers it never gave them.
NoPhantomTables == nb_tables <= Cardinality(Active)

Running == {s \in Servers : phase[s] = "running"}

\* With nothing lost and a number for every server, the registry is the truth:
\* the counter counts the taken numbers, a running server's number is taken, and
\* no two running servers have the same.
RegistryIsExact ==
  /\ nb_tables = Cardinality(Active)
  /\ \A s \in Running : number[s] \in Active
  /\ \A s, t \in Running : s # t => number[s] # number[t]

\* With nothing lost, a number is only freed by the server that had it.
NumberOfRunningServerStays ==
  [][\A s \in Servers : phase[s] = "running" /\ phase'[s] = "running" /\ number[s] \in Active
       => number[s] \in Active']_vars

\* "a particular table is randomly chosen from the list of available servers":
\* while a number is taken, select_table finds one.
AvailableIsSelectable == Active # {} => nb_tables > 0

\* "the hash is published for that table to add to its index": a submission is
\* added by one table only ...
AddedByOneTable ==
  \A x \in Submissions : Cardinality({s \in Servers : x \in inserted[s]}) <= 1

\* ... and is added, if a table was chosen and nobody has it to handle any more.
AddedByChosenTable ==
  \A x \in Submissions :
    /\ step[x] = "sent" /\ table[x] # NoTable
    /\ \A s \in Servers : x \notin inbox[s]
    => \E s \in Servers : x \in inserted[s]

\* A worker that looks for a table finds one, unless there is none any more: then
\* select_table's loop cannot end until a table joins.
SelectionEnds ==
  \A x \in Submissions : step[x] = "picking" ~> step[x] = "sent" \/ Active = {}

\* "can start new table servers or terminate them at any time without effecting
\* operation of the main server": a worker that looks for a table goes on.
SelectionAlwaysEnds ==
  \A x \in Submissions : step[x] = "picking" ~> step[x] = "sent"

\* A server that was told to merge comes back under a number that is taken.
MergeReturns ==
  \A s \in Servers :
    phase[s] = "killing" ~> phase[s] = "running" /\ number[s] \in Active
=============================================================================
