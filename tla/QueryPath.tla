----------------------------- MODULE QueryPath -----------------------------
(***************************************************************************)
(* The way of a query (audioscout): a worker of the main server publishes  *)
(* the hash to all table servers and waits on its pipe; the threads of the *)
(* table servers look it up and send what they find to the main server's   *)
(* result listener, which puts it in the pipe of the worker named in it    *)
(* (servers/auscout.c handle_request, waitresults, result_listener;        *)
(* servers/table_server.c pull_message, execute_command, send_results).    *)
(*                                                                         *)
(* A result carries the number of the worker and the id that was found; it *)
(* does not say which request it is for.  Here an id is an entry           *)
(* [req, tbl]: what table tbl found for the hash of request req.           *)
(***************************************************************************)
EXTENDS Integers, Sequences

CONSTANTS
  Workers,          \* nbthreads threads of the main server
  Tables,           \* table servers
  Threads,          \* the workers of all table servers
  Home,             \* Home[k]: the table server of thread k
  Requests,         \* queries of the clients
  Score,            \* Score[r][t]: the confidence of the best match of r in t
  LookupThreshold,  \* the -t option of the table servers
  Threshold,        \* the -t option of the main server
  Faults,           \* "wait", "ack": see the actions
  Down,             \* table servers that may be without an index, or not running
  None              \* no entry, no message

VARIABLES
  client,   \* what a client waits for: "new", "asked", "done"
  answer,   \* the entry the client was told of
  by,       \* the worker that serves a request
  cur,      \* the request a worker waits for results of
  inbox,    \* queries published to a table server that no thread took yet
  doing,    \* a thread: "idle", "send" (has a result), "wait" (for the ack)
  found,    \* the result a thread has to send, or has sent
  socket,   \* its REQ socket: "ready", "asked" or "acked" (the ack is there)
  pipe      \* the pipe of each worker

cvars == <<client, answer, by>>
tvars == <<doing, found, socket>>
vars  == <<cvars, cur, inbox, tvars, pipe>>

Entry(r, t) == [req |-> r, tbl |-> t]
\* What waits at a table server, and the result it sends.
Query(w, r)     == [thr |-> w, req |-> r]
Result(w, r, t) == [thr |-> w, entry |-> Entry(r, t)]

Queries == [thr : Workers, req : Requests]
Entries == [req : Requests, tbl : Tables]
Results == [thr : Workers, entry : Entries]

ASSUME PathAssumption ==
  /\ Home \in [Threads -> Tables]
  /\ Score \in [Requests -> [Tables -> Nat]]
  /\ LookupThreshold \in Nat /\ Threshold \in Nat
  /\ Faults \subseteq {"wait", "ack"}
  /\ Down \subseteq Tables
  /\ None \notin Workers \cup Requests \cup Entries \cup Results

\* Something that was published for w may still end in its pipe.
InFlight(w) ==
  \/ \E t \in Tables : \E m \in inbox[t] : m.thr = w
  \/ \E k \in Threads : found[k] # None /\ found[k].thr = w
  \/ pipe[w] # <<>>

-----------------------------------------------------------------------------
(* The main server: a query in handle_request, and waitresults.            *)

\* A request reaches an idle worker, which publishes it: whatever its pipe holds.
Accept(w, r) ==
  /\ client[r] = "new" /\ cur[w] = None
  /\ client' = [client EXCEPT ![r] = "asked"]
  /\ by' = [by EXCEPT ![r] = w]
  /\ cur' = [cur EXCEPT ![w] = r]
  /\ inbox' = [t \in Tables |-> inbox[t] \cup {Query(w, r)}]
  /\ UNCHANGED <<answer, tvars, pipe>>

\* The reply to the client: the metadata of the id, or the empty string.
Reply(w, e) ==
  /\ client' = [client EXCEPT ![cur[w]] = "done"]
  /\ answer' = [answer EXCEPT ![cur[w]] = e]
  /\ cur' = [cur EXCEPT ![w] = None]
  /\ UNCHANGED <<by, inbox, tvars>>

TakeLeavesIt(w) ==
  /\ cur[w] # None /\ pipe[w] # <<>>
  /\ Reply(w, Head(pipe[w]))
  /\ UNCHANGED pipe

\* zmq_recv gives the first result in the pipe.
Take(w) ==
  /\ cur[w] # None /\ pipe[w] # <<>>
  /\ Reply(w, Head(pipe[w]))
  /\ pipe' = [pipe EXCEPT ![w] = Tail(@)]

TimeoutAnyTime(w) ==
  /\ cur[w] # None /\ pipe[w] = <<>>
  /\ Reply(w, None) /\ UNCHANGED pipe

\* WAIT_TIME_SECONDS passed and the pipe is empty.  Without the fault "wait" the
\* time is enough for everything that is under way.
Timeout(w) ==
  /\ cur[w] # None /\ pipe[w] = <<>>
  /\ "wait" \in Faults \/ ~InFlight(w)
  /\ Reply(w, None) /\ UNCHANGED pipe

-----------------------------------------------------------------------------
(* A thread of a table server: pull_message.                               *)

\* A lookup; a result is sent if its confidence reaches the table's threshold.
Lookup(k, m) ==
  /\ doing[k] = "idle" /\ m \in inbox[Home[k]]
  /\ inbox' = [inbox EXCEPT ![Home[k]] = @ \ {m}]
  /\ IF Score[m.req][Home[k]] >= LookupThreshold
     THEN /\ doing' = [doing EXCEPT ![k] = "send"]
          /\ found' = IF socket[k] = "ready"
                      THEN [found EXCEPT ![k] = Result(m.thr, m.req, Home[k])] ELSE found
     ELSE UNCHANGED <<doing, found>>
  /\ UNCHANGED <<cvars, cur, socket, pipe>>

\* The table server has no index, or is not running.
Miss(t, m) ==
  /\ t \in Down /\ m \in inbox[t]
  /\ inbox' = [inbox EXCEPT ![t] = @ \ {m}]
  /\ UNCHANGED <<cvars, cur, tvars, pipe>>

\* send_results: a REQ socket that has not got its last answer sends nothing.
Send(k) ==
  /\ doing[k] = "send"
  /\ doing' = [doing EXCEPT ![k] = "wait"]
  /\ socket' = IF socket[k] = "ready" THEN [socket EXCEPT ![k] = "asked"] ELSE socket
  /\ UNCHANGED <<cvars, cur, inbox, found, pipe>>

\* zmq_recv gives the acknowledgement, of this result or of an earlier one.
Acknowledged(k) ==
  /\ doing[k] = "wait" /\ socket[k] = "acked"
  /\ doing' = [doing EXCEPT ![k] = "idle"]
  /\ socket' = [socket EXCEPT ![k] = "ready"]
  /\ UNCHANGED <<cvars, cur, inbox, found, pipe>>

\* "ack": no acknowledgement in ten seconds.
AckTimesOut(k) ==
  /\ "ack" \in Faults
  /\ doing[k] = "wait" /\ socket[k] = "asked"
  /\ doing' = [doing EXCEPT ![k] = "idle"]
  /\ UNCHANGED <<cvars, cur, inbox, found, socket, pipe>>

-----------------------------------------------------------------------------
(* The main server: result_listener.                                       *)

ListenTellsEverybody(k) ==
  /\ socket[k] = "asked"
  /\ socket' = [socket EXCEPT ![k] = "acked"]
  /\ found' = [found EXCEPT ![k] = None]
  /\ LET e == found[k].entry IN
       pipe' = IF Score[e.req][e.tbl] >= Threshold
               THEN [w \in Workers |-> Append(pipe[w], e)] ELSE pipe
  /\ UNCHANGED <<cvars, cur, inbox, doing>>

ListenSendsAll(k) ==
  /\ socket[k] = "asked"
  /\ socket' = [socket EXCEPT ![k] = "acked"]
  /\ found' = [found EXCEPT ![k] = None]
  /\ pipe' = [pipe EXCEPT ![found[k].thr] = Append(@, found[k])]
  /\ UNCHANGED <<cvars, cur, inbox, doing>>

ListenKeepsFaint(k) ==
  /\ socket[k] = "asked"
  /\ socket' = [socket EXCEPT ![k] = "acked"]
  /\ found' = [found EXCEPT ![k] = None]
  /\ pipe' = [pipe EXCEPT ![found[k].thr] = Append(@, found[k].entry)]
  /\ UNCHANGED <<cvars, cur, inbox, doing>>

\* The result is acknowledged, and goes into the pipe of the worker it names if
\* its confidence reaches the main server's threshold.
Listen(k) ==
  /\ socket[k] = "asked"
  /\ socket' = [socket EXCEPT ![k] = "acked"]
  /\ found' = [found EXCEPT ![k] = None]
  /\ LET e == found[k].entry IN
       pipe' = IF Score[e.req][e.tbl] >= Threshold
               THEN [pipe EXCEPT ![found[k].thr] = Append(@, e)] ELSE pipe
  /\ UNCHANGED <<cvars, cur, inbox, doing>>

-----------------------------------------------------------------------------
Init ==
  /\ client = [r \in Requests |-> "new"] /\ answer = [r \in Requests |-> None]
  /\ by = [r \in Requests |-> None]
  /\ cur = [w \in Workers |-> None]
  /\ inbox = [t \in Tables |-> {}]
  /\ doing = [k \in Threads |-> "idle"] /\ found = [k \in Threads |-> None]
  /\ socket = [k \in Threads |-> "ready"]
  /\ pipe = [w \in Workers |-> <<>>]

Waiting(w) == Take(w) \/ Timeout(w)

Thread(k) ==
  \/ \E m \in inbox[Home[k]] : Lookup(k, m)
  \/ Send(k) \/ Acknowledged(k) \/ AckTimesOut(k)

Next ==
  \/ \E w \in Workers : Waiting(w) \/ \E r \in Requests : Accept(w, r)
  \/ \E k \in Threads : Thread(k) \/ Listen(k)
  \/ \E t \in Tables : \E m \in inbox[t] : Miss(t, m)

Spec == Init /\ [][Next]_vars

\* Every thread of the servers is scheduled; no client has to ask.
FairSpec ==
  /\ Spec
  /\ \A w \in Workers : WF_vars(Waiting(w))
  /\ \A k \in Threads : WF_vars(Thread(k)) /\ WF_vars(Listen(k))

-----------------------------------------------------------------------------
(* Properties.                                                             *)

TypeOK ==
  /\ client \in [Requests -> {"new", "asked", "done"}]
  /\ answer \in [Requests -> Entries \cup {None}]
  /\ by \in [Requests -> Workers \cup {None}]
  /\ cur \in [Workers -> Requests \cup {None}]
  /\ inbox \in [Tables -> SUBSET Queries]
  /\ doing \in [Threads -> {"idle", "send", "wait"}]
  /\ found \in [Threads -> Results \cup {None}]
  /\ socket \in [Threads -> {"ready", "asked", "acked"}]
  /\ pipe \in [Workers -> Seq(Entries)]

\* An answer can be late but not lost on the way to another worker: the entry a
\* client gets was found for a request of the worker that answers.
AnswersStayWithWorker ==
  \A r \in Requests : answer[r] # None => by[answer[r].req] = by[r]

\* No result is used for two answers.
NoResultUsedTwice ==
  \A q, r \in Requests : q # r /\ answer[q] # None => answer[q] # answer[r]

\* Nothing below the main server's threshold is told to a client.
NoFaintAnswer ==
  \A r \in Requests : answer[r] # None => Score[answer[r].req][answer[r].tbl] >= Threshold

\* "using this id, it retrieves the correct information": the entry a client
\* gets was found for its own hash.
AnswersAreForTheirRequest ==
  \A r \in Requests : answer[r] # None => answer[r].req = r

Holders == [r \in Requests |->
              {t \in Tables : Score[r][t] >= LookupThreshold /\ Score[r][t] >= Threshold}]

\* "As long as the portion being hashed was previously added to the index,
\* AudioScout should find the matching signal": an answer is empty only if every
\* table that has the hash may be down.
HeldIsFound ==
  \A r \in Requests : client[r] = "done" /\ Holders[r] \ Down # {} => answer[r] # None

\* The promise of QueryService, whatever tables are down; exact, if no message is
\* late, for what a table has that is not.
Promise == INSTANCE QueryService
             WITH Exact <- {r \in Requests : Faults = {} /\ Holders[r] \ Down # {}}
ServiceIsKept == Promise!Service
=============================================================================
