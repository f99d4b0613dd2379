-------------------------- MODULE QueryPath_proofs --------------------------
(***************************************************************************)
(* Proofs about QueryPath for any number of workers, table servers,        *)
(* threads and requests, any confidences and any of the faults.            *)
(***************************************************************************)
EXTENDS QueryPath, TLAPS

\* A thread whose request is out, or that is about to send one, has a result.
HasResult ==
  \A k \in Threads :
    \/ socket[k] = "asked"
    \/ doing[k] = "send" /\ socket[k] = "ready"
    => found[k] # None

\* Whatever is on its way to worker w was found for a request that w accepted.
Routed ==
  /\ \A r \in Requests : client[r] = "new" => by[r] = None
  /\ \A w \in Workers : cur[w] # None => by[cur[w]] = w
  /\ \A t \in Tables : \A m \in inbox[t] : by[m.req] = m.thr
  /\ \A k \in Threads : found[k] # None => by[found[k].entry.req] = found[k].thr
  /\ \A w \in Workers : \A i \in 1 .. Len(pipe[w]) : by[pipe[w][i].req] = w
  /\ \A r \in Requests : answer[r] # None => by[r] # None
  /\ AnswersStayWithWorker

\* Nothing below the threshold is in a pipe.
Confident(e) == Score[e.req][e.tbl] >= Threshold
PipesConfident == \A w \in Workers : \A i \in 1 .. Len(pipe[w]) : Confident(pipe[w][i])

IInv == TypeOK /\ HasResult /\ Routed /\ PipesConfident /\ NoFaintAnswer

\* No entry is none of the things it stands for the absence of.
LEMMA NoneIsNothing ==
  /\ None \notin Workers /\ None \notin Requests
  /\ None \notin Entries /\ None \notin Results
  BY PathAssumption

\* The first of a queue and what remains.
LEMMA HeadTail ==
  ASSUME NEW S, NEW q \in Seq(S), q # <<>>
  PROVE  /\ Head(q) \in S /\ Head(q) = q[1] /\ 1 \in 1 .. Len(q)
         /\ Tail(q) \in Seq(S)
         /\ \A i \in 1 .. Len(Tail(q)) : Tail(q)[i] = q[i + 1] /\ i + 1 \in 1 .. Len(q)
  OBVIOUS

\* What is in a pipe after something was put in it.
LEMMA Appended ==
  ASSUME NEW S, NEW q \in Seq(S), NEW e \in S
  PROVE  /\ Append(q, e) \in Seq(S)
         /\ \A i \in 1 .. Len(Append(q, e)) :
              Append(q, e)[i] = e \/ (i \in 1 .. Len(q) /\ Append(q, e)[i] = q[i])
  OBVIOUS

\* The initial states satisfy the invariant.
LEMMA IInvInit == Init => IInv
  BY PathAssumption
     DEF Init, IInv, TypeOK, HasResult, Routed, AnswersStayWithWorker, PipesConfident,
         NoFaintAnswer, Entries, Results, Queries

\* A query that is accepted keeps the invariant ...
LEMMA AcceptStep ==
  ASSUME IInv, NEW w \in Workers, NEW r \in Requests, Accept(w, r)
  PROVE  IInv'
<1>1. by[r] = None /\ w # None /\ r # None
  BY NoneIsNothing DEF IInv, Routed, Accept
<1>2. by' = [by EXCEPT ![r] = w] /\ by \in [Requests -> Workers \cup {None}]
  BY DEF IInv, TypeOK, Accept
<1>3. \A q \in Requests : by[q] # None => by'[q] = by[q]
  BY <1>1, <1>2
<1>4. TypeOK'
  <2>1. Query(w, r) \in Queries
    BY DEF Query, Queries
  <2>2. inbox' \in [Tables -> SUBSET Queries]
    BY <2>1 DEF Accept, IInv, TypeOK
  <2>. QED
    BY <2>2 DEF IInv, TypeOK, Accept, tvars
<1>5. HasResult'
  BY DEF IInv, HasResult, Accept, tvars
<1>6. Routed'
  <2>1. \A q \in Requests : client'[q] = "new" => by'[q] = None
    BY <1>2 DEF IInv, TypeOK, Routed, Accept
  <2>2. \A v \in Workers : cur'[v] # None => by'[cur'[v]] = v
    BY <1>1, <1>2, <1>3, NoneIsNothing DEF IInv, TypeOK, Routed, Accept
  <2>3. \A t \in Tables : \A m \in inbox'[t] : by'[m.req] = m.thr
    <3>1. SUFFICES ASSUME NEW t \in Tables, NEW m \in inbox'[t] PROVE by'[m.req] = m.thr
      OBVIOUS
    <3>2. CASE m = Query(w, r)
      BY <1>2, <3>2 DEF Query
    <3>3. CASE m # Query(w, r)
      <4>1. m \in inbox[t] /\ m \in Queries
        BY <3>1, <3>3 DEF Accept, IInv, TypeOK
      <4>. QED
        BY <1>3, <4>1, NoneIsNothing DEF Queries, IInv, Routed
    <3>. QED
      BY <3>2, <3>3
  <2>4. \A k \in Threads : found'[k] # None => by'[found'[k].entry.req] = found'[k].thr
    BY <1>3, NoneIsNothing DEF IInv, TypeOK, Routed, Accept, tvars, Results, Entries
  <2>5. \A v \in Workers : \A i \in 1 .. Len(pipe'[v]) : by'[pipe'[v][i].req] = v
    BY <1>3, NoneIsNothing DEF IInv, TypeOK, Routed, Accept, Entries
  <2>6. AnswersStayWithWorker'
    <3>1. SUFFICES ASSUME NEW q \in Requests, answer[q] # None
                   PROVE  by'[answer[q].req] = by'[q]
      BY DEF AnswersStayWithWorker, Accept
    <3>2. answer[q] \in Entries /\ by[answer[q].req] = by[q] /\ by[q] # None
      BY <3>1 DEF IInv, TypeOK, Routed, AnswersStayWithWorker
    <3>. QED
      BY <1>3, <3>2 DEF Entries
  <2>7. \A q \in Requests : answer'[q] # None => by'[q] # None
    BY <1>3 DEF IInv, Routed, Accept
  <2>. QED
    BY <2>1, <2>2, <2>3, <2>4, <2>5, <2>6, <2>7 DEF Routed
<1>7. PipesConfident' /\ NoFaintAnswer'
  BY DEF IInv, PipesConfident, Confident, NoFaintAnswer, Accept
<1>. QED
  BY <1>4, <1>5, <1>6, <1>7 DEF IInv

\* A reply with an entry of a request of this worker, or with nothing.
LEMMA ReplyStep ==
  ASSUME IInv, NEW w \in Workers, cur[w] # None, NEW e \in Entries \cup {None}, Reply(w, e),
         e # None => by[e.req] = w /\ Confident(e),
         pipe' \in [Workers -> Seq(Entries)],
         \A v \in Workers : \A i \in 1 .. Len(pipe'[v]) :
           by[pipe'[v][i].req] = v /\ Confident(pipe'[v][i])
  PROVE  IInv'
<1> DEFINE r == cur[w]
<1>1. r \in Requests /\ by[r] = w /\ w # None
  BY NoneIsNothing DEF IInv, TypeOK, Routed
<1>2. /\ client' = [client EXCEPT ![r] = "done"] /\ answer' = [answer EXCEPT ![r] = e]
      /\ cur' = [cur EXCEPT ![w] = None]
      /\ UNCHANGED <<by, inbox, doing, found, socket>>
  BY DEF Reply, tvars
<1>. HIDE DEF r
<1>3. TypeOK'
  BY <1>1, <1>2 DEF IInv, TypeOK
<1>4. HasResult'
  BY <1>2 DEF IInv, HasResult
<1>5. AnswersStayWithWorker' /\ \A q \in Requests : answer'[q] # None => by'[q] # None
  BY <1>1, <1>2 DEF IInv, TypeOK, Routed, AnswersStayWithWorker
<1>6. \A q \in Requests : client'[q] = "new" => by'[q] = None
  BY <1>1, <1>2 DEF IInv, TypeOK, Routed
<1>7. \A v \in Workers : cur'[v] # None => by'[cur'[v]] = v
  BY <1>1, <1>2 DEF IInv, TypeOK, Routed
<1>8. Routed'
  BY <1>2, <1>5, <1>6, <1>7 DEF IInv, Routed
<1>9. PipesConfident' /\ NoFaintAnswer'
  BY <1>1, <1>2 DEF IInv, TypeOK, PipesConfident, Confident, NoFaintAnswer
<1>. QED
  BY <1>3, <1>4, <1>8, <1>9 DEF IInv

\* ... so does the answer or the timeout of a worker ...
LEMMA WaitingStep ==
  ASSUME IInv, NEW w \in Workers, Waiting(w)
  PROVE  IInv'
<1>1. /\ pipe \in [Workers -> Seq(Entries)]
      /\ \A v \in Workers : \A i \in 1 .. Len(pipe[v]) :
           by[pipe[v][i].req] = v /\ Confident(pipe[v][i])
  BY DEF IInv, TypeOK, Routed, PipesConfident
<1>2. CASE Take(w)
  <2>1. pipe[w] \in Seq(Entries) /\ pipe[w] # <<>>
    BY <1>1, <1>2 DEF Take
  <2>2. /\ Head(pipe[w]) \in Entries /\ Tail(pipe[w]) \in Seq(Entries)
        /\ by[Head(pipe[w]).req] = w /\ Confident(Head(pipe[w]))
    BY <1>1, <2>1, HeadTail
  <2>3. pipe' = [pipe EXCEPT ![w] = Tail(pipe[w])]
    BY <1>2 DEF Take
  <2>4. pipe' \in [Workers -> Seq(Entries)]
    BY <1>1, <2>2, <2>3
  <2>5. \A v \in Workers : \A i \in 1 .. Len(pipe'[v]) :
           by[pipe'[v][i].req] = v /\ Confident(pipe'[v][i])
    <3>1. SUFFICES ASSUME NEW v \in Workers, NEW i \in 1 .. Len(pipe'[v])
                   PROVE  by[pipe'[v][i].req] = v /\ Confident(pipe'[v][i])
      OBVIOUS
    <3>2. CASE v = w
      BY <1>1, <2>1, <2>3, <3>2, HeadTail
    <3>3. CASE v # w
      BY <1>1, <2>3, <3>3
    <3>. QED
      BY <3>2, <3>3
  <2>. QED
    BY <1>2, <2>2, <2>4, <2>5, ReplyStep DEF Take
<1>3. CASE Timeout(w)
  BY <1>1, <1>3, ReplyStep DEF Timeout
<1>. QED
  BY <1>2, <1>3 DEF Waiting

\* ... the steps of a table server's thread ...
LEMMA ThreadStep ==
  ASSUME IInv, NEW k \in Threads,
         \/ \E m \in inbox[Home[k]] : Lookup(k, m)
         \/ Send(k) \/ Acknowledged(k) \/ AckTimesOut(k)
  PROVE  IInv'
<1>1. CASE \E m \in inbox[Home[k]] : Lookup(k, m)
  <2>1. PICK m \in inbox[Home[k]] : Lookup(k, m)
    BY <1>1
  <2>2. Home[k] \in Tables
    BY PathAssumption
  <2>3. m \in Queries /\ by[m.req] = m.thr
    BY <2>1, <2>2 DEF IInv, TypeOK, Routed
  <2> DEFINE res == Result(m.thr, m.req, Home[k])
  <2>4. res \in Results /\ res # None /\ by[res.entry.req] = res.thr
    BY <2>2, <2>3, NoneIsNothing DEF Result, Results, Entry, Entries, Queries
  <2>5. \/ UNCHANGED <<doing, found>>
        \/ /\ doing' = [doing EXCEPT ![k] = "send"]
           /\ \/ socket[k] = "ready" /\ found' = [found EXCEPT ![k] = res]
              \/ socket[k] # "ready" /\ found' = found
    BY <2>1 DEF Lookup
  <2>6. /\ inbox' = [inbox EXCEPT ![Home[k]] = @ \ {m}]
        /\ UNCHANGED <<client, answer, by, cur, socket, pipe>> /\ doing[k] = "idle"
    BY <2>1 DEF Lookup, cvars
  <2>. HIDE DEF res
  <2>7. TypeOK'
    <3>1. inbox' \in [Tables -> SUBSET Queries]
      BY <2>2, <2>6 DEF IInv, TypeOK
    <3>2. doing' \in [Threads -> {"idle", "send", "wait"}]
          /\ found' \in [Threads -> Results \cup {None}]
      BY <2>4, <2>5 DEF IInv, TypeOK
    <3>. QED
      BY <2>6, <3>1, <3>2 DEF IInv, TypeOK
  <2>8. HasResult'
    BY <2>4, <2>5, <2>6 DEF IInv, TypeOK, HasResult
  <2>9. \A j \in Threads : found'[j] # None => by'[found'[j].entry.req] = found'[j].thr
    BY <2>4, <2>5, <2>6 DEF IInv, TypeOK, Routed
  <2>10. \A t \in Tables : inbox'[t] \subseteq inbox[t]
    BY <2>6 DEF IInv, TypeOK
  <2>11. Routed'
    BY <2>6, <2>9, <2>10 DEF IInv, Routed, AnswersStayWithWorker
  <2>12. PipesConfident' /\ NoFaintAnswer'
    BY <2>6 DEF IInv, PipesConfident, Confident, NoFaintAnswer
  <2>. QED
    BY <2>7, <2>8, <2>11, <2>12 DEF IInv
<1>2. CASE Send(k) \/ Acknowledged(k) \/ AckTimesOut(k)
  <2>1. UNCHANGED <<client, answer, by, cur, inbox, found, pipe>>
    BY <1>2 DEF Send, Acknowledged, AckTimesOut, cvars
  <2>2. TypeOK'
    BY <1>2, <2>1 DEF Send, Acknowledged, AckTimesOut, IInv, TypeOK
  <2>3. HasResult'
    BY <1>2, <2>1 DEF Send, Acknowledged, AckTimesOut, IInv, TypeOK, HasResult
  <2>4. Routed'
    BY <2>1 DEF IInv, Routed, AnswersStayWithWorker
  <2>5. PipesConfident' /\ NoFaintAnswer'
    BY <2>1 DEF IInv, PipesConfident, Confident, NoFaintAnswer
  <2>. QED
    BY <2>2, <2>3, <2>4, <2>5 DEF IInv
<1>. QED
  BY <1>1, <1>2

\* ... the result listener's ...
LEMMA ListenStep ==
  ASSUME IInv, NEW k \in Threads, Listen(k)
  PROVE  IInv'
<1>1. /\ found[k] # None /\ socket' = [socket EXCEPT ![k] = "acked"]
      /\ found' = [found EXCEPT ![k] = None]
      /\ UNCHANGED <<client, answer, by, cur, inbox, doing>>
  BY DEF Listen, IInv, HasResult, cvars
<1>2. /\ found[k] \in Results /\ found[k].thr \in Workers /\ found[k].entry \in Entries
      /\ by[found[k].entry.req] = found[k].thr
  BY <1>1 DEF IInv, TypeOK, Routed, Results
<1> DEFINE w == found[k].thr
           e == found[k].entry
<1>3. \/ pipe' = pipe
      \/ Confident(e) /\ pipe' = [pipe EXCEPT ![w] = Append(pipe[w], e)]
  BY DEF Listen, Confident
<1>4. w \in Workers /\ e \in Entries /\ by[e.req] = w
  BY <1>2
<1>. HIDE DEF w, e
<1>5. /\ pipe' \in [Workers -> Seq(Entries)]
      /\ \A v \in Workers : \A i \in 1 .. Len(pipe'[v]) :
           by[pipe'[v][i].req] = v /\ Confident(pipe'[v][i])
  <2>1. /\ pipe \in [Workers -> Seq(Entries)]
        /\ \A v \in Workers : \A i \in 1 .. Len(pipe[v]) :
             by[pipe[v][i].req] = v /\ Confident(pipe[v][i])
    BY DEF IInv, TypeOK, Routed, PipesConfident
  <2>2. CASE pipe' = pipe
    BY <2>1, <2>2
  <2>3. CASE Confident(e) /\ pipe' = [pipe EXCEPT ![w] = Append(pipe[w], e)]
    <3>1. pipe[w] \in Seq(Entries)
      BY <1>4, <2>1
    <3>2. Append(pipe[w], e) \in Seq(Entries)
      BY <1>4, <3>1, Appended
    <3>3. SUFFICES ASSUME NEW v \in Workers, NEW i \in 1 .. Len(pipe'[v])
                   PROVE  by[pipe'[v][i].req] = v /\ Confident(pipe'[v][i])
      BY <2>1, <2>3, <3>2
    <3>4. CASE v = w
      BY <1>4, <2>1, <2>3, <3>1, <3>4, Appended
    <3>5. CASE v # w
      BY <2>1, <2>3, <3>5
    <3>. QED
      BY <3>4, <3>5
  <2>. QED
    BY <1>3, <2>2, <2>3
<1>6. TypeOK'
  BY <1>1, <1>5 DEF IInv, TypeOK
<1>7. HasResult'
  BY <1>1 DEF IInv, TypeOK, HasResult, Listen
<1>8. Routed'
  BY <1>1, <1>5 DEF IInv, TypeOK, Routed, AnswersStayWithWorker
<1>9. PipesConfident' /\ NoFaintAnswer'
  BY <1>1, <1>5 DEF IInv, PipesConfident, Confident, NoFaintAnswer
<1>. QED
  BY <1>6, <1>7, <1>8, <1>9 DEF IInv

\* ... and a query that a table server misses.
LEMMA MissStep ==
  ASSUME IInv, NEW t \in Tables, NEW m \in inbox[t], Miss(t, m)
  PROVE  IInv'
<1>1. /\ UNCHANGED <<client, answer, by, cur, doing, found, socket, pipe>>
      /\ inbox' = [inbox EXCEPT ![t] = @ \ {m}]
  BY DEF Miss, cvars, tvars
<1>2. inbox' \in [Tables -> SUBSET Queries] /\ \A u \in Tables : inbox'[u] \subseteq inbox[u]
  BY <1>1 DEF IInv, TypeOK
<1>3. TypeOK' /\ HasResult'
  BY <1>1, <1>2 DEF IInv, TypeOK, HasResult
<1>4. Routed'
  BY <1>1, <1>2 DEF IInv, Routed, AnswersStayWithWorker
<1>. QED
  BY <1>1, <1>3, <1>4 DEF IInv, PipesConfident, Confident, NoFaintAnswer

\* Every step keeps the invariant.
LEMMA IInvStep == IInv /\ [Next]_vars => IInv'
<1> SUFFICES ASSUME IInv, [Next]_vars PROVE IInv'
  OBVIOUS
<1>1. CASE UNCHANGED vars
  <2>1. UNCHANGED <<client, answer, by, cur, inbox, doing, found, socket, pipe>>
    BY <1>1 DEF vars, cvars, tvars
  <2>. QED
    BY <2>1 DEF IInv, TypeOK, HasResult, Routed, AnswersStayWithWorker, PipesConfident,
                Confident, NoFaintAnswer
<1>. QED
  BY <1>1, AcceptStep, WaitingStep, ThreadStep, ListenStep, MissStep DEF Next, Thread

\* The inductive invariant holds in every reachable state of the query path.
THEOREM Invariance == Spec => []IInv
<1>. QED
  BY IInvInit, IInvStep, PTL DEF Spec

-----------------------------------------------------------------------------
\* Every variable keeps its range.
THEOREM TypeCorrect == Spec => []TypeOK
<1>1. IInv => TypeOK
  BY DEF IInv
<1>. QED
  BY <1>1, Invariance, PTL

\* However late a result is, the client that is told of it asked the worker that
\* once asked for it.
THEOREM RoutedCorrectly == Spec => []AnswersStayWithWorker
<1>1. IInv => AnswersStayWithWorker
  BY DEF IInv, Routed
<1>. QED
  BY <1>1, Invariance, PTL

\* No client is told of an entry below the main server's threshold.
THEOREM ThresholdKept == Spec => []NoFaintAnswer
<1>1. IInv => NoFaintAnswer
  BY DEF IInv
<1>. QED
  BY <1>1, Invariance, PTL

-----------------------------------------------------------------------------
(* Where a result is: in a query that waits at its table server, with a    *)
(* thread, in a pipe, or told to a client.                                 *)

Asked(e)       == \E m \in inbox[e.tbl] : m.req = e.req
Carried(k, e)  == found[k] # None /\ found[k].entry = e
Piped(w, i, e) == i \in 1 .. Len(pipe[w]) /\ pipe[w][i] = e
Told(r, e)     == answer[r] = e

NotCarried(e) == \A k \in Threads : ~Carried(k, e)
NotPiped(e)   == \A w \in Workers : \A i \in Nat : ~Piped(w, i, e)
NotTold(e)    == \A r \in Requests : ~Told(r, e)

\* A result is in one place at a time: once it left a place it is not there any
\* more, and it never comes to one twice.
OnePlace(e) ==
  /\ Asked(e) => NotCarried(e) /\ NotPiped(e) /\ NotTold(e)
  /\ \A k \in Threads : Carried(k, e) =>
       /\ \A j \in Threads : Carried(j, e) => j = k
       /\ NotPiped(e) /\ NotTold(e)
  /\ \A w \in Workers : \A i \in Nat : Piped(w, i, e) =>
       /\ \A v \in Workers : \A j \in Nat : Piped(v, j, e) => v = w /\ j = i
       /\ NotTold(e)
  /\ \A q, r \in Requests : Told(q, e) /\ Told(r, e) => q = r

InOnePlace == \A e \in Entries : OnePlace(e)
OnceInv    == IInv /\ InOnePlace

\* How each step moves the results.  A request that is accepted is new: nothing
\* of it is anywhere.
LEMMA AcceptMoves ==
  ASSUME IInv, NEW w \in Workers, NEW r \in Requests, Accept(w, r)
  PROVE  /\ \A e \in Entries : Asked(e)' <=> Asked(e) \/ e.req = r
         /\ \A e \in Entries : e.req = r => NotCarried(e) /\ NotPiped(e) /\ NotTold(e)
         /\ UNCHANGED <<found, pipe, answer>>
<1>1. by[r] = None
  BY DEF IInv, Routed, Accept
<1>2. UNCHANGED <<found, pipe, answer>>
  BY DEF Accept, tvars
<1>3. ASSUME NEW e \in Entries PROVE Asked(e)' <=> Asked(e) \/ e.req = r
  <2>1. e.tbl \in Tables
    BY DEF Entries
  <2>2. inbox'[e.tbl] = inbox[e.tbl] \cup {Query(w, r)}
    BY <2>1 DEF Accept
  <2>3. Query(w, r) \in inbox'[e.tbl] /\ Query(w, r).req = r
    BY <2>2 DEF Query
  <2>4. Asked(e)' <=> \E m \in inbox'[e.tbl] : m.req = e.req
    BY DEF Asked
  <2>5. \A m \in inbox'[e.tbl] : m \in inbox[e.tbl] \/ m = Query(w, r)
    BY <2>2
  <2>6. \A m \in inbox[e.tbl] : m \in inbox'[e.tbl]
    BY <2>2
  <2>. QED
    BY <2>3, <2>4, <2>5, <2>6 DEF Asked
<1>4. ASSUME NEW e \in Entries, e.req = r PROVE NotCarried(e) /\ NotPiped(e) /\ NotTold(e)
  <2>1. NotCarried(e)
    <3>1. \A k \in Threads : found[k] # None =>
            by[found[k].entry.req] = found[k].thr /\ found[k].thr \in Workers
      BY DEF IInv, TypeOK, Routed, Results
    <3>. QED
      BY <1>1, <1>4, <3>1, NoneIsNothing DEF NotCarried, Carried
  <2>2. NotPiped(e)
    BY <1>1, <1>4, NoneIsNothing DEF NotPiped, Piped, IInv, Routed
  <2>3. NotTold(e)
    BY <1>1, <1>4, NoneIsNothing DEF NotTold, Told, IInv, Routed, AnswersStayWithWorker
  <2>. QED
    BY <2>1, <2>2, <2>3
<1>. QED
  BY <1>2, <1>3, <1>4

\* The first result of a pipe goes to a client.
LEMMA TakeMoves ==
  ASSUME IInv, NEW w \in Workers, Take(w)
  PROVE  \E h \in Entries :
           /\ Piped(w, 1, h)
           /\ cur[w] \in Requests /\ answer' = [answer EXCEPT ![cur[w]] = h]
           /\ \A e \in Entries, v \in Workers : \A i \in Nat :
                Piped(v, i, e)' <=> IF v = w THEN i >= 1 /\ Piped(w, i + 1, e) ELSE Piped(v, i, e)
           /\ \A e \in Entries, r \in Requests :
                Told(r, e)' <=> IF r = cur[w] THEN e = h ELSE Told(r, e)
           /\ UNCHANGED <<inbox, found>>
<1>1. pipe \in [Workers -> Seq(Entries)] /\ pipe[w] \in Seq(Entries) /\ pipe[w] # <<>>
  BY DEF IInv, TypeOK, Take
<1>2. /\ Head(pipe[w]) \in Entries /\ Piped(w, 1, Head(pipe[w]))
      /\ Tail(pipe[w]) \in Seq(Entries) /\ Len(Tail(pipe[w])) = Len(pipe[w]) - 1
      /\ \A i \in 1 .. Len(Tail(pipe[w])) : Tail(pipe[w])[i] = pipe[w][i + 1]
  BY <1>1, HeadTail DEF Piped
<1>3. cur[w] \in Requests /\ answer \in [Requests -> Entries \cup {None}]
  BY DEF IInv, TypeOK, Take
<1>4. /\ pipe' = [pipe EXCEPT ![w] = Tail(pipe[w])]
      /\ answer' = [answer EXCEPT ![cur[w]] = Head(pipe[w])]
      /\ UNCHANGED <<inbox, found>>
  BY DEF Take, Reply, tvars
<1>5. ASSUME NEW e \in Entries, NEW v \in Workers, NEW i \in Nat
      PROVE  Piped(v, i, e)' <=> IF v = w THEN i >= 1 /\ Piped(w, i + 1, e) ELSE Piped(v, i, e)
  <2>1. CASE v = w
    <3>1. pipe'[v] = Tail(pipe[w]) /\ Len(pipe[w]) \in Nat
      BY <1>1, <1>4, <2>1
    <3>. QED
      BY <1>2, <2>1, <3>1 DEF Piped
  <2>2. CASE v # w
    BY <1>1, <1>4, <2>2 DEF Piped
  <2>. QED
    BY <2>1, <2>2
<1>6. \A e \in Entries, r \in Requests :
        Told(r, e)' <=> IF r = cur[w] THEN e = Head(pipe[w]) ELSE Told(r, e)
  BY <1>3, <1>4 DEF Told
<1>. QED
  BY <1>2, <1>3, <1>4, <1>5, <1>6

\* A timeout tells nothing.
LEMMA TimeoutMoves ==
  ASSUME IInv, NEW w \in Workers, Timeout(w)
  PROVE  /\ \A e \in Entries, r \in Requests : Told(r, e)' => Told(r, e)
         /\ UNCHANGED <<inbox, found, pipe>>
<1>1. cur[w] \in Requests /\ answer \in [Requests -> Entries \cup {None}]
  BY DEF IInv, TypeOK, Timeout
<1>. QED
  BY <1>1, NoneIsNothing DEF Timeout, Reply, tvars, Told

\* A thread takes the query of an entry, and perhaps carries the entry.
LEMMA LookupMoves ==
  ASSUME IInv, NEW k \in Threads, NEW m \in inbox[Home[k]], Lookup(k, m)
  PROVE  \E q \in Entries :
           /\ q = Entry(m.req, Home[k]) /\ Asked(q)
           /\ \A e \in Entries : Asked(e)' <=> Asked(e) /\ e # q
           /\ \A e \in Entries, j \in Threads :
                Carried(j, e)' => Carried(j, e) \/ (j = k /\ e = q)
           /\ UNCHANGED <<pipe, answer>>
<1> DEFINE q == Entry(m.req, Home[k])
<1>1. Home[k] \in Tables /\ m \in Queries /\ by[m.req] = m.thr
  BY PathAssumption DEF IInv, TypeOK, Routed
<1>2. q \in Entries /\ q.req = m.req /\ q.tbl = Home[k]
  BY <1>1 DEF Queries, Entry, Entries
<1>3. ASSUME NEW e \in Entries PROVE Asked(e)' <=> Asked(e) /\ e # q
  <2>1. e.tbl \in Tables /\ inbox \in [Tables -> SUBSET Queries]
    BY DEF Entries, IInv, TypeOK
  <2>2. inbox' = [inbox EXCEPT ![Home[k]] = @ \ {m}]
    BY DEF Lookup
  <2>3. CASE e.tbl # Home[k]
    BY <1>2, <2>1, <2>2, <2>3 DEF Asked
  <2>4. CASE e.tbl = Home[k]
    <3>1. e = q <=> e.req = m.req
      BY <2>4 DEF Entry, Entries
    <3>2. \A n \in inbox[Home[k]] : n.req = m.req => n = m
      <4>1. \A n \in inbox[Home[k]] : n \in Queries /\ by[n.req] = n.thr
        BY <1>1 DEF IInv, TypeOK, Routed
      <4>. QED
        BY <1>1, <4>1 DEF Queries
    <3>3. inbox'[e.tbl] = inbox[Home[k]] \ {m}
      BY <1>1, <2>1, <2>2, <2>4
    <3>. QED
      BY <2>4, <3>1, <3>2, <3>3 DEF Asked
  <2>. QED
    BY <2>3, <2>4
<1>4. Asked(q)
  BY <1>2 DEF Asked
<1>5. ASSUME NEW e \in Entries, NEW j \in Threads, Carried(j, e)'
      PROVE  Carried(j, e) \/ (j = k /\ e = q)
  <2>1. found' = found \/ found' = [found EXCEPT ![k] = Result(m.thr, m.req, Home[k])]
    BY DEF Lookup
  <2>. QED
    BY <1>5, <2>1 DEF Carried, Result, IInv, TypeOK
<1>6. UNCHANGED <<pipe, answer>>
  BY DEF Lookup, cvars
<1>. HIDE DEF q
<1>. QED
  BY <1>2, <1>3, <1>4, <1>5, <1>6 DEF q

\* The listener takes the result from the thread, to the end of a pipe or away.
LEMMA ListenMoves ==
  ASSUME IInv, NEW k \in Threads, Listen(k)
  PROVE  \E q \in Entries, w \in Workers :
           /\ Carried(k, q) /\ w = by[q.req]
           /\ \A e \in Entries, j \in Threads : Carried(j, e)' <=> Carried(j, e) /\ j # k
           /\ \A e \in Entries, v \in Workers : \A i \in Nat :
                Piped(v, i, e)' <=> \/ Piped(v, i, e)
                                    \/ Confident(q) /\ v = w /\ i = Len(pipe[w]) + 1 /\ e = q
           /\ UNCHANGED <<inbox, answer>>
<1>1. /\ found[k] # None /\ found[k] \in Results
      /\ by[found[k].entry.req] = found[k].thr
  BY DEF Listen, IInv, TypeOK, HasResult, Routed
<1> DEFINE w == found[k].thr
           q == found[k].entry
<1>2. w \in Workers /\ q \in Entries /\ w = by[q.req] /\ Carried(k, q)
  BY <1>1 DEF Results, Carried
<1>3. found' = [found EXCEPT ![k] = None] /\ UNCHANGED <<inbox, answer>>
  BY DEF Listen, cvars
<1>4. \A e \in Entries, j \in Threads : Carried(j, e)' <=> Carried(j, e) /\ j # k
  BY <1>3 DEF Carried, IInv, TypeOK
<1>5. pipe' = IF Confident(q) THEN [pipe EXCEPT ![w] = Append(pipe[w], q)] ELSE pipe
  BY DEF Listen, Confident
<1>. HIDE DEF w, q
<1>6. ASSUME NEW e \in Entries, NEW v \in Workers, NEW i \in Nat
      PROVE  Piped(v, i, e)' <=> \/ Piped(v, i, e)
                                 \/ Confident(q) /\ v = w /\ i = Len(pipe[w]) + 1 /\ e = q
  <2>1. pipe \in [Workers -> Seq(Entries)] /\ pipe[w] \in Seq(Entries)
    BY <1>2 DEF IInv, TypeOK
  <2>2. CASE Confident(q) /\ v = w
    <3>1. pipe'[v] = Append(pipe[w], q)
      BY <1>2, <1>5, <2>1, <2>2
    <3>2. Len(Append(pipe[w], q)) = Len(pipe[w]) + 1 /\ Len(pipe[w]) \in Nat
          /\ Append(pipe[w], q)[Len(pipe[w]) + 1] = q
          /\ \A j \in 1 .. Len(pipe[w]) : Append(pipe[w], q)[j] = pipe[w][j]
      BY <1>2, <2>1
    <3>. QED
      BY <2>2, <3>1, <3>2 DEF Piped
  <2>3. CASE ~(Confident(q) /\ v = w)
    BY <1>2, <1>5, <2>1, <2>3 DEF Piped
  <2>. QED
    BY <2>2, <2>3
<1>. QED
  BY <1>2, <1>3, <1>4, <1>6

\* A query that is missed is gone, from the table that missed it.
LEMMA MissMoves ==
  ASSUME IInv, NEW t \in Tables, NEW m \in inbox[t], Miss(t, m)
  PROVE  /\ \A e \in Entries : Asked(e)' => Asked(e)
         /\ \A e \in Entries : e.tbl # t /\ Asked(e) => Asked(e)'
         /\ UNCHANGED <<found, pipe, answer>>
<1>1. inbox' = [inbox EXCEPT ![t] = @ \ {m}] /\ UNCHANGED <<found, pipe, answer>>
  BY DEF Miss, cvars, tvars
<1>. QED
  BY <1>1 DEF Asked, Entries, IInv, TypeOK

\* What a step that leaves the places alone has to leave alone.
LEMMA NothingMoves ==
  ASSUME InOnePlace, UNCHANGED <<inbox, found, pipe, answer>>
  PROVE  InOnePlace'
  BY DEF InOnePlace, OnePlace, NotCarried, NotPiped, NotTold, Asked, Carried, Piped, Told

\* No step puts a result in a second place.
LEMMA OnePlaceStep == OnceInv /\ [Next]_vars => InOnePlace'
<1> SUFFICES ASSUME OnceInv, [Next]_vars PROVE InOnePlace'
  OBVIOUS
<1> USE DEF NotCarried, NotPiped, NotTold
<1>. IInv /\ InOnePlace
  BY DEF OnceInv
<1>1. ASSUME NEW w \in Workers, NEW r \in Requests, Accept(w, r) PROVE InOnePlace'
  <2> SUFFICES ASSUME NEW e \in Entries PROVE OnePlace(e)'
    BY DEF InOnePlace
  <2>1. /\ \A k \in Threads : Carried(k, e)' <=> Carried(k, e)
        /\ \A v \in Workers : \A i \in Nat : Piped(v, i, e)' <=> Piped(v, i, e)
        /\ \A q \in Requests : Told(q, e)' <=> Told(q, e)
    BY <1>1, AcceptMoves DEF Carried, Piped, Told
  <2>. QED
    BY <1>1, <2>1, AcceptMoves DEF InOnePlace, OnePlace
<1>2. ASSUME NEW w \in Workers, Take(w) PROVE InOnePlace'
  <2> SUFFICES ASSUME NEW e \in Entries PROVE OnePlace(e)'
    BY DEF InOnePlace
  <2>1. PICK h \in Entries :
           /\ Piped(w, 1, h)
           /\ \A v \in Workers : \A i \in Nat :
                Piped(v, i, e)' <=> IF v = w THEN i >= 1 /\ Piped(w, i + 1, e) ELSE Piped(v, i, e)
           /\ \A r \in Requests : Told(r, e)' <=> IF r = cur[w] THEN e = h ELSE Told(r, e)
           /\ UNCHANGED <<inbox, found>>
    BY <1>2, TakeMoves
  <2>2. /\ Asked(e)' <=> Asked(e)
        /\ \A k \in Threads : Carried(k, e)' <=> Carried(k, e)
    BY <2>1 DEF Asked, Carried
  <2>3. OnePlace(e)
    BY DEF InOnePlace
  <2>4. \A v \in Workers : \A i \in Nat : Piped(v, i, e)' =>
          /\ e # h
          /\ IF v = w THEN i + 1 \in Nat /\ Piped(w, i + 1, e) ELSE Piped(v, i, e)
    <3>1. SUFFICES ASSUME NEW v \in Workers, NEW i \in Nat, Piped(v, i, e)'
                   PROVE  /\ e # h
                          /\ IF v = w THEN i + 1 \in Nat /\ Piped(w, i + 1, e)
                             ELSE Piped(v, i, e)
      OBVIOUS
    <3>2. 1 \in Nat /\ i + 1 \in Nat /\ (i + 1 # 1 \/ i = 0)
      OBVIOUS
    <3>. QED
      BY <2>1, <2>3, <3>1, <3>2 DEF OnePlace
  <2>5. \A v, u \in Workers : \A i, j \in Nat :
          Piped(v, i, e)' /\ Piped(u, j, e)' => v = u /\ i = j
    BY <2>3, <2>4 DEF OnePlace
  <2>6. e = h => /\ ~Asked(e)
                 /\ \A k \in Threads : ~Carried(k, e)
                 /\ \A r \in Requests : ~Told(r, e)
    BY <2>1, <2>3 DEF OnePlace
  <2>7. \A q, r \in Requests : Told(q, e)' /\ Told(r, e)' => q = r
    BY <2>1, <2>3, <2>6 DEF OnePlace
  <2>8. Asked(e)' => /\ \A k \in Threads : ~Carried(k, e)'
                     /\ \A v \in Workers : \A i \in Nat : ~Piped(v, i, e)'
                     /\ \A r \in Requests : ~Told(r, e)'
    BY <2>1, <2>2, <2>3, <2>4, <2>6 DEF OnePlace
  <2>9. \A k \in Threads : Carried(k, e)' =>
          /\ \A j \in Threads : Carried(j, e)' => j = k
          /\ \A v \in Workers : \A i \in Nat : ~Piped(v, i, e)'
          /\ \A r \in Requests : ~Told(r, e)'
    BY <2>1, <2>2, <2>3, <2>4, <2>6 DEF OnePlace
  <2>10. \A v \in Workers : \A i \in Nat : Piped(v, i, e)' => \A r \in Requests : ~Told(r, e)'
    BY <2>1, <2>3, <2>4 DEF OnePlace
  <2>. QED
    BY <2>5, <2>7, <2>8, <2>9, <2>10 DEF OnePlace
<1>3. ASSUME NEW w \in Workers, Timeout(w) PROVE InOnePlace'
  <2> SUFFICES ASSUME NEW e \in Entries PROVE OnePlace(e)'
    BY DEF InOnePlace
  <2>1. /\ \A r \in Requests : Told(r, e)' => Told(r, e)
        /\ UNCHANGED <<inbox, found, pipe>>
    BY <1>3, TimeoutMoves
  <2>2. /\ Asked(e)' <=> Asked(e)
        /\ \A k \in Threads : Carried(k, e)' <=> Carried(k, e)
        /\ \A v \in Workers : \A i \in Nat : Piped(v, i, e)' <=> Piped(v, i, e)
    BY <2>1 DEF Asked, Carried, Piped
  <2>. QED
    BY <2>1, <2>2 DEF InOnePlace, OnePlace
<1>4. ASSUME NEW k \in Threads, NEW m \in inbox[Home[k]], Lookup(k, m) PROVE InOnePlace'
  <2> SUFFICES ASSUME NEW e \in Entries PROVE OnePlace(e)'
    BY DEF InOnePlace
  <2>1. PICK q \in Entries :
           /\ Asked(q) /\ (Asked(e)' <=> Asked(e) /\ e # q)
           /\ \A j \in Threads : Carried(j, e)' => Carried(j, e) \/ (j = k /\ e = q)
           /\ UNCHANGED <<pipe, answer>>
    BY <1>4, LookupMoves
  <2>2. /\ \A v \in Workers : \A i \in Nat : Piped(v, i, e)' <=> Piped(v, i, e)
        /\ \A r \in Requests : Told(r, e)' <=> Told(r, e)
    BY <2>1 DEF Piped, Told
  <2>. QED
    BY <2>1, <2>2 DEF InOnePlace, OnePlace
<1>5. ASSUME NEW k \in Threads, Send(k) \/ Acknowledged(k) \/ AckTimesOut(k) PROVE InOnePlace'
  BY <1>5, NothingMoves DEF Send, Acknowledged, AckTimesOut, cvars
<1>6. ASSUME NEW k \in Threads, Listen(k) PROVE InOnePlace'
  <2> SUFFICES ASSUME NEW e \in Entries PROVE OnePlace(e)'
    BY DEF InOnePlace
  <2>1. PICK q \in Entries, w \in Workers :
           /\ Carried(k, q)
           /\ \A j \in Threads : Carried(j, e)' <=> Carried(j, e) /\ j # k
           /\ \A v \in Workers : \A i \in Nat :
                Piped(v, i, e)' <=> \/ Piped(v, i, e)
                                    \/ Confident(q) /\ v = w /\ i = Len(pipe[w]) + 1 /\ e = q
           /\ UNCHANGED <<inbox, answer>>
    BY <1>6, ListenMoves
  <2>2. /\ Asked(e)' <=> Asked(e)
        /\ \A r \in Requests : Told(r, e)' <=> Told(r, e)
    BY <2>1 DEF Asked, Told
  <2>. QED
    BY <2>1, <2>2 DEF InOnePlace, OnePlace
<1>7. ASSUME NEW t \in Tables, NEW m \in inbox[t], Miss(t, m) PROVE InOnePlace'
  <2> SUFFICES ASSUME NEW e \in Entries PROVE OnePlace(e)'
    BY DEF InOnePlace
  <2>1. /\ \A k \in Threads : Carried(k, e)' <=> Carried(k, e)
        /\ \A v \in Workers : \A i \in Nat : Piped(v, i, e)' <=> Piped(v, i, e)
        /\ \A r \in Requests : Told(r, e)' <=> Told(r, e)
    BY <1>7, MissMoves DEF Carried, Piped, Told
  <2>. QED
    BY <1>7, <2>1, MissMoves DEF InOnePlace, OnePlace
<1>8. CASE UNCHANGED vars
  BY <1>8, NothingMoves DEF vars, cvars, tvars
<1>. QED
  BY <1>1, <1>2, <1>3, <1>4, <1>5, <1>6, <1>7, <1>8 DEF Next, Thread, Waiting

LEMMA OnceInvHolds == Spec => []OnceInv
<1>1. Init => OnceInv
  <2> SUFFICES ASSUME Init PROVE InOnePlace
    BY IInvInit DEF OnceInv
  <2> SUFFICES ASSUME NEW e \in Entries PROVE OnePlace(e)
    BY DEF InOnePlace
  <2>1. ~Asked(e) /\ NotCarried(e) /\ NotPiped(e) /\ NotTold(e)
    BY NoneIsNothing
       DEF Init, Entries, Asked, NotCarried, Carried, NotPiped, Piped, NotTold, Told
  <2>. QED
    BY <2>1 DEF OnePlace, NotCarried, NotPiped, NotTold
<1>2. OnceInv /\ [Next]_vars => OnceInv'
  BY IInvStep, OnePlaceStep DEF OnceInv
<1>. QED
  BY <1>1, <1>2, PTL DEF Spec

\* Whatever is late, lost or dropped, no result answers two queries.
THEOREM ResultsUsedOnce == Spec => []NoResultUsedTwice
<1>1. OnceInv => NoResultUsedTwice
  <2> SUFFICES ASSUME OnceInv, NEW q \in Requests, NEW r \in Requests, q # r, answer[q] # None,
                      answer[q] = answer[r]
               PROVE  FALSE
    BY DEF NoResultUsedTwice
  <2>1. answer[q] \in Entries
    BY DEF OnceInv, IInv, TypeOK
  <2>2. Told(q, answer[q]) /\ Told(r, answer[q])
    BY DEF Told
  <2>. QED
    BY <2>1, <2>2 DEF OnceInv, InOnePlace, OnePlace
<1>. QED
  BY <1>1, OnceInvHolds, PTL

-----------------------------------------------------------------------------
(* With time for everything under way and at most one table server that    *)
(* holds a hash, a client gets what was found for its own hash, and the    *)
(* path implements the promise of QueryService.                            *)

\* What the documented promise silently assumes.
Prompt == /\ "wait" \notin Faults
          /\ \A r \in Requests : \A t, u \in Holders[r] : t = u

Moving(e) == \/ Asked(e)
             \/ \E k \in Threads : Carried(k, e)
             \/ \E w \in Workers : \E i \in Nat : Piped(w, i, e)

Held(e) == e.tbl \in Holders[e.req]

\* A worker serves a request that was asked and not answered.
Serving == \A w \in Workers : cur[w] # None => client[cur[w]] = "asked"

\* What a thread has or sent reached the table servers' threshold.
Recognised ==
  /\ \A k \in Threads : found[k] # None =>
       Score[found[k].entry.req][found[k].entry.tbl] >= LookupThreshold
  /\ \A w \in Workers : \A i \in 1 .. Len(pipe[w]) :
       Score[pipe[w][i].req][pipe[w][i].tbl] >= LookupThreshold

\* A result that will be told to someone belongs to the request its worker serves.
Current == \A e \in Entries : Held(e) /\ Moving(e) => cur[by[e.req]] = e.req

\* An answer is an entry of a table server that holds this hash.
AnswersRight == \A r \in Requests : answer[r] # None => answer[r].req = r /\ Held(answer[r])

RightInv == OnceInv /\ Serving /\ Recognised /\ Current /\ AnswersRight

\* Holders as a set of entries: both thresholds are reached.
LEMMA HeldMeans ==
  ASSUME NEW e \in Entries
  PROVE  Held(e) <=> Confident(e) /\ Score[e.req][e.tbl] >= LookupThreshold
  BY DEF Held, Holders, Confident, Entries

\* What moves for a worker holds back its timeout.
LEMMA MovingIsInFlight ==
  ASSUME IInv, NEW e \in Entries, Moving(e)
  PROVE  by[e.req] \in Workers /\ InFlight(by[e.req])
<1>1. CASE Asked(e)
  <2>1. PICK m \in inbox[e.tbl] : m.req = e.req
    BY <1>1 DEF Asked
  <2>2. e.tbl \in Tables
    BY DEF Entries
  <2>3. m.thr = by[e.req] /\ m.thr \in Workers
    BY <2>1, <2>2 DEF IInv, TypeOK, Routed, Queries
  <2>. QED
    BY <2>1, <2>2, <2>3 DEF InFlight
<1>2. CASE \E k \in Threads : Carried(k, e)
  BY <1>2 DEF Carried, InFlight, IInv, TypeOK, Routed, Results
<1>3. CASE \E w \in Workers : \E i \in Nat : Piped(w, i, e)
  <2>1. PICK w \in Workers, i \in Nat : Piped(w, i, e)
    BY <1>3
  <2>2. by[e.req] = w /\ pipe[w] # <<>>
    BY <2>1 DEF Piped, IInv, TypeOK, Routed
  <2>. QED
    BY <2>2 DEF InFlight
<1>. QED
  BY <1>1, <1>2, <1>3 DEF Moving

\* Serving and Recognised, step by step.
LEMMA ServingStep == IInv /\ Serving /\ [Next]_vars => Serving'
<1> SUFFICES ASSUME IInv, Serving, [Next]_vars PROVE Serving'
  OBVIOUS
<1>1. ASSUME NEW w \in Workers, NEW r \in Requests, Accept(w, r) PROVE Serving'
  BY <1>1, NoneIsNothing DEF Serving, Accept, IInv, TypeOK
<1>2. ASSUME NEW w \in Workers, Waiting(w) PROVE Serving'
  <2>1. /\ client' = [client EXCEPT ![cur[w]] = "done"]
        /\ cur' = [cur EXCEPT ![w] = None] /\ cur[w] # None
    BY <1>2 DEF Waiting, Take, Timeout, Reply
  <2>2. \A v \in Workers : v # w /\ cur[v] # None => cur[v] # cur[w]
    BY <2>1 DEF IInv, Routed
  <2>. QED
    BY <2>1, <2>2 DEF Serving, IInv, TypeOK
<1>3. CASE UNCHANGED <<client, cur>>
  BY <1>3 DEF Serving
<1>. QED
  BY <1>1, <1>2, <1>3
     DEF Next, Thread, Lookup, Send, Acknowledged, AckTimesOut, Listen, Miss, vars, cvars

LEMMA RecognisedStep == IInv /\ Recognised /\ [Next]_vars => Recognised'
<1> SUFFICES ASSUME IInv, Recognised, [Next]_vars PROVE Recognised'
  OBVIOUS
<1>1. ASSUME NEW w \in Workers, Take(w) PROVE Recognised'
  <2>1. pipe \in [Workers -> Seq(Entries)] /\ pipe[w] \in Seq(Entries) /\ pipe[w] # <<>>
    BY <1>1 DEF Take, IInv, TypeOK
  <2>2. pipe' = [pipe EXCEPT ![w] = Tail(pipe[w])] /\ found' = found
    BY <1>1 DEF Take, Reply, tvars
  <2>3. SUFFICES ASSUME NEW v \in Workers, NEW i \in 1 .. Len(pipe'[v])
                 PROVE  Score[pipe'[v][i].req][pipe'[v][i].tbl] >= LookupThreshold
    BY <2>2 DEF Recognised
  <2>4. CASE v = w
    BY <2>1, <2>2, <2>3, <2>4, HeadTail DEF Recognised
  <2>5. CASE v # w
    BY <2>1, <2>2, <2>3, <2>5 DEF Recognised
  <2>. QED
    BY <2>4, <2>5
<1>2. ASSUME NEW k \in Threads, NEW m \in inbox[Home[k]], Lookup(k, m) PROVE Recognised'
  <2>1. \/ found' = found
        \/ /\ found' = [found EXCEPT ![k] = Result(m.thr, m.req, Home[k])]
           /\ Score[m.req][Home[k]] >= LookupThreshold
    BY <1>2 DEF Lookup
  <2>2. pipe' = pipe
    BY <1>2 DEF Lookup
  <2>3. ASSUME NEW j \in Threads, found'[j] # None
        PROVE  Score[found'[j].entry.req][found'[j].entry.tbl] >= LookupThreshold
    BY <2>1, <2>3 DEF Recognised, Result, Entry, IInv, TypeOK
  <2>. QED
    BY <2>2, <2>3 DEF Recognised
<1>3. ASSUME NEW k \in Threads, Listen(k) PROVE Recognised'
  <2> DEFINE w == found[k].thr
             e == found[k].entry
  <2>1. /\ found[k] # None /\ w \in Workers /\ e \in Entries
        /\ Score[e.req][e.tbl] >= LookupThreshold
    BY <1>3 DEF Listen, IInv, TypeOK, HasResult, Results, Recognised
  <2>2. /\ found' = [found EXCEPT ![k] = None]
        /\ pipe' = pipe \/ pipe' = [pipe EXCEPT ![w] = Append(pipe[w], e)]
    BY <1>3 DEF Listen
  <2>. HIDE DEF w, e
  <2>3. pipe \in [Workers -> Seq(Entries)] /\ pipe[w] \in Seq(Entries)
    BY <2>1 DEF IInv, TypeOK
  <2>4. ASSUME NEW v \in Workers, NEW i \in 1 .. Len(pipe'[v])
        PROVE  Score[pipe'[v][i].req][pipe'[v][i].tbl] >= LookupThreshold
    <3>1. CASE pipe'[v] = pipe[v]
      BY <2>4, <3>1 DEF Recognised
    <3>2. CASE v = w /\ pipe'[v] = Append(pipe[w], e)
      <4>1. pipe'[v][i] = e \/ (i \in 1 .. Len(pipe[w]) /\ pipe'[v][i] = pipe[w][i])
        BY <2>1, <2>3, <2>4, <3>2, Appended
      <4>. QED
        BY <2>1, <4>1 DEF Recognised
    <3>. QED
      BY <2>2, <2>3, <3>1, <3>2
  <2>. QED
    BY <2>2, <2>4 DEF Recognised, IInv, TypeOK
<1>4. CASE UNCHANGED <<found, pipe>>
  BY <1>4 DEF Recognised
<1>. QED
  BY <1>1, <1>2, <1>3, <1>4
     DEF Next, Waiting, Thread, Accept, Timeout, Reply, Send, Acknowledged, AckTimesOut, Miss,
         vars, tvars

\* The result a worker takes is for the request it serves.
LEMMA TakesItsOwn ==
  ASSUME RightInv, NEW w \in Workers, Take(w), NEW h \in Entries, Piped(w, 1, h)
  PROVE  Held(h) /\ by[h.req] = w /\ h.req = cur[w]
<1>1. Held(h) /\ by[h.req] = w
  BY HeldMeans
     DEF RightInv, OnceInv, IInv, PipesConfident, Recognised, Routed, Piped, Confident
<1>2. Moving(h)
  BY DEF Moving
<1>. QED
  BY <1>1, <1>2 DEF RightInv, Current

LEMMA RightStep == Prompt /\ RightInv /\ [Next]_vars => RightInv'
<1> SUFFICES ASSUME Prompt, RightInv, [Next]_vars PROVE RightInv'
  OBVIOUS
<1>. IInv /\ InOnePlace /\ Serving /\ Recognised /\ Current /\ AnswersRight
  BY DEF RightInv, OnceInv
<1> SUFFICES Current' /\ AnswersRight'
  BY IInvStep, OnePlaceStep, ServingStep, RecognisedStep DEF RightInv, OnceInv
\* Without a new answer and a new assignment it is enough that nothing appears.
<1>0. ASSUME \A e \in Entries : Moving(e)' => Moving(e), UNCHANGED <<cur, by, answer>>
      PROVE  Current' /\ AnswersRight'
  BY <1>0 DEF Current, AnswersRight, Held
<1>1. ASSUME NEW w \in Workers, NEW r \in Requests, Accept(w, r) PROVE Current' /\ AnswersRight'
  <2>1. /\ cur[w] = None /\ cur' = [cur EXCEPT ![w] = r]
        /\ by' = [by EXCEPT ![r] = w] /\ answer' = answer
    BY <1>1 DEF Accept
  <2>2. ASSUME NEW e \in Entries, Held(e), Moving(e)' PROVE cur'[by'[e.req]] = e.req
    <3>1. CASE e.req = r
      BY <2>1, <3>1 DEF IInv, TypeOK
    <3>2. CASE e.req # r
      <4>1. Moving(e)
        BY <1>1, <2>2, <3>2, AcceptMoves DEF Moving, Carried, Piped
      <4>2. cur[by[e.req]] = e.req /\ e.req # None /\ e.req \in Requests
        BY <2>2, <4>1, NoneIsNothing DEF Current, Entries
      <4>3. by[e.req] # w
        BY <2>1, <4>2
      <4>4. by'[e.req] = by[e.req] /\ by[e.req] \in Workers
        BY <2>1, <3>2, <4>1, <4>2, MovingIsInFlight DEF IInv, TypeOK
      <4>. QED
        BY <2>1, <4>2, <4>3, <4>4 DEF IInv, TypeOK
    <3>. QED
      BY <3>1, <3>2
  <2>. QED
    BY <2>1, <2>2 DEF Current, AnswersRight, Held
<1>2. ASSUME NEW w \in Workers, Take(w) PROVE Current' /\ AnswersRight'
  <2>1. PICK h \in Entries :
           /\ Piped(w, 1, h)
           /\ cur[w] \in Requests /\ answer' = [answer EXCEPT ![cur[w]] = h]
           /\ \A e \in Entries, v \in Workers : \A i \in Nat :
                Piped(v, i, e)' <=> IF v = w THEN i >= 1 /\ Piped(w, i + 1, e) ELSE Piped(v, i, e)
           /\ UNCHANGED <<inbox, found>>
    BY <1>2, TakeMoves
  <2>2. Held(h) /\ by[h.req] = w /\ h.req = cur[w]
    BY <1>2, <2>1, TakesItsOwn
  <2>3. AnswersRight'
    BY <2>1, <2>2 DEF AnswersRight, Held, IInv, TypeOK
  <2>4. cur' = [cur EXCEPT ![w] = None] /\ by' = by
    BY <1>2 DEF Take, Reply
  <2>5. ASSUME NEW e \in Entries, Held(e), Moving(e)' PROVE cur'[by'[e.req]] = e.req
    <3>1. /\ Asked(e)' <=> Asked(e)
          /\ \A k \in Threads : Carried(k, e)' <=> Carried(k, e)
      BY <2>1 DEF Asked, Carried
    <3>2. Moving(e)
      BY <2>1, <2>5, <3>1 DEF Moving
    <3>3. e # h
      <4>1. OnePlace(h)
        BY DEF InOnePlace
      <4>2. ~Asked(h) /\ \A k \in Threads : ~Carried(k, h)
        BY <2>1, <4>1 DEF OnePlace, NotPiped
      <4>3. \A v \in Workers : \A i \in Nat : ~Piped(v, i, h)'
        <5>1. SUFFICES ASSUME NEW v \in Workers, NEW i \in Nat, Piped(v, i, h)' PROVE FALSE
          OBVIOUS
        <5>2. CASE v = w
          BY <2>1, <4>1, <5>1, <5>2 DEF OnePlace
        <5>3. CASE v # w
          BY <2>1, <4>1, <5>1, <5>3 DEF OnePlace
        <5>. QED
          BY <5>2, <5>3
      <4>. QED
        BY <2>5, <3>1, <4>2, <4>3 DEF Moving
    <3>4. cur[by[e.req]] = e.req /\ by[e.req] \in Workers
      BY <2>5, <3>2, MovingIsInFlight DEF Current
    <3>5. by[e.req] # w
      <4>1. SUFFICES ASSUME by[e.req] = w PROVE e = h
        BY <3>3
      <4>2. e.req = h.req
        BY <2>2, <3>4, <4>1
      <4>. QED
        BY <2>2, <2>5, <4>2 DEF Prompt, Held, Entries
    <3>. QED
      BY <2>4, <3>4, <3>5 DEF IInv, TypeOK
  <2>. QED
    BY <2>3, <2>4, <2>5 DEF Current, Held
<1>3. ASSUME NEW w \in Workers, Timeout(w) PROVE Current' /\ AnswersRight'
  <2>1. ~InFlight(w) /\ cur' = [cur EXCEPT ![w] = None] /\ by' = by
        /\ answer' = [answer EXCEPT ![cur[w]] = None] /\ cur[w] \in Requests
    BY <1>3 DEF Timeout, Reply, Prompt, IInv, TypeOK
  <2>2. AnswersRight'
    BY <2>1 DEF AnswersRight, Held, IInv, TypeOK
  <2>3. ASSUME NEW e \in Entries, Held(e), Moving(e)' PROVE cur'[by'[e.req]] = e.req
    <3>1. Moving(e)
      BY <1>3, <2>3, TimeoutMoves DEF Moving, Asked, Carried, Piped
    <3>2. by[e.req] # w /\ cur[by[e.req]] = e.req /\ by[e.req] \in Workers
      BY <2>1, <2>3, <3>1, MovingIsInFlight DEF Current
    <3>. QED
      BY <2>1, <3>2 DEF IInv, TypeOK
  <2>. QED
    BY <2>1, <2>2, <2>3 DEF Current, Held
<1>4. ASSUME NEW k \in Threads, NEW m \in inbox[Home[k]], Lookup(k, m)
      PROVE  Current' /\ AnswersRight'
  <2>1. UNCHANGED <<cur, by, answer>>
    BY <1>4 DEF Lookup, cvars
  <2>2. PICK q \in Entries :
           /\ Asked(q)
           /\ \A e \in Entries : Asked(e)' <=> Asked(e) /\ e # q
           /\ \A e \in Entries, j \in Threads :
                Carried(j, e)' => Carried(j, e) \/ (j = k /\ e = q)
           /\ UNCHANGED pipe
    BY <1>4, LookupMoves
  <2>3. \A e \in Entries : Moving(e)' => Moving(e)
    BY <2>2 DEF Moving, Piped
  <2>. QED
    BY <1>0, <2>1, <2>3
<1>5. ASSUME NEW k \in Threads, Listen(k) PROVE Current' /\ AnswersRight'
  <2>1. UNCHANGED <<cur, by, answer>>
    BY <1>5 DEF Listen, cvars
  <2>2. PICK q \in Entries, w \in Workers :
           /\ Carried(k, q)
           /\ \A e \in Entries, j \in Threads : Carried(j, e)' <=> Carried(j, e) /\ j # k
           /\ \A e \in Entries, v \in Workers : \A i \in Nat :
                Piped(v, i, e)' <=> \/ Piped(v, i, e)
                                    \/ Confident(q) /\ v = w /\ i = Len(pipe[w]) + 1 /\ e = q
           /\ UNCHANGED inbox
    BY <1>5, ListenMoves
  <2>3. \A e \in Entries : Moving(e)' => Moving(e)
    BY <2>2 DEF Moving, Asked
  <2>. QED
    BY <1>0, <2>1, <2>3
<1>6. ASSUME NEW t \in Tables, NEW m \in inbox[t], Miss(t, m) PROVE Current' /\ AnswersRight'
  <2>1. UNCHANGED <<cur, by, answer, found, pipe>>
    BY <1>6 DEF Miss, cvars, tvars
  <2>2. \A e \in Entries : Moving(e)' => Moving(e)
    BY <1>6, <2>1, MissMoves DEF Moving, Carried, Piped
  <2>. QED
    BY <1>0, <2>1, <2>2
<1>7. CASE UNCHANGED <<cur, by, answer, inbox, found, pipe>>
  BY <1>0, <1>7 DEF Moving, Asked, Carried, Piped
<1>. QED
  BY <1>1, <1>2, <1>3, <1>4, <1>5, <1>6, <1>7
     DEF Next, Waiting, Thread, Send, Acknowledged, AckTimesOut, vars, cvars, tvars

LEMMA RightInit == Init => RightInv
<1> SUFFICES ASSUME Init PROVE RightInv
  OBVIOUS
<1>1. \A e \in Entries : ~Moving(e)
  BY NoneIsNothing DEF Init, Entries, Moving, Asked, Carried, Piped
<1>2. InOnePlace
  BY <1>1, NoneIsNothing
     DEF InOnePlace, OnePlace, Moving, NotCarried, NotPiped, NotTold, Told, Init
<1>3. Serving /\ Recognised /\ Current /\ AnswersRight
  BY <1>1 DEF Init, Serving, Recognised, Current, AnswersRight
<1>. QED
  BY <1>2, <1>3, IInvInit DEF RightInv, OnceInv

\* The documented promise, with what it takes: a client is told of the entry found
\* for its own hash if no answer is waited for in vain and no two table servers
\* hold the hash.
THEOREM AnswersRightIfPrompt == Prompt => (Spec => []AnswersAreForTheirRequest)
<1> SUFFICES ASSUME Prompt PROVE Spec => []AnswersAreForTheirRequest
  OBVIOUS
<1>1. RightInv /\ [Next]_vars => RightInv'
  BY RightStep
<1>2. RightInv => AnswersAreForTheirRequest
  BY DEF RightInv, AnswersRight, AnswersAreForTheirRequest
<1>. QED
  BY <1>1, <1>2, RightInit, PTL DEF Spec

-----------------------------------------------------------------------------
(* If no message is late, what a table server holds that is not down is on *)
(* its way until it is told.                                               *)

\* A thread that takes a query has its socket free and nothing to send.
Quiet ==
  \A k \in Threads :
    /\ doing[k] = "idle" => socket[k] = "ready" /\ found[k] = None
    /\ doing[k] = "send" => socket[k] = "ready"
    /\ socket[k] = "acked" => found[k] = None

Coming ==
  \A w \in Workers : cur[w] # None =>
    \A t \in Holders[cur[w]] \ Down : Moving(Entry(cur[w], t))

FoundInv == IInv /\ Serving /\ Quiet /\ Coming /\ HeldIsFound

LEMMA QuietStep == Faults = {} /\ IInv /\ Quiet /\ [Next]_vars => Quiet'
<1> SUFFICES ASSUME Faults = {}, IInv, Quiet, [Next]_vars PROVE Quiet'
  OBVIOUS
<1>1. ASSUME NEW k \in Threads, NEW m \in inbox[Home[k]], Lookup(k, m) PROVE Quiet'
  BY <1>1 DEF Lookup, Quiet, IInv, TypeOK
<1>2. ASSUME NEW k \in Threads, Send(k) PROVE Quiet'
  BY <1>2 DEF Send, Quiet, IInv, TypeOK
<1>3. ASSUME NEW k \in Threads, Acknowledged(k) PROVE Quiet'
  BY <1>3 DEF Acknowledged, Quiet, IInv, TypeOK
<1>4. ASSUME NEW k \in Threads, Listen(k) PROVE Quiet'
  BY <1>4 DEF Listen, Quiet, IInv, TypeOK
<1>5. CASE UNCHANGED tvars
  BY <1>5 DEF tvars, Quiet
<1>. QED
  BY <1>1, <1>2, <1>3, <1>4, <1>5
     DEF Next, Waiting, Thread, Accept, Take, Timeout, Reply, Miss, AckTimesOut, vars

\* An entry of a request that is being served is one of Entries.
LEMMA ServedEntry ==
  ASSUME IInv, NEW w \in Workers, cur[w] # None, NEW t \in Holders[cur[w]]
  PROVE  /\ cur[w] \in Requests /\ by[cur[w]] = w
         /\ Entry(cur[w], t) \in Entries /\ Entry(cur[w], t).req = cur[w]
         /\ Held(Entry(cur[w], t))
<1>1. cur[w] \in Requests /\ by[cur[w]] = w
  BY DEF IInv, TypeOK, Routed
<1>2. t \in Tables
  BY <1>1 DEF Holders
<1>. QED
  BY <1>1, <1>2 DEF Entry, Entries, Held

LEMMA ComingStep ==
  ASSUME Faults = {}, FoundInv, [Next]_vars
  PROVE  Coming'
<1>. IInv /\ Quiet /\ Coming
  BY DEF FoundInv
\* A held entry of a request that keeps being served has to keep moving.
<1>0. ASSUME \A v \in Workers : cur'[v] # None => cur'[v] = cur[v],
             \A e \in Entries :
               Held(e) /\ e.tbl \notin Down /\ Moving(e) /\ cur'[by[e.req]] # None => Moving(e)'
      PROVE  Coming'
  BY <1>0, ServedEntry DEF Coming, Entry
<1>1. ASSUME NEW w \in Workers, NEW r \in Requests, Accept(w, r) PROVE Coming'
  <2>1. cur' = [cur EXCEPT ![w] = r]
    BY <1>1 DEF Accept
  <2>2. \A e \in Entries : (e.req = r => Asked(e)') /\ (Moving(e) => Moving(e)')
    BY <1>1, AcceptMoves DEF Moving, Carried, Piped
  <2>3. SUFFICES ASSUME NEW v \in Workers, NEW q, q = cur'[v], q # None,
                        NEW t \in Holders[q] \ Down
                 PROVE  Moving(Entry(q, t))'
    BY DEF Coming
  <2>4. CASE v = w
    <3>1. q = r
      BY <2>1, <2>3, <2>4 DEF IInv, TypeOK
    <3>2. Entry(r, t) \in Entries /\ Entry(r, t).req = r
      BY <2>3, <3>1 DEF Holders, Entry, Entries
    <3>3. Asked(Entry(r, t))'
      BY <2>2, <3>2
    <3>. QED
      BY <3>1, <3>3 DEF Moving
  <2>5. CASE v # w
    <3>1. q = cur[v]
      BY <2>1, <2>3, <2>5 DEF IInv, TypeOK
    <3>2. Entry(cur[v], t) \in Entries /\ Moving(Entry(cur[v], t))
      BY <2>3, <3>1, ServedEntry DEF Coming
    <3>. QED
      BY <2>2, <3>1, <3>2
  <2>. QED
    BY <2>4, <2>5
<1>2. ASSUME NEW w \in Workers, Waiting(w) PROVE Coming'
  <2>1. cur' = [cur EXCEPT ![w] = None] /\ by' = by /\ UNCHANGED <<inbox, found>>
    BY <1>2 DEF Waiting, Take, Timeout, Reply, tvars
  <2>2. ASSUME NEW e \in Entries, Held(e), Moving(e), cur'[by[e.req]] # None
        PROVE  Moving(e)'
    <3>1. by[e.req] # w
      BY <2>1, <2>2 DEF IInv, TypeOK
    <3>2. (Asked(e)' <=> Asked(e)) /\ \A k \in Threads : Carried(k, e)' <=> Carried(k, e)
      BY <2>1 DEF Asked, Carried
    <3>3. \A v \in Workers : \A i \in Nat : Piped(v, i, e) => Piped(v, i, e)'
      <4>1. SUFFICES ASSUME NEW v \in Workers, NEW i \in Nat, Piped(v, i, e)
                     PROVE  Piped(v, i, e)'
        OBVIOUS
      <4>2. v # w
        BY <3>1, <4>1 DEF Piped, IInv, Routed
      <4>3. pipe'[v] = pipe[v]
        BY <1>2, <4>2 DEF Waiting, Take, Timeout, IInv, TypeOK
      <4>. QED
        BY <4>1, <4>3 DEF Piped
    <3>. QED
      BY <2>2, <3>2, <3>3 DEF Moving
  <2>3. \A v \in Workers : cur'[v] # None => cur'[v] = cur[v]
    BY <2>1 DEF IInv, TypeOK
  <2>. QED
    BY <1>0, <2>2, <2>3
<1>3. ASSUME NEW k \in Threads, NEW m \in inbox[Home[k]], Lookup(k, m) PROVE Coming'
  <2>1. UNCHANGED cur
    BY <1>3 DEF Lookup
  <2>2. PICK q \in Entries :
           /\ q = Entry(m.req, Home[k])
           /\ \A e \in Entries : Asked(e)' <=> Asked(e) /\ e # q
           /\ UNCHANGED pipe
    BY <1>3, LookupMoves
  <2>3. found[k] = None /\ socket[k] = "ready"
    BY <1>3 DEF Lookup, Quiet
  <2>4. \A e \in Entries, j \in Threads : Carried(j, e) => Carried(j, e)'
    BY <1>3, <2>3 DEF Lookup, Carried, IInv, TypeOK
  <2>5. Held(q) => Carried(k, q)'
    <3>1. SUFFICES ASSUME Held(q) PROVE Carried(k, q)'
      OBVIOUS
    <3>2. Home[k] \in Tables /\ m \in Queries
      BY PathAssumption DEF IInv, TypeOK
    <3>3. Score[m.req][Home[k]] >= LookupThreshold
      BY <2>2, <3>1, <3>2, HeldMeans DEF Entry, Queries
    <3>4. found'[k] = Result(m.thr, m.req, Home[k])
      BY <1>3, <2>3, <3>3 DEF Lookup, IInv, TypeOK
    <3>5. Result(m.thr, m.req, Home[k]) \in Results
      BY <3>2 DEF Result, Results, Entry, Entries, Queries
    <3>. QED
      BY <2>2, <3>4, <3>5, NoneIsNothing DEF Carried, Result
  <2>6. \A e \in Entries : Held(e) /\ Moving(e) => Moving(e)'
    BY <2>2, <2>4, <2>5 DEF Moving, Piped
  <2>. QED
    BY <1>0, <2>1, <2>6
<1>4. ASSUME NEW k \in Threads, Listen(k) PROVE Coming'
  <2>1. UNCHANGED cur
    BY <1>4 DEF Listen
  <2>2. PICK q \in Entries, w \in Workers :
           /\ Carried(k, q)
           /\ \A e \in Entries, j \in Threads : Carried(j, e)' <=> Carried(j, e) /\ j # k
           /\ \A e \in Entries, v \in Workers : \A i \in Nat :
                Piped(v, i, e)' <=> \/ Piped(v, i, e)
                                    \/ Confident(q) /\ v = w /\ i = Len(pipe[w]) + 1 /\ e = q
           /\ UNCHANGED inbox
    BY <1>4, ListenMoves
  <2>3. Len(pipe[w]) + 1 \in Nat
    BY DEF IInv, TypeOK
  <2>4. \A e \in Entries : Carried(k, e) => e = q
    BY <2>2 DEF Carried
  <2>5. \A e \in Entries : Held(e) /\ Moving(e) => Moving(e)'
    BY <2>2, <2>3, <2>4, HeldMeans DEF Moving, Asked
  <2>. QED
    BY <1>0, <2>1, <2>5
<1>5. ASSUME NEW t \in Tables, NEW m \in inbox[t], Miss(t, m) PROVE Coming'
  <2>1. UNCHANGED <<cur, found, pipe>> /\ t \in Down
    BY <1>5 DEF Miss, cvars, tvars
  <2>2. \A e \in Entries : Asked(e) /\ e.tbl \notin Down => Asked(e)'
    BY <1>5, <2>1, MissMoves
  <2>3. \A e \in Entries : e.tbl \notin Down /\ Moving(e) => Moving(e)'
    BY <2>1, <2>2 DEF Moving, Carried, Piped
  <2>. QED
    BY <1>0, <2>1, <2>3
<1>6. CASE UNCHANGED <<cur, inbox, found, pipe>>
  BY <1>0, <1>6 DEF Moving, Asked, Carried, Piped
<1>. QED
  BY <1>1, <1>2, <1>3, <1>4, <1>5, <1>6
     DEF Next, Thread, Send, Acknowledged, AckTimesOut, vars, cvars, tvars

\* Nobody waits in vain for something that a table server holds.
LEMMA NoEmptyTimeout ==
  ASSUME Faults = {}, FoundInv, NEW w \in Workers, Timeout(w)
  PROVE  Holders[cur[w]] \ Down = {}
<1>1. SUFFICES ASSUME NEW t \in Holders[cur[w]] \ Down PROVE FALSE
  OBVIOUS
<1>2. cur[w] # None /\ ~InFlight(w)
  BY DEF Timeout
<1>3. /\ Entry(cur[w], t) \in Entries /\ Moving(Entry(cur[w], t))
      /\ by[Entry(cur[w], t).req] = w
  BY <1>2, ServedEntry DEF FoundInv, Coming
<1>. QED
  BY <1>2, <1>3, MovingIsInFlight DEF FoundInv

LEMMA FoundStep == Faults = {} /\ FoundInv /\ [Next]_vars => FoundInv'
<1> SUFFICES ASSUME Faults = {}, FoundInv, [Next]_vars PROVE FoundInv'
  OBVIOUS
<1>. IInv /\ HeldIsFound
  BY DEF FoundInv
<1> SUFFICES HeldIsFound'
  BY IInvStep, ServingStep, QuietStep, ComingStep DEF FoundInv
<1>1. ASSUME NEW w \in Workers, NEW r \in Requests, Accept(w, r) PROVE HeldIsFound'
  BY <1>1 DEF Accept, HeldIsFound, IInv, TypeOK
<1>2. ASSUME NEW w \in Workers, Waiting(w) PROVE HeldIsFound'
  <2>1. PICK e \in Entries \cup {None} :
          /\ Reply(w, e) /\ cur[w] \in Requests
          /\ e = None => Holders[cur[w]] \ Down = {}
    <3>1. CASE Take(w)
      BY <1>2, <3>1, TakeMoves, HeadTail, NoneIsNothing DEF Take, IInv, TypeOK
    <3>2. CASE Timeout(w)
      BY <3>2, NoEmptyTimeout DEF Timeout, IInv, TypeOK
    <3>. QED
      BY <1>2, <3>1, <3>2 DEF Waiting
  <2>. QED
    BY <2>1 DEF Reply, HeldIsFound, IInv, TypeOK
<1>3. CASE UNCHANGED <<client, answer>>
  BY <1>3 DEF HeldIsFound
<1>. QED
  BY <1>1, <1>2, <1>3
     DEF Next, Thread, Lookup, Send, Acknowledged, AckTimesOut, Listen, Miss, vars, cvars

LEMMA FoundInit == Init => FoundInv
<1>1. Init => Serving /\ Quiet /\ Coming /\ HeldIsFound
  BY DEF Init, Serving, Quiet, Coming, HeldIsFound
<1>. QED
  BY <1>1, IInvInit DEF FoundInv

\* "As long as the portion being hashed was previously added to the index,
\* AudioScout should find the matching signal": if no message is late, an answer is
\* empty only if all table servers that hold the hash may be down.
THEOREM HeldIsFoundIfPrompt == Faults = {} => (Spec => []HeldIsFound)
<1> SUFFICES ASSUME Faults = {} PROVE Spec => []HeldIsFound
  OBVIOUS
<1>1. FoundInv /\ [Next]_vars => FoundInv'
  BY FoundStep
<1>2. FoundInv => HeldIsFound
  BY DEF FoundInv
<1>. QED
  BY <1>1, <1>2, FoundInit, PTL DEF Spec

-----------------------------------------------------------------------------
(* The path implements the promise, step by step.                          *)

\* The safety part of Promise!Service: its fairness stays with the model checker.
PromiseSafety == Promise!SInit /\ [][Promise!SNext]_Promise!svars

PromiseInv == RightInv /\ (Faults = {} => FoundInv)

LEMMA ImplementsStep ==
  ASSUME Prompt, PromiseInv, [Next]_vars
  PROVE  [Promise!SNext]_Promise!svars
<1>. RightInv /\ IInv /\ Serving
  BY DEF PromiseInv, RightInv, OnceInv
<1>1. ASSUME NEW w \in Workers, NEW r \in Requests, Accept(w, r) PROVE Promise!SNext
  BY <1>1 DEF Accept, Promise!SNext, Promise!Ask
<1>2. ASSUME NEW w \in Workers, Waiting(w) PROVE Promise!SNext
  <2>1. cur[w] \in Requests /\ client[cur[w]] = "asked"
        /\ client' = [client EXCEPT ![cur[w]] = "done"]
    BY <1>2 DEF Waiting, Take, Timeout, Reply, Serving, IInv, TypeOK
  <2>2. \E e \in Promise!Right(cur[w]) : answer' = [answer EXCEPT ![cur[w]] = e]
    <3>1. CASE Take(w)
      <4>1. PICK h \in Entries : Piped(w, 1, h) /\ answer' = [answer EXCEPT ![cur[w]] = h]
        BY <3>1, TakeMoves
      <4>2. Held(h) /\ h.req = cur[w]
        BY <3>1, <4>1, TakesItsOwn
      <4>3. h = Promise!Entry(cur[w], h.tbl)
        BY <4>2 DEF Entries, Promise!Entry
      <4>4. h \in Promise!Entries(cur[w])
        BY <4>2, <4>3 DEF Promise!Entries, Held
      <4>. QED
        BY <4>1, <4>4 DEF Promise!Right
    <3>2. CASE Timeout(w)
      <4>1. answer' = [answer EXCEPT ![cur[w]] = None]
        BY <3>2 DEF Timeout, Reply
      <4>2. Faults = {} => Holders[cur[w]] \ Down = {}
        BY <3>2, NoEmptyTimeout DEF PromiseInv
      <4>. QED
        BY <4>1, <4>2 DEF Promise!Right
    <3>. QED
      BY <1>2, <3>1, <3>2 DEF Waiting
  <2>. QED
    BY <2>1, <2>2 DEF Promise!SNext, Promise!Respond
<1>3. CASE UNCHANGED <<client, answer>>
  BY <1>3 DEF Promise!svars
<1>. QED
  BY <1>1, <1>2, <1>3
     DEF Next, Thread, Lookup, Send, Acknowledged, AckTimesOut, Listen, Miss, vars, cvars

\* With at most one holder of each hash and time for what is under way, every step
\* of the path is a step of the service or none: one answer to a query, the right
\* entry or nothing; and with no message late nothing only if all holders may be
\* down.
THEOREM ImplementsPromise == Prompt => (Spec => PromiseSafety)
<1> SUFFICES ASSUME Prompt PROVE Spec => PromiseSafety
  OBVIOUS
<1>1. Init => PromiseInv /\ Promise!SInit
  <2>1. Init => Promise!SInit
    BY DEF Init, Promise!SInit
  <2>. QED
    BY <2>1, RightInit, FoundInit DEF PromiseInv
<1>2. PromiseInv /\ [Next]_vars => PromiseInv'
  BY RightStep, FoundStep DEF PromiseInv
<1>3. PromiseInv /\ [Next]_vars => [Promise!SNext]_Promise!svars
  BY ImplementsStep
<1>. QED
  BY <1>1, <1>2, <1>3, PTL DEF Spec, PromiseSafety
=============================================================================
