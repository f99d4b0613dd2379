---------------------------- MODULE QueryService ----------------------------
(***************************************************************************)
(* What a client of the main server may count on when it queries a hash:   *)
(* one answer, either the entry a table server found for this very hash or *)
(* nothing.  To an exact request it never answers nothing.                 *)
(***************************************************************************)
CONSTANTS
  Requests,  \* queries of the clients
  Holders,   \* Holders[r]: the table servers that find an entry for r
  None,      \* the empty answer
  Exact      \* requests whose entries are not missed

VARIABLES
  client,    \* "new", "asked" or "done"
  answer     \* the entry a client was told of, or None

svars == <<client, answer>>

\* The entry that table server t finds for request r.
Entry(r, t) == [req |-> r, tbl |-> t]
Entries(r)  == {Entry(r, t) : t \in Holders[r]}
Right(r)    == IF r \in Exact THEN Entries(r) ELSE Entries(r) \cup {None}

Ask(r) ==
  /\ client[r] = "new"
  /\ client' = [client EXCEPT ![r] = "asked"]
  /\ UNCHANGED answer

Respond(r) ==
  /\ client[r] = "asked"
  /\ client' = [client EXCEPT ![r] = "done"]
  /\ \E e \in Right(r) : answer' = [answer EXCEPT ![r] = e]

SInit ==
  /\ client = [r \in Requests |-> "new"]
  /\ answer = [r \in Requests |-> None]

SNext == \E r \in Requests : Ask(r) \/ Respond(r)

\* Every query is answered.
Service == SInit /\ [][SNext]_svars /\ \A r \in Requests : WF_svars(Respond(r))
=============================================================================
