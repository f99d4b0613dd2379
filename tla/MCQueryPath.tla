---------------------------- MODULE MCQueryPath ----------------------------
(***************************************************************************)
(* Small instances of QueryPath: three queries, two table servers, one of  *)
(* them with two threads.                                                  *)
(***************************************************************************)
EXTENDS QueryPath

MCHome == [k \in Threads |-> IF k = "k3" THEN "t2" ELSE "t1"]

\* Confidences: 0 below the tables' threshold 1, 1 below the main server's 2.
Held(r, ts, faint) ==
  [t \in Tables |-> IF t \in ts THEN 2 ELSE IF t \in faint THEN 1 ELSE 0]

\* q1 is in table t1 and resembles something in t2, q2 is in t2 only, q3 nowhere.
OneHolder ==
  [r \in Requests |-> CASE r = "q1" -> Held(r, {"t1"}, {"t2"})
                        [] r = "q2" -> Held(r, {"t2"}, {})
                        [] OTHER    -> Held(r, {}, {"t1"})]

\* q1 was submitted twice and is in both tables.
TwoHolders ==
  [r \in Requests |-> IF r = "q1" THEN Held(r, {"t1", "t2"}, {}) ELSE OneHolder[r]]
=============================================================================
