----------------------------- MODULE OlafEngine -----------------------------
(***************************************************************************)
(* What olaf_fingerprint_match does with a full block (Olaf: olaf_wasm.c,  *)
(* olaf_ep_extractor.c, olaf_fp_extractor.c, olaf_fp_matcher.c): it finds  *)
(* event points, combines a pool of them into fingerprints of two, tallies *)
(* what the database has for each and reports to the page now and then.    *)
(* Times are block numbers; the sound is any choice of event points, the   *)
(* database any choice of the time differences a lookup yields.            *)
(***************************************************************************)
EXTENDS OlafBlocks, FiniteSets, Sequences, SequencesExt

CONSTANTS
  Freqs,           \* frequency bins that may hold an event point
  FilterSize,      \* config->filterSizeTime
  MaxPoints,       \* config->maxEventPoints
  Threshold,       \* config->eventPointThreshold
  MaxUsages,       \* config->maxEventPointUsages
  MinTime, MaxTime,  \* config->minTimeDistance, maxTimeDistance
  MinFreq, MaxFreq,  \* config->minFreqDistance, maxFreqDistance
  MaxPrints,       \* config->maxFingerprints
  Lookups,         \* what one lookup may find: sequences of time differences
  Bucket,          \* time differences that are counted together (>> 2: four)
  MinCount, MinSpan, MaxResults,  \* config->minMatchCount, minMatchTimeDiff, maxResults
  PrintEvery, KeepFor             \* config->printResultEvery, keepMatchesFor, in blocks

VARIABLES
  pool,       \* eventPoints: the first eventPointIndex of them
  prints,     \* the fingerprints of the last block
  table,      \* result_hash_table
  lastPrint,  \* last_print_at
  report,     \* what the last block sent through the callback
  made,       \* history: fingerprints made of a first point still in the pool
  limited     \* history: a limit was met (MaxPoints, MaxPrints, MaxUsages)

matcher    == <<table, lastPrint, report>>
engineVars == <<blockVars, pool, prints, matcher, made, limited>>

Half == FilterSize \div 2

ASSUME EngineAssumption ==
  /\ Freqs \subseteq Nat \ {0} /\ IsFiniteSet(Freqs)
  /\ FilterSize \in Nat /\ Bucket \in Nat \ {0}
  /\ MaxPoints \in Nat /\ Threshold \in Nat /\ Threshold < MaxPoints
  /\ MaxUsages \in Nat /\ MaxPrints \in Nat
  /\ {MinTime, MaxTime, MinFreq, MaxFreq} \subseteq Nat
  /\ 0 < MinTime /\ MinTime <= MaxTime /\ 0 < MinFreq /\ MinFreq <= MaxFreq
  /\ {MinCount, MinSpan, MaxResults, PrintEvery, KeepFor} \subseteq Nat
  /\ Bucket <= FilterSize - 1 - Half
  /\ \A l \in Lookups : l \in Seq(Int)

Lesser(a, b)  == IF a < b THEN a ELSE b
Greater(a, b) == IF a < b THEN b ELSE a

Point(t, f) == [t |-> t, f |-> f, u |-> 0]
Pair(p, q) == [t1 |-> p.t, f1 |-> p.f, t2 |-> q.t, f2 |-> q.f]

-----------------------------------------------------------------------------
(* Event points: olaf_ep_extractor_extract.                                *)

\* What a block may sound like: the bins of its event points, in rising order.
Sounds ==
  {s \in UNION {[1 .. n -> Freqs] : n \in 0 .. Cardinality(Freqs)} :
     \A i, j \in DOMAIN s : i < j => s[i] < s[j]}

FoundWithHalfHistory(b, s) ==
  IF b < Half THEN <<>> ELSE [i \in 1 .. Len(s) |-> Point(b - Half, s[i])]

\* The points of block b, in the order of their bins: none before the filter
\* has its history; what does not fit is dropped.
Found(b, s) ==
  IF b < FilterSize - 1 THEN <<>> ELSE [i \in 1 .. Len(s) |-> Point(b - Half, s[i])]

Fits(points) == Len(pool) + Len(points) <= MaxPoints

StoredAll(points) == pool \o points

Stored(points) ==
  LET all == pool \o points IN SubSeq(all, 1, Lesser(Len(all), MaxPoints))

-----------------------------------------------------------------------------
(* Fingerprints: olaf_fp_extractor_extract_two.                            *)

\* st: the points, the fingerprints, whether the outer and the inner loop are
\* over, and whether a limit was met.
Eligible(p, q) ==
  /\ q.t - p.t \in MinTime .. MaxTime
  /\ Greater(p.f, q.f) - Lesser(p.f, q.f) \in MinFreq .. MaxFreq

Used(p) == [p EXCEPT !.u = @ + 1]

Combine(st, i, j) ==
  LET p == st.ep[i]  q == st.ep[j]
  IN IF st.next THEN st
     ELSE IF q.u > MaxUsages THEN [st EXCEPT !.next = TRUE, !.limit = TRUE]
     ELSE IF q.t - p.t > MaxTime THEN [st EXCEPT !.next = TRUE]
     ELSE IF ~Eligible(p, q) THEN st
     ELSE IF Len(st.fp) = MaxPrints THEN [st EXCEPT !.limit = TRUE]
     ELSE [st EXCEPT !.fp = Append(@, Pair(p, q)),
                     !.ep = [@ EXCEPT ![i] = Used(p), ![j] = Used(q)]]

\* Point i with each later one.
CombineAll(b, st, i) ==
  IF st.stop THEN st
  ELSE IF st.ep[i].u > MaxUsages THEN [st EXCEPT !.stop = TRUE, !.limit = TRUE]
  ELSE IF st.ep[i].t > b - MaxTime THEN [st EXCEPT !.stop = TRUE]
  ELSE LET upto[j \in 0 .. Len(st.ep)] ==
             IF j <= i THEN [st EXCEPT !.next = FALSE] ELSE Combine(upto[j - 1], i, j)
       IN upto[Len(st.ep)]

Extract(points, b) ==
  LET upto[i \in 0 .. Len(points)] ==
        IF i = 0
        THEN [ep |-> points, fp |-> <<>>, stop |-> FALSE, next |-> FALSE, limit |-> FALSE]
        ELSE CombineAll(b, upto[i - 1], i)
  IN upto[Len(points)]

CutoffAtBlock(points, b) ==
  SelectSeq(points, LAMBDA p : p.t > b - MaxTime /\ p.u # MaxUsages)

HoleFilledWithLast(points, b) ==
  LET cutoff == Last(points).t - MaxTime
      kept   == SelectSeq(points, LAMBDA p : p.t > cutoff /\ p.u # MaxUsages)
  IN IF kept = <<>> \/ kept[1] = points[1] THEN kept ELSE <<Last(kept)>> \o Front(kept)

\* Afterwards points leave that are too old for any partner to come, or were
\* used exactly MaxUsages times; the others move up.
Kept(points, b) ==
  LET cutoff == Last(points).t - MaxTime
      kept[i \in 0 .. Len(points)] ==
        IF i = 0 THEN <<>>
        ELSE IF points[i].t > cutoff /\ points[i].u # MaxUsages
        THEN Append(kept[i - 1], points[i]) ELSE kept[i - 1]
  IN kept[Len(points)]

-----------------------------------------------------------------------------
(* The matcher: olaf_fp_matcher_match.                                     *)

\* A count that starts; since and till are history, the least and greatest query
\* time counted.
New(q, r) == [n |-> 1, first |-> r, last |-> r, ref |-> r, q |-> q, since |-> q, till |-> q]

TallyLatest(tab, q, diff) ==
  LET k == diff \div Bucket
      r == q - diff
      counted == IF k \in DOMAIN tab
                 THEN [n |-> tab[k].n + 1, first |-> r, last |-> Greater(r, tab[k].last),
                       ref |-> r, q |-> q, since |-> Lesser(q, tab[k].since),
                       till |-> Greater(q, tab[k].till)]
                 ELSE New(q, r)
  IN [l \in DOMAIN tab \cup {k} |-> IF l = k THEN counted ELSE tab[l]]

\* olaf_fp_matcher_tally_results, for one result of a print of time q.
Tally(tab, q, diff) ==
  LET k == diff \div Bucket
      r == q - diff
      counted == IF k \in DOMAIN tab
                 THEN [n |-> tab[k].n + 1, first |-> Lesser(r, tab[k].first),
                       last |-> Greater(r, tab[k].last), ref |-> r, q |-> q,
                       since |-> Lesser(q, tab[k].since), till |-> Greater(q, tab[k].till)]
                 ELSE New(q, r)
  IN [l \in DOMAIN tab \cup {k} |-> IF l = k THEN counted ELSE tab[l]]

\* olaf_fp_matcher_match_single_fingerprint, ...
TallyFound(tab, q, found) ==
  LET upto[i \in 0 .. Len(found)] ==
        IF i = 0 THEN tab ELSE Tally(upto[i - 1], q, found[i])
  IN upto[Len(found)]

\* ... for each print.
TallyAll(tab, fps, found) ==
  LET upto[i \in 0 .. Len(fps)] ==
        IF i = 0 THEN tab ELSE TallyFound(upto[i - 1], fps[i].t1, found[i])
  IN upto[Len(fps)]

\* olaf_fp_matcher_print_results: of the entries counted often enough the best
\* MaxResults, those that span MinSpan; an empty result if there is none.
Best(tab) ==
  LET often == {k \in DOMAIN tab : tab[k].n >= MinCount}
  IN {T \in SUBSET often :
        /\ Cardinality(T) = Lesser(MaxResults, Cardinality(often))
        /\ \A k \in T, l \in often \ T : tab[k].n >= tab[l].n}

Match(e, now) == [count |-> e.n, start |-> e.first + (e.q - e.ref),
                  stop |-> e.last + (e.q - e.ref), heard |-> e.q, now |-> now,
                  since |-> e.since, till |-> e.till]
NoMatch(now)  == [count |-> 0, start |-> 0, stop |-> 0, heard |-> now, now |-> now]

Results(tab, T, now) ==
  IF T = {} THEN {NoMatch(now)}
  ELSE {Match(tab[k], now) : k \in {l \in T : tab[l].last - tab[l].first >= MinSpan}}

\* olaf_fp_matcher_remove_old_matches.
Remembered(tab, now) ==
  LET recent == {k \in DOMAIN tab : now - tab[k].q <= KeepFor}
  IN [k \in recent |-> tab[k]]

MatchPrints(fps) == \E found \in [DOMAIN fps -> Lookups] :
  LET tab == TallyAll(table, fps, found)
      now == Last(fps).t2
  IN /\ IF now - lastPrint > PrintEvery
        THEN /\ \E T \in Best(tab) : report' = Results(tab, T, now)
             /\ lastPrint' = now
        ELSE report' = {} /\ UNCHANGED lastPrint
     /\ table' = Remembered(tab, now)

-----------------------------------------------------------------------------
SameFirst(p, r) == p.t = r.t1 /\ p.f = r.f1

\* One full block: s are the bins of its event points.
Block(s) ==
  LET b      == blockIndex
      points == Stored(Found(b, s))
      full   == Len(points) > Threshold
      x      == Extract(points, b)
  IN /\ pool' = IF full THEN Kept(x.ep, b) ELSE points
     /\ prints' = IF full THEN x.fp ELSE <<>>
     /\ IF prints' # <<>> THEN MatchPrints(prints')
        ELSE report' = {} /\ UNCHANGED <<table, lastPrint>>
     /\ made' = {r \in made \cup Range(prints') : \E p \in Range(pool') : SameFirst(p, r)}
     /\ limited' = \/ limited
                   \/ ~Fits(Found(b, s))
                   \/ full /\ (x.limit \/ \E p \in Range(x.ep) : p.u = MaxUsages)

EngineInit ==
  /\ BlocksInit
  /\ pool = <<>> /\ prints = <<>> /\ made = {} /\ limited = FALSE
  /\ table = [k \in {} |-> 0] /\ lastPrint = 0 /\ report = {}

Quiet(n) == Collect(n) /\ UNCHANGED <<pool, prints, matcher, made, limited>>

Sound(n) == /\ Complete(n)
            /\ \E s \in Sounds : Block(s)

EngineNext == \E n \in Chunks : Quiet(n) \/ Sound(n)

EngineSpec == EngineInit /\ [][EngineNext]_engineVars

-----------------------------------------------------------------------------
Entries == [n : Nat, first : Int, last : Int, ref : Int, q : Nat, since : Nat, till : Nat]

\* The types, and the array bounds the code asserts
\* (olaf_ep_extractor.c:179, olaf_fp_extractor.c:365).
TypeOK ==
  /\ BlocksTypeOK
  /\ pool \in Seq([t : Nat, f : Freqs, u : Nat]) /\ Len(pool) <= MaxPoints
  /\ Len(prints) <= MaxPrints
  /\ DOMAIN table \subseteq Int /\ \A k \in DOMAIN table : table[k] \in Entries
  /\ lastPrint \in Nat /\ limited \in BOOLEAN

\* assert(t2>=t1), olaf_fp_extractor.c:312: the pool stays ordered by time
\* although points leave it anywhere, and no bin of a block is in it twice.
PoolIsSorted ==
  \A i, j \in DOMAIN pool : i < j =>
    pool[i].t < pool[j].t \/ (pool[i].t = pool[j].t /\ pool[i].f < pool[j].f)

\* A reported match has a query start after 0 and an empty result has 0:
\* basic.html:36,40 tells a match from "no match" by the truth of
\* query_time_start.  It holds because no event point is found in the first
\* FilterSize - 1 blocks.
StartTellsAMatch == \A r \in report : IF r.count > 0 THEN r.start > 0 ELSE r.start = 0

\* The stretch of the query that a match reports covers every time at which
\* something was counted for it, to within one bucket, although the two ends are
\* kept in times of the reference and converted with the offset counted last.
SpanCoversTheMatch ==
  \A r \in report : r.count > 0 =>
    /\ r.start <= r.heard /\ r.heard <= r.stop
    /\ r.start - r.since < Bucket /\ r.till - r.stop < Bucket

\* A point is too old only when all its partners are in the pool and each of
\* them was combined with it, unless a limit was met.
Gone(p) == p \in Range(pool) /\ \A q \in Range(pool') : p.t # q.t \/ p.f # q.f

NoPairIsMissed ==
  [][~limited' =>
       \A p \in {r \in Range(pool) : Gone(r)} :
         /\ p.t + MaxTime <= blockIndex - Half
         /\ \A q \in Range(pool) \cup Range(pool') :
              Eligible(p, q) => Pair(p, q) \in made \cup Range(prints')]_engineVars

\* src/olaf_config.h:151: "After this time, in seconds, a match is forgotten.  This
\* especially relevant for streams."  What is reported was heard within KeepFor.
MatchesAreRecent == \A r \in report : r.now - r.heard <= KeepFor

\* This and the following are not kept either, see the README.
\* No fingerprint is counted twice.
NoPairTwice ==
  [][\A i \in DOMAIN prints' : prints'[i] \notin made]_engineVars

\* "parameter should not have any effect,except for memory use": a full pool gets
\* room again.
PoolNotStuck ==
  Len(pool) = MaxPoints =>
    \/ pool[1].u <= MaxUsages
    \/ \E i \in DOMAIN pool : pool[i].t <= Last(pool).t - MaxTime \/ pool[i].u = MaxUsages
=============================================================================
