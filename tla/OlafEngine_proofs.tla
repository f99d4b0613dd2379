-------------------------- MODULE OlafEngine_proofs --------------------------
(***************************************************************************)
(* Proofs about OlafEngine, for any sound, database and configuration.     *)
(*                                                                         *)
(* The engine implements the cutting of blocks, so what is proved of that  *)
(* holds of it.  What it does with a block is loops: extracting, dropping  *)
(* old points and tallying are recursive functions, and what they leave is *)
(* proved from the least turn at which it would fail (NatLeast).  From it  *)
(* follows EngineInv, which every step keeps.                              *)
(***************************************************************************)
EXTENDS OlafEngine, OlafBlocks_proofs, WellFoundedInduction, FiniteSetTheorems

\* Each step of the engine is one of OlafBlocks.
LEMMA EngineSteps ==
  /\ EngineInit => BlocksInit
  /\ [EngineNext]_engineVars => [BlocksNext]_blockVars
<1>1. EngineInit => BlocksInit
  BY DEF EngineInit
<1>2. EngineNext => BlocksNext
  BY DEF EngineNext, Quiet, Sound, BlocksNext
<1>3. UNCHANGED engineVars => UNCHANGED blockVars
  BY DEF engineVars
<1> QED
  BY <1>1, <1>2, <1>3

\* Extracting and matching never disturb the audio buffer between blocks.
THEOREM EngineCutsBlocks == EngineSpec => BlocksSpec
BY EngineSteps, PTL DEF EngineSpec, BlocksSpec

\* The time the engine gives a block is the position of its first sample.
THEOREM EngineBlocksAreTimes == EngineSpec => [](NoSampleLost /\ BlocksAreConsecutive)
BY EngineCutsBlocks, BlocksAreTimes

\* No sample process() hands over is lost between two blocks.
THEOREM EngineLosesNoSample == EngineSpec => []NoSampleLost
<1>1. EngineSpec => [](NoSampleLost /\ BlocksAreConsecutive)
  BY EngineBlocksAreTimes
<1> QED
  BY <1>1, PTL

-----------------------------------------------------------------------------
(* Loops.                                                                  *)


\* The least element of a set of numbers.
LEMMA NatLeast ==
  ASSUME NEW T, T \subseteq Nat, T # {}
  PROVE  \E x \in T : \A y \in T : x <= y
<1> DEFINE R == OpToRel(<, Nat)
<1>1. IsWellFoundedOn(R, Nat)
  BY NatLessThanWellFounded
<1>2. \A x, y \in Nat : <<y, x>> \in R <=> y < x
  BY DEF OpToRel
<1> HIDE DEF R
<1>3. PICK x \in T : \A y \in T : ~(<<y, x>> \in R)
  BY <1>1, WFMin
<1>4. \A y \in T : x <= y
  <2>1. TAKE y \in T
  <2>2. x \in Nat /\ y \in Nat
    OBVIOUS
  <2>3. ~(y < x)
    BY <1>2, <1>3, <2>2
  <2>. QED
    BY <2>2, <2>3
<1>. QED
  BY <1>4

\* What each turn of a loop hands on holds at its end.
LEMMA LoopKeeps ==
  ASSUME NEW n \in Nat, NEW f, NEW T, f[0] \in T[0],
         \A i \in 1 .. n : f[i - 1] \in T[i - 1] => f[i] \in T[i]
  PROVE  \A i \in 0 .. n : f[i] \in T[i]
<1> DEFINE Bad == {i \in 0 .. n : f[i] \notin T[i]}
<1>1. SUFFICES ASSUME Bad # {} PROVE FALSE
  OBVIOUS
<1>2. PICK i \in Bad : \A j \in Bad : i <= j
  <2>1. Bad \subseteq Nat
    OBVIOUS
  <2>. HIDE DEF Bad
  <2>. QED
    BY <1>1, <2>1, NatLeast
<1>3. i # 0
  OBVIOUS
<1>4. i \in 1 .. n /\ i - 1 \in 0 .. n /\ ~(i <= i - 1)
  BY <1>3
<1>5. f[i - 1] \in T[i - 1]
  BY <1>2, <1>4
<1>. QED
  BY <1>4, <1>5

\* f[i] is what turn i leaves, of a loop that starts with c.
IsLoop(f, n, c, step) == f = [i \in 0 .. n |-> IF i = 0 THEN c ELSE step[i][f[i - 1]]]

\* A loop that each turn can start from what the one before left has a result.
LEMMA LoopRuns ==
  ASSUME NEW n \in Nat, NEW T, NEW c \in T[0], NEW step,
         \A i \in 1 .. n : \A x \in T[i - 1] : step[i][x] \in T[i]
  PROVE  \E f : IsLoop(f, n, c, step) /\ \A i \in 0 .. n : f[i] \in T[i]
<1> USE DEF IsLoop
<1> DEFINE Runs(m, f) == IsLoop(f, m, c, step) /\ \A i \in 0 .. m : f[i] \in T[i]
           Bad == {m \in 0 .. n : ~\E f : Runs(m, f)}
<1>1. SUFFICES ASSUME Bad # {} PROVE FALSE
  OBVIOUS
<1>2. PICK m \in Bad : \A j \in Bad : m <= j
  <2>1. Bad \subseteq Nat
    OBVIOUS
  <2>. HIDE DEF Bad
  <2>. QED
    BY <1>1, <2>1, NatLeast
<1>3. CASE m = 0
  <2> DEFINE f == [i \in 0 .. 0 |-> c]
  <2>1. Runs(0, f)
    OBVIOUS
  <2>. QED
    BY <1>3, <2>1
<1>4. CASE m # 0
  <2>1. m \in 1 .. n /\ m - 1 \in 0 .. n /\ ~(m <= m - 1)
    BY <1>4
  <2>2. PICK g : Runs(m - 1, g)
    BY <1>2, <2>1
  <2> DEFINE f == [i \in 0 .. m |-> IF i = m THEN step[m][g[m - 1]] ELSE g[i]]
  <2>3. g[m - 1] \in T[m - 1] /\ m - 1 \in 0 .. m - 1
    BY <2>1, <2>2
  <2>4. step[m][g[m - 1]] \in T[m]
    BY <2>1, <2>3
  <2>5. \A i \in 0 .. m : f[i] \in T[i]
    BY <2>1, <2>2, <2>4
  <2>6. \A i \in 0 .. m : f[i] = IF i = 0 THEN c ELSE step[i][f[i - 1]]
    <3>1. SUFFICES ASSUME NEW i \in 0 .. m PROVE f[i] = IF i = 0 THEN c ELSE step[i][f[i - 1]]
      OBVIOUS
    <3>2. CASE i = m
      BY <1>4, <2>1, <2>3, <3>2
    <3>3. CASE i # m
      <4>1. i \in 0 .. m - 1 /\ (i # 0 => i - 1 \in 0 .. m - 1 /\ i - 1 # m /\ i - 1 \in 0 .. m)
        BY <2>1, <3>3
      <4>2. g[i] = IF i = 0 THEN c ELSE step[i][g[i - 1]]
        BY <2>2, <4>1
      <4>. QED
        BY <3>3, <4>1, <4>2
    <3>. QED
      BY <3>2, <3>3
  <2>7. f = [i \in 0 .. m |-> IF i = 0 THEN c ELSE step[i][f[i - 1]]]
    <3>. HIDE DEF f
    <3>1. f = [i \in 0 .. m |-> f[i]]
      BY DEF f
    <3>. QED
      BY <2>6, <3>1
  <2>. QED
    BY <2>5, <2>7
<1>. QED
  BY <1>3, <1>4

-----------------------------------------------------------------------------
(* The pool after an extraction.                                           *)

\* What the pool holds, and its order.
PoolPoints == [t : Nat, f : Freqs, u : Nat]
Before(p, q) == p.t < q.t \/ (p.t = q.t /\ p.f < q.f)
Rising(s) == \A i, j \in DOMAIN s : i < j => Before(s[i], s[j])

\* Kept leaves out the points that go and nothing else, and keeps the order.
LEMMA KeptFacts ==
  ASSUME NEW points \in Seq(PoolPoints), NEW b, Rising(points)
  PROVE  LET s == Kept(points, b)
         IN /\ s \in Seq(PoolPoints) /\ Len(s) <= Len(points) /\ Rising(s)
            /\ \A j \in DOMAIN s : \E k \in DOMAIN points : s[j] = points[k]
            /\ \A k \in DOMAIN points :
                 points[k].t > Last(points).t - MaxTime /\ points[k].u # MaxUsages
                   => \E j \in DOMAIN s : s[j] = points[k]
<1> DEFINE n == Len(points)
           cutoff == Last(points).t - MaxTime
           ok(i) == points[i].t > cutoff /\ points[i].u # MaxUsages
           kept[i \in 0 .. Len(points)] ==
             IF i = 0 THEN <<>>
             ELSE IF points[i].t > cutoff /\ points[i].u # MaxUsages
             THEN Append(kept[i - 1], points[i]) ELSE kept[i - 1]
           Good(i, s) == /\ s \in Seq(PoolPoints) /\ Len(s) <= i /\ Rising(s)
                         /\ \A j \in DOMAIN s : \E k \in 1 .. i : s[j] = points[k]
                         /\ \A k \in 1 .. i : ok(k) => \E j \in DOMAIN s : s[j] = points[k]
           T == [i \in 0 .. n |-> {s \in Seq(PoolPoints) : Good(i, s)}]
           step == [i \in 1 .. n |-> [s \in T[i - 1] |-> IF ok(i) THEN Append(s, points[i]) ELSE s]]
<1>1. Kept(points, b) = kept[n]
  BY DEF Kept
<1>2. n \in Nat /\ DOMAIN points = 1 .. n /\ \A i \in 1 .. n : points[i] \in PoolPoints
  OBVIOUS
<1>3. ASSUME NEW i \in 1 .. n, NEW s, Good(i - 1, s)
      PROVE  IF ok(i) THEN Good(i, Append(s, points[i])) ELSE Good(i, s)
  <2>1. /\ s \in Seq(PoolPoints) /\ Len(s) <= i - 1 /\ Rising(s) /\ Len(s) \in Nat
        /\ \A j \in 1 .. Len(s) : \E k \in 1 .. i - 1 : s[j] = points[k]
        /\ \A k \in 1 .. i - 1 : ok(k) => \E j \in 1 .. Len(s) : s[j] = points[k]
    BY <1>3
  <2>2. \A k \in 1 .. i - 1 : k \in 1 .. i
    OBVIOUS
  <2>3. CASE ~ok(i)
    <3>1. \A k \in 1 .. i : ok(k) => k \in 1 .. i - 1
      BY <2>3
    <3>. HIDE DEF ok
    <3>2. \A j \in DOMAIN s : \E k \in 1 .. i : s[j] = points[k]
      BY <2>1, <2>2
    <3>3. \A k \in 1 .. i : ok(k) => \E j \in DOMAIN s : s[j] = points[k]
      BY <2>1, <3>1
    <3>4. Len(s) <= i
      BY <2>1
    <3>5. Good(i, s)
      BY <2>1, <3>2, <3>3, <3>4
    <3>. QED
      BY <2>3, <3>5
  <2>4. CASE ok(i)
    <3> DEFINE a == Append(s, points[i])
    <3>1. /\ a \in Seq(PoolPoints) /\ Len(a) = Len(s) + 1 /\ a[Len(s) + 1] = points[i]
          /\ \A j \in 1 .. Len(s) : a[j] = s[j]
      BY <1>2, <2>1
    <3>. HIDE DEF a
    <3>2. \A j \in DOMAIN a : \E k \in 1 .. i : a[j] = points[k]
      <4>1. SUFFICES ASSUME NEW j \in 1 .. Len(s) + 1 PROVE \E k \in 1 .. i : a[j] = points[k]
        BY <2>1, <3>1
      <4>2. CASE j = Len(s) + 1
        BY <3>1, <4>2
      <4>3. CASE j # Len(s) + 1
        BY <2>1, <2>2, <3>1, <4>1, <4>3
      <4>. QED
        BY <4>2, <4>3
    <3>3. \A k \in 1 .. i : ok(k) => \E j \in DOMAIN a : a[j] = points[k]
      <4>. HIDE DEF ok
      <4>1. SUFFICES ASSUME NEW k \in 1 .. i, ok(k)
                     PROVE  \E j \in 1 .. Len(s) + 1 : a[j] = points[k]
        BY <2>1, <3>1
      <4>2. CASE k = i
        BY <2>1, <3>1, <4>2
      <4>3. CASE k # i
        <5>1. PICK j \in 1 .. Len(s) : s[j] = points[k]
          BY <2>1, <4>1, <4>3
        <5>2. j \in 1 .. Len(s) + 1 /\ a[j] = points[k]
          BY <2>1, <3>1, <5>1
        <5>. QED
          BY <5>2
      <4>. QED
        BY <4>2, <4>3
    <3>4. Rising(a)
      <4>1. SUFFICES ASSUME NEW j \in 1 .. Len(s) + 1, NEW k \in 1 .. Len(s) + 1, j < k
                     PROVE  Before(a[j], a[k])
        <5>1. DOMAIN a = 1 .. Len(s) + 1
          BY <2>1, <3>1
        <5>. QED
          BY <5>1 DEF Rising
      <4>2. j \in 1 .. Len(s) /\ a[j] = s[j]
        <5>1. j \in 1 .. Len(s)
          BY <2>1, <4>1
        <5>. QED
          BY <3>1, <5>1
      <4>3. CASE k = Len(s) + 1
        <5>1. PICK m \in 1 .. i - 1 : s[j] = points[m]
          BY <2>1, <4>2
        <5>. QED
          <6>1. m \in DOMAIN points /\ i \in DOMAIN points /\ m < i
            BY <1>2, <5>1
          <6>2. Before(points[m], points[i])
            BY <6>1 DEF Rising
          <6>. QED
            BY <3>1, <4>2, <4>3, <5>1, <6>2
      <4>4. CASE k # Len(s) + 1
        <5>1. k \in 1 .. Len(s) /\ a[k] = s[k]
          BY <2>1, <3>1, <4>4
        <5>. QED
          <6>1. j \in DOMAIN s /\ k \in DOMAIN s
            BY <2>1, <4>2, <5>1
          <6>2. Before(s[j], s[k])
            BY <2>1, <4>1, <6>1 DEF Rising
          <6>. QED
            BY <4>2, <5>1, <6>2
      <4>. QED
        BY <4>3, <4>4
    <3>5. Len(a) <= i
      BY <2>1, <3>1
    <3>. HIDE DEF ok
    <3>6. Good(i, a)
      BY <3>1, <3>2, <3>3, <3>4, <3>5
    <3>. QED
      BY <2>4, <3>6 DEF a
  <2>. HIDE DEF Good, ok
  <2>. QED
    BY <2>3, <2>4
<1>4. Good(0, <<>>)
  <2>. HIDE DEF ok
  <2>. QED
    BY DEF Rising
<1>. HIDE DEF Good, ok
<1>5. \A i \in 0 .. n : \A s : s \in T[i] <=> s \in Seq(PoolPoints) /\ Good(i, s)
  OBVIOUS
<1>6. \A i \in 0 .. n : \A s : Good(i, s) => s \in Seq(PoolPoints)
  BY DEF Good
<1>7. \A i \in 1 .. n : i - 1 \in 0 .. n /\ i \in 0 .. n
  BY <1>2
<1>8. 0 \in 0 .. n /\ n \in 0 .. n
  BY <1>2
<1>. HIDE DEF T
<1>9. <<>> \in T[0]
  BY <1>4, <1>5, <1>6, <1>8
<1>10. \A i \in 1 .. n : \A s \in T[i - 1] : step[i][s] = (IF ok(i) THEN Append(s, points[i]) ELSE s)
  OBVIOUS
<1>11. \A i \in 1 .. n : \A s \in T[i - 1] : step[i][s] \in T[i]
  BY <1>3, <1>5, <1>6, <1>7, <1>10
<1> DEFINE first == <<>>
<1>. HIDE DEF step, n, first
<1>12. PICK f : IsLoop(f, n, first, step) /\ \A i \in 0 .. n : f[i] \in T[i]
  <2>1. n \in Nat /\ first \in T[0]
    BY <1>2, <1>9 DEF first
  <2>. QED
    BY <2>1, <1>11, LoopRuns
<1>13. f = [i \in 0 .. n |-> IF i = 0 THEN first
                             ELSE IF ok(i) THEN Append(f[i - 1], points[i]) ELSE f[i - 1]]
  <2>1. \A i \in 0 .. n : i # 0 => i \in 1 .. n /\ i - 1 \in 0 .. n
    BY <1>2
  <2>. QED
    BY <1>2, <1>7, <1>10, <1>12, <2>1 DEF IsLoop
<1>14. kept = [i \in 0 .. n |-> IF i = 0 THEN first
                                ELSE IF ok(i) THEN Append(kept[i - 1], points[i]) ELSE kept[i - 1]]
  BY <1>13 DEF ok, n, first
<1>15. /\ kept[0] = first
       /\ \A i \in 1 .. n : kept[i] = IF ok(i) THEN Append(kept[i - 1], points[i]) ELSE kept[i - 1]
  <2>1. \A i \in 1 .. n : i # 0 /\ i \in 0 .. n
    BY <1>2
  <2>. HIDE DEF kept
  <2>. QED
    BY <1>8, <1>14, <2>1
<1>. HIDE DEF kept
<1>16. \A i \in 0 .. n : kept[i] \in T[i]
  <2>1. first \in T[0]
    BY <1>9 DEF first
  <2>2. \A i \in 1 .. n : kept[i - 1] \in T[i - 1] => kept[i] \in T[i]
    BY <1>3, <1>5, <1>6, <1>7, <1>15
  <2>. QED
    BY <1>2, <1>15, <2>1, <2>2, LoopKeeps
<1>17. Good(n, kept[n])
  BY <1>5, <1>8, <1>16
<1>. QED
  BY <1>1, <1>2, <1>17 DEF Good, ok, n

-----------------------------------------------------------------------------
\* The parameters are numbers.
LEMMA Numbers ==
  /\ FilterSize \in Nat /\ Half \in Nat /\ Bucket \in Nat /\ 0 < Bucket
  /\ MaxPoints \in Nat /\ Threshold \in Nat /\ MaxUsages \in Nat /\ MaxPrints \in Nat
  /\ MinTime \in Nat /\ MaxTime \in Nat /\ 0 < MinTime
  /\ MinFreq \in Nat /\ MaxFreq \in Nat /\ MinCount \in Nat /\ MaxResults \in Nat
  /\ PrintEvery \in Nat /\ KeepFor \in Nat /\ MinSpan \in Nat
  BY EngineAssumption DEF Half

Prints == [t1 : Nat, f1 : Freqs, t2 : Nat, f2 : Freqs]
Runs   == [ep : Seq(PoolPoints), fp : Seq(Prints), stop : BOOLEAN, next : BOOLEAN,
           limit : BOOLEAN]

\* No event point is earlier: the filter has no history before.
Earliest == FilterSize - 1 - Half

\* Combining counts usages and makes prints of the points, and nothing else.
Well(st, points) ==
  /\ st \in Runs
  /\ Len(st.ep) = Len(points)
  /\ \A k \in 1 .. Len(points) : st.ep[k].t = points[k].t /\ st.ep[k].f = points[k].f
  /\ Len(st.fp) <= MaxPrints
  /\ \A m \in 1 .. Len(st.fp) : st.fp[m].t1 >= Earliest

Prefix(s, x) == Len(s) <= Len(x) /\ \A m \in 1 .. Len(s) : x[m] = s[m]
Has(fp, p, q) == \E m \in 1 .. Len(fp) : fp[m] = Pair(p, q)
Far(p, q) == q.t - p.t > MaxTime

\* A point that is used stays where it is.
LEMMA UsedFacts ==
  ASSUME NEW p \in PoolPoints
  PROVE  Used(p) \in PoolPoints /\ Used(p).t = p.t /\ Used(p).f = p.f
<1>1. p.u + 1 \in Nat /\ p = [t |-> p.t, f |-> p.f, u |-> p.u]
  BY DEF PoolPoints
<1>2. Used(p) = [t |-> p.t, f |-> p.f, u |-> p.u + 1]
  BY <1>1 DEF Used
<1>. QED
  BY <1>1, <1>2 DEF PoolPoints

\* One step of the inner loop.
LEMMA CombineFacts ==
  ASSUME NEW points \in Seq(PoolPoints), NEW st, Well(st, points),
         \A k \in 1 .. Len(points) : points[k].t >= Earliest,
         NEW i \in 1 .. Len(points), NEW j \in 1 .. Len(points), i # j
  PROVE  LET x == Combine(st, i, j)
             p == points[i]
             q == points[j]
         IN /\ Well(x, points) /\ x.stop = st.stop
            /\ (st.limit => x.limit) /\ Prefix(st.fp, x.fp)
            /\ (st.next => x = st)
            /\ ~st.next /\ ~x.limit =>
                 /\ x.next => Far(p, q)
                 /\ Eligible(p, q) => Has(x.fp, p, q)
<1> DEFINE p == st.ep[i]
           q == st.ep[j]
<1>1. /\ st.ep \in Seq(PoolPoints) /\ st.fp \in Seq(Prints) /\ Len(st.fp) <= MaxPrints
      /\ st.stop \in BOOLEAN /\ st.next \in BOOLEAN /\ st.limit \in BOOLEAN
      /\ Len(st.ep) = Len(points) /\ st \in Runs
      /\ i \in 1 .. Len(st.ep) /\ j \in 1 .. Len(st.ep)
  BY DEF Well, Runs
<1>2. /\ p \in PoolPoints /\ q \in PoolPoints
      /\ p.t = points[i].t /\ p.f = points[i].f /\ q.t = points[j].t /\ q.f = points[j].f
  BY <1>1 DEF Well
<1>3. /\ Eligible(p, q) <=> Eligible(points[i], points[j])
      /\ Pair(p, q) = Pair(points[i], points[j])
      /\ Far(p, q) <=> Far(points[i], points[j])
  BY <1>2 DEF Eligible, Pair, Far
<1>4. Prefix(st.fp, st.fp)
  BY <1>1 DEF Prefix
<1>. HIDE DEF p, q
<1>5. CASE st.next
  BY <1>4, <1>5 DEF Combine
<1>6. CASE ~st.next /\ q.u > MaxUsages
  <2>1. Combine(st, i, j) = [st EXCEPT !.next = TRUE, !.limit = TRUE]
    BY <1>6 DEF Combine, q
  <2>. QED
    BY <1>1, <1>4, <1>6, <2>1 DEF Well, Runs
<1>7. CASE ~st.next /\ ~(q.u > MaxUsages) /\ Far(p, q)
  <2>1. Combine(st, i, j) = [st EXCEPT !.next = TRUE]
    BY <1>7 DEF Combine, p, q, Far
  <2>2. ~Eligible(p, q)
    BY <1>2, <1>7, Numbers DEF Far, Eligible, PoolPoints
  <2>. QED
    BY <1>1, <1>3, <1>4, <1>7, <2>1, <2>2 DEF Well, Runs
<1>8. CASE ~st.next /\ ~(q.u > MaxUsages) /\ ~Far(p, q) /\ ~Eligible(p, q)
  <2>1. Combine(st, i, j) = st
    BY <1>8 DEF Combine, p, q, Far
  <2>. QED
    BY <1>1, <1>3, <1>4, <1>8, <2>1
<1>9. CASE ~st.next /\ ~(q.u > MaxUsages) /\ ~Far(p, q) /\ Eligible(p, q)
           /\ Len(st.fp) = MaxPrints
  <2>1. Combine(st, i, j) = [st EXCEPT !.limit = TRUE]
    BY <1>9 DEF Combine, p, q, Far
  <2>. QED
    BY <1>1, <1>3, <1>4, <1>9, <2>1 DEF Well, Runs
<1>10. CASE ~st.next /\ ~(q.u > MaxUsages) /\ ~Far(p, q) /\ Eligible(p, q)
            /\ Len(st.fp) # MaxPrints
  <2> DEFINE x    == Combine(st, i, j)
             used == [st.ep EXCEPT ![i] = Used(p), ![j] = Used(q)]
  <2>1. x = [st EXCEPT !.fp = Append(st.fp, Pair(p, q)), !.ep = used]
    BY <1>10 DEF Combine, p, q, Far
  <2>2. Pair(p, q) \in Prints /\ Pair(p, q).t1 = p.t
    BY <1>2 DEF Pair, Prints, PoolPoints
  <2>4. /\ used \in Seq(PoolPoints) /\ Len(used) = Len(st.ep)
        /\ \A k \in 1 .. Len(st.ep) : used[k] = IF k = i \/ k = j THEN Used(st.ep[k]) ELSE st.ep[k]
    BY <1>1, <1>2, UsedFacts DEF p, q
  <2>5. \A k \in 1 .. Len(st.ep) : used[k].t = st.ep[k].t /\ used[k].f = st.ep[k].f
    BY <1>1, <1>2, <2>4, UsedFacts DEF p, q
  <2>6. used \in Seq(PoolPoints) /\ Len(used) = Len(st.ep)
    BY <2>4
  <2>. HIDE DEF used
  <2>11. Append(st.fp, Pair(p, q)) \in Seq(Prints)
    BY <1>1, <2>2
  <2>12. x.fp = Append(st.fp, Pair(p, q)) /\ x.next = st.next /\ x.stop = st.stop
        /\ x.limit = st.limit /\ x.ep = used /\ x \in Runs
    BY <1>1, <2>1, <2>6, <2>11 DEF Runs
  <2>. HIDE DEF x
  <2>7. /\ Len(x.fp) = Len(st.fp) + 1 /\ x.fp[Len(st.fp) + 1] = Pair(p, q)
        /\ \A m \in 1 .. Len(st.fp) : x.fp[m] = st.fp[m]
        /\ Len(st.fp) \in Nat
    BY <1>1, <2>2, <2>12
  <2>8. Well(x, points)
    <3>1. Len(x.fp) <= MaxPrints
      BY <1>1, <1>10, <2>7, Numbers
    <3>2. \A m \in 1 .. Len(x.fp) : x.fp[m].t1 >= Earliest
      <4>1. SUFFICES ASSUME NEW m \in 1 .. Len(st.fp) + 1 PROVE x.fp[m].t1 >= Earliest
        BY <2>7
      <4>2. CASE m = Len(st.fp) + 1
        BY <1>2, <2>2, <2>7, <4>2
      <4>3. CASE m # Len(st.fp) + 1
        <5>1. m \in 1 .. Len(st.fp) /\ x.fp[m] = st.fp[m]
          BY <2>7, <4>1, <4>3
        <5>2. \A l \in 1 .. Len(st.fp) : st.fp[l].t1 >= Earliest
          BY DEF Well
        <5>. QED
          BY <5>1, <5>2
      <4>. QED
        BY <4>2, <4>3
    <3>. QED
      BY <1>1, <2>5, <2>6, <2>12, <3>1, <3>2 DEF Well
  <2>9. Has(x.fp, p, q) /\ Prefix(st.fp, x.fp)
    BY <2>7 DEF Has, Prefix
  <2>. QED
    BY <1>3, <1>10, <2>12, <2>8, <2>9 DEF x, Has
<1>. QED
  BY <1>1, <1>5, <1>6, <1>7, <1>8, <1>9, <1>10

Late(points) == \A k \in 1 .. Len(points) : points[k].t >= Earliest

\* A point with all later ones: the inner loop.
LEMMA CombineAllFacts ==
  ASSUME NEW points \in Seq(PoolPoints), Late(points), NEW st, Well(st, points),
         NEW b \in Nat, NEW i \in 1 .. Len(points)
  PROVE  LET x == CombineAll(b, st, i)
         IN /\ Well(x, points) /\ (st.limit => x.limit) /\ Prefix(st.fp, x.fp)
            /\ st.stop => x = st
            /\ ~x.limit /\ ~st.stop =>
                 IF x.stop THEN points[i].t > b - MaxTime
                 ELSE \A j \in i + 1 .. Len(points) :
                        \/ Eligible(points[i], points[j]) => Has(x.fp, points[i], points[j])
                        \/ \E m \in i + 1 .. j : Far(points[i], points[m])
<1> DEFINE n == Len(points)
           p == points[i]
<1>1. /\ st \in Runs /\ st.ep \in Seq(PoolPoints) /\ st.fp \in Seq(Prints)
      /\ Len(st.ep) = n /\ n \in Nat /\ i \in 1 .. n
      /\ st.ep[i].t = p.t /\ Prefix(st.fp, st.fp)
      /\ st.stop \in BOOLEAN /\ st.next \in BOOLEAN /\ st.limit \in BOOLEAN
  BY DEF Well, Runs, Prefix
<1>2. CASE st.stop
  BY <1>1, <1>2 DEF CombineAll
<1>3. CASE ~st.stop /\ st.ep[i].u > MaxUsages
  <2>1. CombineAll(b, st, i) = [st EXCEPT !.stop = TRUE, !.limit = TRUE]
    BY <1>3 DEF CombineAll
  <2>. QED
    BY <1>1, <1>3, <2>1 DEF Well, Runs
<1>4. CASE ~st.stop /\ ~(st.ep[i].u > MaxUsages) /\ p.t > b - MaxTime
  <2>1. CombineAll(b, st, i) = [st EXCEPT !.stop = TRUE]
    BY <1>1, <1>4 DEF CombineAll
  <2>. QED
    BY <1>1, <1>4, <2>1 DEF Well, Runs
<1>5. CASE ~st.stop /\ ~(st.ep[i].u > MaxUsages) /\ ~(p.t > b - MaxTime)
  <2> DEFINE c == [st EXCEPT !.next = FALSE]
             upto[j \in 0 .. Len(st.ep)] ==
               IF j <= i THEN [st EXCEPT !.next = FALSE] ELSE Combine(upto[j - 1], i, j)
             Good(j, s) ==
               /\ Well(s, points) /\ ~s.stop /\ (st.limit => s.limit) /\ Prefix(st.fp, s.fp)
               /\ ~s.limit =>
                    /\ s.next => \E m \in i + 1 .. j : Far(p, points[m])
                    /\ \A k \in i + 1 .. j :
                         \/ Eligible(p, points[k]) => Has(s.fp, p, points[k])
                         \/ \E m \in i + 1 .. k : Far(p, points[m])
             T == [j \in 0 .. n |-> {s \in Runs : Good(j, s)}]
             step == [j \in 1 .. n |-> [s \in T[j - 1] |->
                        IF j <= i THEN c ELSE Combine(s, i, j)]]
  <2>1. CombineAll(b, st, i) = upto[n]
    BY <1>1, <1>5 DEF CombineAll
  <2>2. \A j \in 0 .. n : j <= i => Good(j, c)
    <3>1. /\ Well(c, points) /\ ~c.stop /\ ~c.next /\ c.limit = st.limit /\ c.fp = st.fp
      BY <1>1, <1>5 DEF Well, Runs
    <3>. HIDE DEF c
    <3>. QED
      BY <1>1, <3>1
  <2>3. ASSUME NEW j \in 1 .. n, j > i, NEW s, Good(j - 1, s)
        PROVE  Good(j, Combine(s, i, j))
    <3> DEFINE x == Combine(s, i, j)
    <3>1. /\ Well(x, points) /\ x.stop = s.stop
          /\ (s.limit => x.limit) /\ Prefix(s.fp, x.fp)
          /\ (s.next => x = s)
          /\ ~s.next /\ ~x.limit =>
               /\ x.next => Far(p, points[j])
               /\ Eligible(p, points[j]) => Has(x.fp, p, points[j])
      <4>1. /\ Well(s, points) /\ j \in 1 .. Len(points) /\ i # j
            /\ \A k \in 1 .. Len(points) : points[k].t >= Earliest
        BY <1>1, <2>3 DEF Late
      <4>. HIDE DEF Good
      <4>. QED
        BY <4>1, CombineFacts
    <3>2. s.fp \in Seq(Prints) /\ x.fp \in Seq(Prints)
      BY <2>3, <3>1 DEF Well, Runs
    <3>. HIDE DEF x
    <3>3. Prefix(st.fp, x.fp)
      BY <1>1, <2>3, <3>1, <3>2 DEF Prefix
    <3>4. \A k \in 1 .. n : Has(s.fp, p, points[k]) => Has(x.fp, p, points[k])
      BY <3>1, <3>2 DEF Prefix, Has
    <3>5. /\ \A k \in i + 1 .. j : k = j \/ k \in i + 1 .. j - 1
          /\ \A k \in i + 1 .. j - 1 : k \in i + 1 .. j /\ k \in 1 .. n
          /\ j \in i + 1 .. j
      BY <1>1, <2>3
    <3>6. ASSUME ~x.limit
          PROVE  /\ x.next => \E m \in i + 1 .. j : Far(p, points[m])
                 /\ \A k \in i + 1 .. j :
                         \/ Eligible(p, points[k]) => Has(x.fp, p, points[k])
                         \/ \E m \in i + 1 .. k : Far(p, points[m])
      <4>1. ~s.limit
        BY <3>1, <3>6
      <4>2. x.next => \E m \in i + 1 .. j : Far(p, points[m])
        BY <2>3, <3>1, <3>5, <3>6, <4>1
      <4>3. ASSUME NEW k \in i + 1 .. j
            PROVE  \/ Eligible(p, points[k]) => Has(x.fp, p, points[k])
                   \/ \E m \in i + 1 .. k : Far(p, points[m])
        <5>1. CASE k # j
          BY <2>3, <3>4, <3>5, <4>1, <5>1
        <5>2. CASE k = j
          BY <2>3, <3>1, <3>5, <3>6, <4>1, <5>2
        <5>. QED
          BY <5>1, <5>2
      <4>. QED
        BY <4>2, <4>3
    <3>. QED
      BY <2>3, <3>1, <3>3, <3>6 DEF x
  <2>4. \A j \in 0 .. n : \A s : Good(j, s) => s \in Runs
    BY DEF Well
  <2>. HIDE DEF Good, c
  <2>5. \A j \in 0 .. n : \A s : s \in T[j] <=> Good(j, s)
    BY <2>4
  <2>6. \A j \in 1 .. n : j - 1 \in 0 .. n /\ j \in 0 .. n /\ j # 0
    BY <1>1
  <2>7. 0 \in 0 .. n /\ n \in 0 .. n /\ 0 <= i /\ c \in T[0]
    BY <1>1, <2>2, <2>5
  <2>8. \A j \in 1 .. n : \A s \in T[j - 1] : (IF j <= i THEN c ELSE Combine(s, i, j)) \in T[j]
    BY <1>1, <2>2, <2>3, <2>5, <2>6
  <2>9. \A j \in 1 .. n : \A s \in T[j - 1] :
          step[j][s] = IF j <= i THEN c ELSE Combine(s, i, j)
    OBVIOUS
  <2>. HIDE DEF T, step, n
  <2>10. PICK f : IsLoop(f, n, c, step) /\ \A j \in 0 .. n : f[j] \in T[j]
    <3>1. \A j \in 1 .. n : \A s \in T[j - 1] : step[j][s] \in T[j]
      BY <2>8, <2>9
    <3>. QED
      BY <1>1, <2>7, <3>1, LoopRuns
  <2>11. f = [j \in 0 .. n |-> IF j <= i THEN c ELSE Combine(f[j - 1], i, j)]
    <3>1. \A j \in 0 .. n : /\ j # 0 => j \in 1 .. n /\ j - 1 \in 0 .. n
                            /\ j = 0 => j <= i
      BY <1>1
    <3>2. \A j \in 0 .. n : (IF j = 0 THEN c ELSE step[j][f[j - 1]])
                              = IF j <= i THEN c ELSE Combine(f[j - 1], i, j)
      BY <2>9, <2>10, <3>1
    <3>. QED
      BY <2>10, <3>2 DEF IsLoop
  <2>12. upto = [j \in 0 .. n |-> IF j <= i THEN c ELSE Combine(upto[j - 1], i, j)]
    BY <1>1, <2>11 DEF c
  <2>13. \A j \in 0 .. n : upto[j] = IF j <= i THEN c ELSE Combine(upto[j - 1], i, j)
    <3>. HIDE DEF upto
    <3>. QED
      BY <2>12
  <2>. HIDE DEF upto
  <2>14. \A j \in 0 .. n : upto[j] \in T[j]
    <3>1. upto[0] \in T[0]
      BY <2>7, <2>13
    <3>2. \A j \in 1 .. n : upto[j - 1] \in T[j - 1] => upto[j] \in T[j]
      BY <2>6, <2>8, <2>13
    <3>. QED
      BY <1>1, <3>1, <3>2, LoopKeeps
  <2>15. Good(n, upto[n])
    BY <2>5, <2>7, <2>14
  <2>. QED
    BY <1>5, <2>1, <2>15 DEF Good, n
<1>. QED
  BY <1>1, <1>2, <1>3, <1>4, <1>5

\* Every point that may still have had a partner with each of them, unless a limit
\* was met: olaf_fp_extractor_extract_two as a whole.
LEMMA ExtractFacts ==
  ASSUME NEW points \in Seq(PoolPoints), Late(points), Rising(points), NEW b \in Nat
  PROVE  LET x == Extract(points, b)
         IN /\ Well(x, points)
            /\ ~x.limit =>
                 \A i, j \in 1 .. Len(points) :
                   points[i].t <= b - MaxTime /\ Eligible(points[i], points[j])
                     => Has(x.fp, points[i], points[j])
<1> DEFINE n == Len(points)
           c == [ep |-> points, fp |-> <<>>, stop |-> FALSE, next |-> FALSE, limit |-> FALSE]
           upto[i \in 0 .. Len(points)] ==
             IF i = 0
             THEN [ep |-> points, fp |-> <<>>, stop |-> FALSE, next |-> FALSE, limit |-> FALSE]
             ELSE CombineAll(b, upto[i - 1], i)
           Done(fp, i) == points[i].t <= b - MaxTime =>
             \A j \in i + 1 .. n : Eligible(points[i], points[j]) => Has(fp, points[i], points[j])
           Good(i, s) ==
             /\ Well(s, points)
             /\ ~s.limit =>
                  /\ s.stop => \E k \in 1 .. i : points[k].t > b - MaxTime
                  /\ \A k \in 1 .. i : Done(s.fp, k)
           T == [i \in 0 .. n |-> {s \in Runs : Good(i, s)}]
           step == [i \in 1 .. n |-> [s \in T[i - 1] |-> CombineAll(b, s, i)]]
<1>1. Extract(points, b) = upto[n]
  BY DEF Extract
<1>2. n \in Nat /\ DOMAIN points = 1 .. n /\ \A i \in 1 .. n : points[i] \in PoolPoints
  OBVIOUS
<1>3. \A i, j \in 1 .. n : i < j => points[i].t <= points[j].t
  <2>1. \A i \in 1 .. n : points[i].t \in Int
    BY <1>2 DEF PoolPoints
  <2>2. \A i, j \in 1 .. n : i < j => Before(points[i], points[j])
    BY <1>2 DEF Rising
  <2>. QED
    BY <2>1, <2>2 DEF Before
<1>4. Good(0, c)
  <2>1. c \in Runs /\ Len(c.fp) = 0 /\ 0 <= MaxPrints
    BY Numbers DEF Runs
  <2>2. Well(c, points) /\ ~c.stop
    BY <2>1 DEF Well
  <2>. HIDE DEF c
  <2>. QED
    BY <2>2
<1>5. ASSUME NEW i \in 1 .. n, NEW s, Good(i - 1, s)
      PROVE  Good(i, CombineAll(b, s, i))
  <2> DEFINE x == CombineAll(b, s, i)
  <2>1. /\ Well(x, points) /\ (s.limit => x.limit) /\ Prefix(s.fp, x.fp)
        /\ s.stop => x = s
        /\ ~x.limit /\ ~s.stop =>
             IF x.stop THEN points[i].t > b - MaxTime
             ELSE \A j \in i + 1 .. Len(points) :
                    \/ Eligible(points[i], points[j]) => Has(x.fp, points[i], points[j])
                    \/ \E m \in i + 1 .. j : Far(points[i], points[m])
    <3>1. Well(s, points) /\ i \in 1 .. Len(points)
      BY <1>5
    <3>. QED
      BY <3>1, CombineAllFacts
  <2>2. s.fp \in Seq(Prints) /\ x.fp \in Seq(Prints)
    BY <1>5, <2>1 DEF Well, Runs
  <2>. HIDE DEF x
  <2>3. \A k, j \in 1 .. n :
          Has(s.fp, points[k], points[j]) => Has(x.fp, points[k], points[j])
    BY <2>1, <2>2 DEF Prefix, Has
  <2>4. /\ \A k \in 1 .. i : k = i \/ k \in 1 .. i - 1
        /\ \A k \in 1 .. i - 1 : k \in 1 .. i /\ k \in 1 .. n
        /\ \A k \in 1 .. n : \A j \in k + 1 .. n : j \in 1 .. n
        /\ i \in 1 .. i
    BY <1>2
  <2>5. SUFFICES ASSUME ~x.limit
                 PROVE  /\ x.stop => \E k \in 1 .. i : points[k].t > b - MaxTime
                        /\ \A k \in 1 .. i : Done(x.fp, k)
    BY <2>1 DEF x
  <2>6. /\ ~s.limit
        /\ s.stop => \E k \in 1 .. i - 1 : points[k].t > b - MaxTime
        /\ \A k \in 1 .. i - 1 : Done(s.fp, k)
    BY <1>5, <2>1, <2>5
  <2>7. ASSUME NEW k \in 1 .. i - 1 PROVE Done(x.fp, k)
    BY <2>3, <2>4, <2>6, <2>7
  <2>8. x.stop => \E k \in 1 .. i : points[k].t > b - MaxTime
    BY <2>1, <2>4, <2>5, <2>6
  <2>9. Done(x.fp, i)
    <3>1. SUFFICES ASSUME points[i].t <= b - MaxTime, NEW j \in i + 1 .. n,
                          Eligible(points[i], points[j])
                   PROVE  Has(x.fp, points[i], points[j])
      OBVIOUS
    <3>2. b - MaxTime \in Int /\ points[i].t \in Int /\ MaxTime \in Nat
      BY <1>2, Numbers DEF PoolPoints
    <3>3. ~s.stop
      <4>1. \A k \in 1 .. i - 1 : points[k].t <= points[i].t /\ points[k].t \in Int
        BY <1>2, <1>3, <2>4 DEF PoolPoints
      <4>. QED
        BY <2>6, <3>1, <3>2, <4>1
    <3>4. ~x.stop
      BY <2>1, <2>5, <3>1, <3>2, <3>3
    <3>5. \A m \in i + 1 .. j : ~Far(points[i], points[m])
      <4>1. SUFFICES ASSUME NEW m \in i + 1 .. j PROVE ~Far(points[i], points[m])
        OBVIOUS
      <4>2. m \in 1 .. n /\ j \in 1 .. n /\ (m = j \/ m < j)
        BY <1>2, <3>1
      <4>3. points[m].t <= points[j].t /\ points[m].t \in Int /\ points[j].t \in Int
        BY <1>2, <1>3, <4>2 DEF PoolPoints
      <4>4. points[j].t - points[i].t <= MaxTime
        BY <3>1, <3>2, <4>3, Numbers DEF Eligible
      <4>. QED
        BY <3>2, <4>3, <4>4 DEF Far
    <3>. QED
      BY <2>1, <2>5, <3>1, <3>3, <3>4, <3>5
  <2>. HIDE DEF Done
  <2>. QED
    BY <2>4, <2>7, <2>8, <2>9
<1>. HIDE DEF c
<1>6. \A i \in 0 .. n : \A s : Good(i, s) => s \in Runs
  BY DEF Well
<1>. HIDE DEF Good
<1>7. \A i \in 0 .. n : \A s : s \in T[i] <=> Good(i, s)
  BY <1>6
<1>8. \A i \in 1 .. n : i - 1 \in 0 .. n /\ i \in 0 .. n /\ i # 0
  BY <1>2
<1>9. 0 \in 0 .. n /\ n \in 0 .. n /\ c \in T[0]
  BY <1>2, <1>4, <1>7
<1>10. \A i \in 1 .. n : \A s \in T[i - 1] : CombineAll(b, s, i) \in T[i]
  BY <1>5, <1>7, <1>8
<1>11. \A i \in 1 .. n : \A s \in T[i - 1] : step[i][s] = CombineAll(b, s, i)
  OBVIOUS
<1>. HIDE DEF T, step, n
<1>12. PICK f : IsLoop(f, n, c, step) /\ \A i \in 0 .. n : f[i] \in T[i]
  <2>1. \A i \in 1 .. n : \A s \in T[i - 1] : step[i][s] \in T[i]
    BY <1>10, <1>11
  <2>. QED
    BY <1>2, <1>9, <2>1, LoopRuns
<1>13. f = [i \in 0 .. n |-> IF i = 0 THEN c ELSE CombineAll(b, f[i - 1], i)]
  <2>1. \A i \in 0 .. n : i # 0 => i \in 1 .. n /\ i - 1 \in 0 .. n
    BY <1>2
  <2>. QED
    BY <1>11, <1>12, <2>1 DEF IsLoop
<1>14. upto = [i \in 0 .. n |-> IF i = 0 THEN c ELSE CombineAll(b, upto[i - 1], i)]
  BY <1>13 DEF c, n
<1>15. \A i \in 0 .. n : upto[i] = IF i = 0 THEN c ELSE CombineAll(b, upto[i - 1], i)
  <2>. HIDE DEF upto
  <2>. QED
    BY <1>14
<1>. HIDE DEF upto
<1>16. \A i \in 0 .. n : upto[i] \in T[i]
  <2>1. upto[0] \in T[0]
    BY <1>9, <1>15
  <2>2. \A i \in 1 .. n : upto[i - 1] \in T[i - 1] => upto[i] \in T[i]
    BY <1>8, <1>10, <1>15
  <2>. QED
    BY <1>2, <2>1, <2>2, LoopKeeps
<1>17. Good(n, upto[n])
  BY <1>7, <1>9, <1>16
<1>18. ASSUME NEW i \in 1 .. n, NEW j \in 1 .. n, Eligible(points[i], points[j])
       PROVE  j \in i + 1 .. n
  <2>1. points[j].t - points[i].t >= MinTime /\ points[i].t \in Int /\ points[j].t \in Int
    <3>1. points[i].t \in Nat /\ points[j].t \in Nat
      BY <1>2 DEF PoolPoints
    <3>2. points[j].t - points[i].t \in MinTime .. MaxTime
      BY <1>18 DEF Eligible
    <3>. QED
      BY <3>1, <3>2, Numbers
  <2>2. points[i].t < points[j].t
    BY <2>1, Numbers
  <2>3. i < j
    <3>1. SUFFICES ASSUME j <= i PROVE FALSE
      BY <1>2
    <3>. QED
      BY <1>2, <1>3, <2>1, <2>2, <3>1
  <2>. QED
    BY <1>2, <2>3
<1>. QED
  BY <1>1, <1>17, <1>18 DEF Good, n

-----------------------------------------------------------------------------
\* A block's points go behind those of the pool, which are older.
LEMMA StoredFacts ==
  ASSUME pool \in Seq(PoolPoints), Len(pool) <= MaxPoints, Late(pool), Rising(pool),
         blockIndex \in Nat, \A k \in 1 .. Len(pool) : pool[k].t < blockIndex - Half,
         NEW s \in Sounds
  PROVE  LET points == Stored(Found(blockIndex, s))
         IN /\ points \in Seq(PoolPoints) /\ Len(points) <= MaxPoints
            /\ Late(points) /\ Rising(points)
            /\ \A k \in 1 .. Len(points) : points[k].t <= blockIndex - Half
            /\ Prefix(pool, points)
<1> DEFINE b   == blockIndex
           new == Found(b, s)
           all == pool \o new
           points == SubSeq(all, 1, Lesser(Len(all), MaxPoints))
<1>1. s \in Seq(Freqs) /\ \A i, j \in 1 .. Len(s) : i < j => s[i] < s[j]
  <2>1. PICK n \in 0 .. Cardinality(Freqs) : s \in [1 .. n -> Freqs]
    BY DEF Sounds
  <2>2. n \in Nat
    BY EngineAssumption, FS_CardinalityType
  <2>3. s \in Seq(Freqs) /\ DOMAIN s = 1 .. Len(s)
    BY <2>1, <2>2
  <2>. QED
    BY <2>3 DEF Sounds
<1>2. /\ new \in Seq(PoolPoints)
      /\ \A k \in 1 .. Len(new) : new[k].t = b - Half /\ b - Half >= Earliest
      /\ \A i, j \in 1 .. Len(new) : i < j => new[i].f < new[j].f
  <2>1. CASE b < FilterSize - 1
    BY <2>1 DEF Found
  <2>2. CASE ~(b < FilterSize - 1)
    <3>1. new = [i \in 1 .. Len(s) |-> Point(b - Half, s[i])]
      BY <2>2 DEF Found
    <3>2. b - Half >= Earliest /\ b - Half \in Nat
      BY <2>2, Numbers, EngineAssumption DEF Earliest
    <3>3. \A i \in 1 .. Len(s) : /\ Point(b - Half, s[i]) \in PoolPoints
                                 /\ Point(b - Half, s[i]).t = b - Half
                                 /\ Point(b - Half, s[i]).f = s[i]
      BY <1>1, <3>2 DEF Point, PoolPoints
    <3>4. new \in Seq(PoolPoints) /\ Len(new) = Len(s)
          /\ \A i \in 1 .. Len(s) : new[i] = Point(b - Half, s[i])
      BY <1>1, <3>1, <3>3
    <3>. HIDE DEF new
    <3>. QED
      BY <1>1, <3>2, <3>3, <3>4
  <2>. QED
    BY <2>1, <2>2
<1>. HIDE DEF new
<1>3. /\ all \in Seq(PoolPoints) /\ Len(all) = Len(pool) + Len(new)
      /\ Len(pool) \in Nat /\ Len(new) \in Nat
      /\ \A k \in 1 .. Len(pool) : all[k] = pool[k]
      /\ \A k \in 1 .. Len(new) : all[Len(pool) + k] = new[k]
  BY <1>2
<1>. HIDE DEF all
<1>4. /\ points \in Seq(PoolPoints) /\ Len(points) = Lesser(Len(all), MaxPoints)
      /\ \A k \in 1 .. Len(points) : points[k] = all[k]
      /\ Len(points) <= Len(all) /\ Len(points) <= MaxPoints /\ Len(pool) <= Len(points)
  BY <1>3, Numbers DEF Lesser
<1>5. Stored(Found(blockIndex, s)) = points
  BY DEF Stored, all, new
<1>. HIDE DEF points
<1>6. Prefix(pool, points)
  BY <1>3, <1>4 DEF Prefix
<1>7. ASSUME NEW k \in 1 .. Len(points)
      PROVE  \/ k \in 1 .. Len(pool) /\ points[k] = pool[k]
             \/ k - Len(pool) \in 1 .. Len(new) /\ points[k] = new[k - Len(pool)]
  <2>1. CASE k <= Len(pool)
    BY <1>3, <1>4, <2>1
  <2>2. CASE ~(k <= Len(pool))
    <3>1. k - Len(pool) \in 1 .. Len(new) /\ Len(pool) + (k - Len(pool)) = k
      BY <1>3, <1>4, <2>2
    <3>. QED
      BY <1>3, <1>4, <3>1
  <2>. QED
    BY <2>1, <2>2
<1>8. Late(points) /\ \A k \in 1 .. Len(points) : points[k].t <= b - Half
  <2>1. SUFFICES ASSUME NEW k \in 1 .. Len(points)
                 PROVE  points[k].t >= Earliest /\ points[k].t <= b - Half
    BY DEF Late
  <2>2. \A m \in 1 .. Len(pool) : pool[m] \in PoolPoints
    OBVIOUS
  <2>3. \A m \in 1 .. Len(pool) : pool[m].t \in Nat
    BY <2>2 DEF PoolPoints
  <2>4. b - Half \in Int
    BY Numbers
  <2>5. CASE k \in 1 .. Len(pool) /\ points[k] = pool[k]
    BY <2>3, <2>4, <2>5 DEF Late
  <2>6. CASE k - Len(pool) \in 1 .. Len(new) /\ points[k] = new[k - Len(pool)]
    BY <1>2, <2>4, <2>6
  <2>. QED
    BY <1>7, <2>5, <2>6
<1>9. Rising(points)
  <2>1. SUFFICES ASSUME NEW i \in 1 .. Len(points), NEW j \in 1 .. Len(points), i < j
                 PROVE  \/ points[i].t < points[j].t
                        \/ points[i].t = points[j].t /\ points[i].f < points[j].f
    BY <1>4 DEF Rising, Before
  <2>2. CASE i \in 1 .. Len(pool) /\ points[i] = pool[i]
    <3>1. CASE j \in 1 .. Len(pool) /\ points[j] = pool[j]
      BY <2>1, <2>2, <3>1 DEF Rising, Before
    <3>2. CASE j - Len(pool) \in 1 .. Len(new) /\ points[j] = new[j - Len(pool)]
      BY <1>2, <2>2, <3>2
    <3>. QED
      BY <1>7, <3>1, <3>2
  <2>3. CASE i - Len(pool) \in 1 .. Len(new) /\ points[i] = new[i - Len(pool)]
    <3>1. j - Len(pool) \in 1 .. Len(new) /\ points[j] = new[j - Len(pool)]
      BY <1>3, <1>7, <2>1, <2>3
    <3>2. i - Len(pool) < j - Len(pool)
      BY <1>3, <2>1
    <3>. QED
      BY <1>2, <2>3, <3>1, <3>2
  <2>. QED
    BY <1>7, <2>2, <2>3
<1>. QED
  BY <1>4, <1>5, <1>6, <1>8, <1>9

-----------------------------------------------------------------------------
\* An entry that counts time differences from low on: the offset counted last is
\* one of them, and the span in the reference is that in the query, shifted.
Counts(low, e) ==
  /\ e \in Entries /\ 0 < e.n
  /\ low <= e.q - e.ref /\ e.q - e.ref < low + Bucket
  /\ e.first <= e.ref /\ e.ref <= e.last
  /\ Earliest <= e.since /\ e.since <= e.q /\ e.q <= e.till
  /\ e.first <= e.since - low /\ e.since - low - Bucket < e.first
  /\ e.till - low - Bucket < e.last

EntryTables == UNION {[D -> Entries] : D \in SUBSET Int}
TableOK(tab) == tab \in EntryTables /\ \A k \in DOMAIN tab : Counts(k * Bucket, tab[k])

\* Bucket k counts the differences from k * Bucket on.
LEMMA BucketFacts ==
  ASSUME NEW d \in Int
  PROVE  LET k == d \div Bucket
         IN k \in Int /\ k * Bucket \in Int /\ k * Bucket <= d /\ d < k * Bucket + Bucket
  BY Numbers

\* The first count of an entry.
LEMMA CountsNew ==
  ASSUME NEW low \in Int, NEW d \in Int, low <= d, d < low + Bucket,
         NEW q \in Nat, q >= Earliest
  PROVE  Counts(low, New(q, q - d))
  BY Numbers DEF Counts, New, Entries, Earliest

\* A further count.
LEMMA CountsMore ==
  ASSUME NEW low \in Int, NEW d \in Int, low <= d, d < low + Bucket,
         NEW q \in Nat, q >= Earliest, NEW e, Counts(low, e)
  PROVE  Counts(low, [n |-> e.n + 1, first |-> Lesser(q - d, e.first),
                      last |-> Greater(q - d, e.last), ref |-> q - d, q |-> q,
                      since |-> Lesser(q, e.since), till |-> Greater(q, e.till)])
  BY Numbers DEF Counts, Entries, Earliest, Lesser, Greater

\* One result of a lookup keeps the table.
LEMMA TallyFacts ==
  ASSUME NEW tab, TableOK(tab), NEW q \in Nat, q >= Earliest, NEW d \in Int
  PROVE  TableOK(Tally(tab, q, d))
<1> DEFINE k == d \div Bucket
           r == q - d
           counted == IF k \in DOMAIN tab
                      THEN [n |-> tab[k].n + 1, first |-> Lesser(r, tab[k].first),
                            last |-> Greater(r, tab[k].last), ref |-> r, q |-> q,
                            since |-> Lesser(q, tab[k].since), till |-> Greater(q, tab[k].till)]
                      ELSE New(q, r)
           x == [l \in DOMAIN tab \cup {k} |-> IF l = k THEN counted ELSE tab[l]]
<1>1. Tally(tab, q, d) = x
  BY DEF Tally
<1>2. k \in Int /\ k * Bucket \in Int /\ k * Bucket <= d /\ d < k * Bucket + Bucket
  BY BucketFacts
<1>. HIDE DEF k
<1>3. Counts(k * Bucket, counted)
  BY <1>2, CountsNew, CountsMore DEF TableOK
<1>. HIDE DEF counted
<1>4. \A l \in DOMAIN x : l \in Int /\ Counts(l * Bucket, x[l])
  BY <1>2, <1>3 DEF TableOK, EntryTables
<1>5. DOMAIN x \subseteq Int /\ x \in [DOMAIN x -> Entries]
  BY <1>4 DEF Counts
<1>6. x \in EntryTables
  BY <1>5 DEF EntryTables
<1>. HIDE DEF x
<1>. QED
  BY <1>1, <1>4, <1>6 DEF TableOK

\* All results of one lookup.
LEMMA TallyFoundFacts ==
  ASSUME NEW tab, TableOK(tab), NEW q \in Nat, q >= Earliest, NEW found \in Seq(Int)
  PROVE  TableOK(TallyFound(tab, q, found))
<1> DEFINE n == Len(found)
           upto[i \in 0 .. Len(found)] ==
             IF i = 0 THEN tab ELSE Tally(upto[i - 1], q, found[i])
           T == [i \in 0 .. n |-> {x \in EntryTables : TableOK(x)}]
           step == [i \in 1 .. n |-> [x \in T[i - 1] |-> Tally(x, q, found[i])]]
<1>1. TallyFound(tab, q, found) = upto[n]
  BY DEF TallyFound
<1>2. n \in Nat /\ \A i \in 1 .. n : found[i] \in Int
  OBVIOUS
<1>3. \A i \in 0 .. n : \A x : x \in T[i] <=> TableOK(x)
  BY DEF TableOK
<1>4. \A i \in 1 .. n : i - 1 \in 0 .. n /\ i \in 0 .. n /\ i # 0
  BY <1>2
<1>5. 0 \in 0 .. n /\ n \in 0 .. n /\ tab \in T[0]
  BY <1>2, <1>3
<1>6. \A i \in 1 .. n : \A x \in T[i - 1] : Tally(x, q, found[i]) \in T[i]
  BY <1>2, <1>3, <1>4, TallyFacts
<1>7. \A i \in 1 .. n : \A x \in T[i - 1] : step[i][x] = Tally(x, q, found[i])
  OBVIOUS
<1>. HIDE DEF T, step, n
<1>8. PICK f : IsLoop(f, n, tab, step) /\ \A i \in 0 .. n : f[i] \in T[i]
  <2>1. \A i \in 1 .. n : \A x \in T[i - 1] : step[i][x] \in T[i]
    BY <1>6, <1>7
  <2>. QED
    BY <1>2, <1>5, <2>1, LoopRuns
<1>9. f = [i \in 0 .. n |-> IF i = 0 THEN tab ELSE Tally(f[i - 1], q, found[i])]
  <2>1. \A i \in 0 .. n : i # 0 => i \in 1 .. n /\ i - 1 \in 0 .. n
    BY <1>2
  <2>. QED
    BY <1>7, <1>8, <2>1 DEF IsLoop
<1>10. upto = [i \in 0 .. n |-> IF i = 0 THEN tab ELSE Tally(upto[i - 1], q, found[i])]
  BY <1>9 DEF n
<1>11. \A i \in 0 .. n : upto[i] = IF i = 0 THEN tab ELSE Tally(upto[i - 1], q, found[i])
  <2>. HIDE DEF upto
  <2>. QED
    BY <1>10
<1>. HIDE DEF upto
<1>12. \A i \in 0 .. n : upto[i] \in T[i]
  <2>1. upto[0] \in T[0]
    BY <1>5, <1>11
  <2>2. \A i \in 1 .. n : upto[i - 1] \in T[i - 1] => upto[i] \in T[i]
    BY <1>4, <1>6, <1>11
  <2>. QED
    BY <1>2, <2>1, <2>2, LoopKeeps
<1>. QED
  BY <1>1, <1>3, <1>5, <1>12

\* All prints of a block.
LEMMA TallyAllFacts ==
  ASSUME NEW tab, TableOK(tab), NEW fps \in Seq(Prints),
         \A m \in 1 .. Len(fps) : fps[m].t1 >= Earliest,
         NEW found \in [DOMAIN fps -> Lookups]
  PROVE  TableOK(TallyAll(tab, fps, found))
<1> DEFINE n == Len(fps)
           upto[i \in 0 .. Len(fps)] ==
             IF i = 0 THEN tab ELSE TallyFound(upto[i - 1], fps[i].t1, found[i])
           T == [i \in 0 .. n |-> {x \in EntryTables : TableOK(x)}]
           step == [i \in 1 .. n |-> [x \in T[i - 1] |-> TallyFound(x, fps[i].t1, found[i])]]
<1>1. TallyAll(tab, fps, found) = upto[n]
  BY DEF TallyAll
<1>2. n \in Nat /\ \A i \in 1 .. n : /\ fps[i].t1 \in Nat /\ fps[i].t1 >= Earliest
                                     /\ found[i] \in Seq(Int)
  <2>1. \A i \in 1 .. n : fps[i] \in Prints /\ found[i] \in Lookups
    OBVIOUS
  <2>2. \A i \in 1 .. n : found[i] \in Seq(Int)
    BY <2>1, EngineAssumption
  <2>3. \A i \in 1 .. n : fps[i].t1 \in Nat
    BY <2>1 DEF Prints
  <2>. QED
    BY <2>2, <2>3
<1>3. \A i \in 0 .. n : \A x : x \in T[i] <=> TableOK(x)
  BY DEF TableOK
<1>4. \A i \in 1 .. n : i - 1 \in 0 .. n /\ i \in 0 .. n /\ i # 0
  BY <1>2
<1>5. 0 \in 0 .. n /\ n \in 0 .. n /\ tab \in T[0]
  BY <1>2, <1>3
<1>6. \A i \in 1 .. n : \A x \in T[i - 1] : TallyFound(x, fps[i].t1, found[i]) \in T[i]
  BY <1>2, <1>3, <1>4, TallyFoundFacts
<1>7. \A i \in 1 .. n : \A x \in T[i - 1] : step[i][x] = TallyFound(x, fps[i].t1, found[i])
  OBVIOUS
<1>. HIDE DEF T, step, n
<1>8. PICK f : IsLoop(f, n, tab, step) /\ \A i \in 0 .. n : f[i] \in T[i]
  <2>1. \A i \in 1 .. n : \A x \in T[i - 1] : step[i][x] \in T[i]
    BY <1>6, <1>7
  <2>. QED
    BY <1>2, <1>5, <2>1, LoopRuns
<1>9. f = [i \in 0 .. n |-> IF i = 0 THEN tab ELSE TallyFound(f[i - 1], fps[i].t1, found[i])]
  <2>1. \A i \in 0 .. n : i # 0 => i \in 1 .. n /\ i - 1 \in 0 .. n
    BY <1>2
  <2>. QED
    BY <1>7, <1>8, <2>1 DEF IsLoop
<1>10. upto = [i \in 0 .. n |->
                 IF i = 0 THEN tab ELSE TallyFound(upto[i - 1], fps[i].t1, found[i])]
  BY <1>9 DEF n
<1>11. \A i \in 0 .. n :
         upto[i] = IF i = 0 THEN tab ELSE TallyFound(upto[i - 1], fps[i].t1, found[i])
  <2>. HIDE DEF upto
  <2>. QED
    BY <1>10
<1>. HIDE DEF upto
<1>12. \A i \in 0 .. n : upto[i] \in T[i]
  <2>1. upto[0] \in T[0]
    BY <1>5, <1>11
  <2>2. \A i \in 1 .. n : upto[i - 1] \in T[i - 1] => upto[i] \in T[i]
    BY <1>4, <1>6, <1>11
  <2>. QED
    BY <1>2, <2>1, <2>2, LoopKeeps
<1>. QED
  BY <1>1, <1>3, <1>5, <1>12

-----------------------------------------------------------------------------
\* What a report says of an entry that counts from low on.
Sane(r) ==
  /\ IF r.count > 0 THEN r.start > 0 ELSE r.start = 0
  /\ r.count > 0 => /\ r.start <= r.heard /\ r.heard <= r.stop
                    /\ r.start - r.since < Bucket /\ r.till - r.stop < Bucket

\* An entry is reported with its span converted to the query.  The start is after 0
\* because Earliest is at least a bucket.
LEMMA MatchIsSane ==
  ASSUME NEW low \in Int, NEW e, Counts(low, e), NEW now
  PROVE  Sane(Match(e, now))
<1>1. /\ e.n \in Nat /\ e.first \in Int /\ e.last \in Int /\ e.ref \in Int /\ e.q \in Nat
      /\ e.since \in Nat /\ e.till \in Nat
  BY DEF Counts, Entries
<1>2. Bucket <= Earliest /\ Bucket \in Nat /\ 0 < Bucket /\ Earliest \in Int
  BY EngineAssumption, Numbers DEF Earliest
<1> DEFINE r == Match(e, now)
<1>3. /\ r.count = e.n /\ r.start = e.first + (e.q - e.ref) /\ r.stop = e.last + (e.q - e.ref)
      /\ r.heard = e.q /\ r.since = e.since /\ r.till = e.till
  BY DEF Match
<1>. HIDE DEF r
<1>4. Sane(r)
  BY <1>1, <1>2, <1>3 DEF Sane, Counts
<1>. QED
  BY <1>4 DEF r

\* Matching keeps the table and reports what it counted.
LEMMA MatchFacts ==
  ASSUME TableOK(table), lastPrint \in Nat, \A r \in report : Sane(r),
         NEW fps \in Seq(Prints), fps # <<>>,
         \A m \in 1 .. Len(fps) : fps[m].t1 >= Earliest, MatchPrints(fps)
  PROVE  TableOK(table') /\ lastPrint' \in Nat /\ \A r \in report' : Sane(r)
<1> DEFINE now == Last(fps).t2
<1>1. PICK found \in [DOMAIN fps -> Lookups] :
        LET tab == TallyAll(table, fps, found)
        IN /\ IF now - lastPrint > PrintEvery
              THEN /\ \E T \in Best(tab) : report' = Results(tab, T, now)
                   /\ lastPrint' = now
              ELSE report' = {} /\ UNCHANGED lastPrint
           /\ table' = Remembered(tab, now)
  BY DEF MatchPrints
<1> DEFINE tab == TallyAll(table, fps, found)
<1>2. TableOK(tab)
  BY TallyAllFacts
<1>3. now \in Nat
  <2>1. Len(fps) \in 1 .. Len(fps)
    OBVIOUS
  <2>2. fps[Len(fps)] \in Prints
    BY <2>1
  <2>. QED
    BY <2>2 DEF Last, Prints
<1>4. /\ IF now - lastPrint > PrintEvery
         THEN /\ \E T \in Best(tab) : report' = Results(tab, T, now)
              /\ lastPrint' = now
         ELSE report' = {} /\ UNCHANGED lastPrint
      /\ table' = Remembered(tab, now)
  BY <1>1
<1>. HIDE DEF now, tab
<1>5. lastPrint' \in Nat
  BY <1>3, <1>4
<1>6. TableOK(table')
  <2> DEFINE D == {k \in DOMAIN tab : now - tab[k].q <= KeepFor}
  <2>1. table' = [k \in D |-> tab[k]]
    BY <1>4 DEF Remembered
  <2>2. D \subseteq DOMAIN tab /\ D \subseteq Int
    BY <1>2 DEF TableOK, EntryTables
  <2>. HIDE DEF D
  <2>3. \A k \in D : tab[k] \in Entries /\ Counts(k * Bucket, tab[k])
    BY <1>2, <2>2 DEF TableOK, Counts
  <2>. QED
    BY <2>1, <2>2, <2>3 DEF TableOK, EntryTables
<1>7. ASSUME NEW r \in report' PROVE Sane(r)
  <2>1. PICK T \in Best(tab) : report' = Results(tab, T, now)
    BY <1>4, <1>7
  <2>2. T \subseteq DOMAIN tab
    BY DEF Best
  <2>3. CASE T = {}
    <3>1. r = NoMatch(now)
      BY <1>7, <2>1, <2>3 DEF Results
    <3>. QED
      BY <3>1 DEF NoMatch, Sane
  <2>4. CASE T # {}
    <3>1. PICK k \in T : r = Match(tab[k], now)
      BY <1>7, <2>1, <2>4 DEF Results
    <3>2. DOMAIN tab \subseteq Int
      BY <1>2 DEF TableOK, EntryTables
    <3>3. k \in Int /\ k * Bucket \in Int
      BY <2>2, <3>2, Numbers
    <3>4. Counts(k * Bucket, tab[k])
      BY <1>2, <2>2 DEF TableOK
    <3>. QED
      BY <3>1, <3>3, <3>4, MatchIsSane
  <2>. QED
    BY <2>3, <2>4
<1>. QED
  BY <1>5, <1>6, <1>7

-----------------------------------------------------------------------------
(* The inductive invariant of the engine.                                  *)

PoolOK ==
  /\ pool \in Seq(PoolPoints) /\ Len(pool) <= MaxPoints
  /\ Late(pool) /\ Rising(pool)
  /\ \A k \in 1 .. Len(pool) : pool[k].t < blockIndex - Half

EngineInv ==
  /\ BlocksInv /\ PoolOK
  /\ Len(prints) <= MaxPrints
  /\ TableOK(table) /\ lastPrint \in Nat
  /\ \A r \in report : Sane(r)
  /\ limited \in BOOLEAN

\* What a full block does to the pool and the prints.
LEMMA BlockPool ==
  ASSUME EngineInv, NEW s \in Sounds, Block(s), blockIndex' = blockIndex + 1
  PROVE  /\ PoolOK' /\ Len(prints') <= MaxPrints
         /\ prints' \in Seq(Prints) /\ \A m \in 1 .. Len(prints') : prints'[m].t1 >= Earliest
         /\ ~limited' =>
              \A i \in 1 .. Len(pool) :
                \/ \E k \in 1 .. Len(pool') : pool'[k].t = pool[i].t /\ pool'[k].f = pool[i].f
                \/ /\ pool[i].t + MaxTime <= blockIndex - Half
                   /\ \A q \in Range(pool) \cup Range(pool') :
                        Eligible(pool[i], q) => Has(prints', pool[i], q)
<1> DEFINE b      == blockIndex
           points == Stored(Found(b, s))
           full   == Len(points) > Threshold
           x      == Extract(points, b)
<1>1. b \in Nat /\ b' = b + 1
  BY DEF EngineInv, BlocksInv, BlocksTypeOK
<1>2. /\ points \in Seq(PoolPoints) /\ Len(points) <= MaxPoints
      /\ Late(points) /\ Rising(points)
      /\ \A k \in 1 .. Len(points) : points[k].t <= b - Half
      /\ Prefix(pool, points)
  BY <1>1, StoredFacts DEF EngineInv, PoolOK
<1>3. /\ pool' = IF full THEN Kept(x.ep, b) ELSE points
      /\ prints' = IF full THEN x.fp ELSE <<>>
      /\ ~limited' => ~(full /\ (x.limit \/ \E p \in Range(x.ep) : p.u = MaxUsages))
  BY DEF Block
<1>. HIDE DEF points
<1>4. /\ Well(x, points)
      /\ ~x.limit => \A i, j \in 1 .. Len(points) :
           points[i].t <= b - MaxTime /\ Eligible(points[i], points[j])
             => Has(x.fp, points[i], points[j])
  BY <1>1, <1>2, ExtractFacts
<1>. HIDE DEF x, full
<1>5. /\ x.ep \in Seq(PoolPoints) /\ Len(x.ep) = Len(points)
      /\ \A k \in 1 .. Len(points) : x.ep[k].t = points[k].t /\ x.ep[k].f = points[k].f
      /\ x.fp \in Seq(Prints) /\ Len(x.fp) <= MaxPrints
      /\ \A m \in 1 .. Len(x.fp) : x.fp[m].t1 >= Earliest
  BY <1>4 DEF Well, Runs
<1>6. /\ \A k \in 1 .. Len(points) : points[k] \in PoolPoints
      /\ \A k \in 1 .. Len(pool) : k \in 1 .. Len(points) /\ points[k] = pool[k]
      /\ Len(points) \in Nat /\ Len(pool) \in Nat
      /\ pool \in Seq(PoolPoints)
  BY <1>2 DEF Prefix, EngineInv, PoolOK
<1>7. Rising(x.ep)
  <2>1. DOMAIN x.ep = DOMAIN points
    BY <1>5, <1>6
  <2>2. \A i, j \in DOMAIN points : Before(points[i], points[j]) <=> Before(x.ep[i], x.ep[j])
    BY <1>5, <1>6 DEF Before
  <2>. QED
    BY <1>2, <2>1, <2>2 DEF Rising
<1> DEFINE ep   == x.ep
           kept == Kept(ep, b)
<1>7a. ep = x.ep /\ kept = Kept(x.ep, b)
  OBVIOUS
<1>7b. ep \in Seq(PoolPoints) /\ Rising(ep)
  BY <1>5, <1>7
<1>. HIDE DEF ep
<1>8. /\ kept \in Seq(PoolPoints) /\ Len(kept) <= Len(x.ep) /\ Rising(kept)
      /\ \A j \in DOMAIN kept : \E k \in DOMAIN x.ep : kept[j] = x.ep[k]
      /\ \A k \in DOMAIN x.ep :
           x.ep[k].t > Last(x.ep).t - MaxTime /\ x.ep[k].u # MaxUsages
             => \E j \in DOMAIN kept : kept[j] = x.ep[k]
  <2>1. /\ kept \in Seq(PoolPoints) /\ Len(kept) <= Len(ep) /\ Rising(kept)
        /\ \A j \in DOMAIN kept : \E k \in DOMAIN ep : kept[j] = ep[k]
        /\ \A k \in DOMAIN ep :
             ep[k].t > Last(ep).t - MaxTime /\ ep[k].u # MaxUsages
               => \E j \in DOMAIN kept : kept[j] = ep[k]
    BY ONLY <1>7b, KeptFacts
  <2>. HIDE DEF kept
  <2>. QED
    BY <1>7a, <2>1
<1>. HIDE DEF kept
<1>9. \A j \in 1 .. Len(kept) :
        \E k \in 1 .. Len(points) : kept[j].t = points[k].t /\ kept[j].f = points[k].f
  <2>1. DOMAIN kept = 1 .. Len(kept) /\ DOMAIN x.ep = 1 .. Len(points)
    BY <1>5, <1>8
  <2>2. SUFFICES ASSUME NEW j \in 1 .. Len(kept)
                 PROVE  \E k \in 1 .. Len(points) :
                          kept[j].t = points[k].t /\ kept[j].f = points[k].f
    OBVIOUS
  <2>3. PICK k \in 1 .. Len(points) : kept[j] = x.ep[k]
    BY <1>8, <2>1, <2>2
  <2>. QED
    BY <1>5, <2>3
<1>10. PoolOK'
  <2>1. b' - Half = b - Half + 1 /\ b - Half \in Int /\ \A k \in 1 .. Len(points) : points[k].t \in Int
    BY <1>1, <1>6, Numbers DEF PoolPoints
  <2>2. \A v \in Int : v <= b - Half => v < b' - Half
    BY <2>1
  <2>3. CASE ~full
    BY <1>2, <1>3, <2>1, <2>2, <2>3 DEF PoolOK
  <2>4. CASE full
    <3>1. pool' = kept
      BY <1>3, <1>7a, <2>4
    <3>2. Len(kept) <= MaxPoints
      BY <1>2, <1>5, <1>8, Numbers
    <3>3. Late(kept) /\ \A j \in 1 .. Len(kept) : kept[j].t < b' - Half
      <4>1. SUFFICES ASSUME NEW j \in 1 .. Len(kept)
                     PROVE  kept[j].t >= Earliest /\ kept[j].t < b' - Half
        BY DEF Late
      <4>2. PICK k \in 1 .. Len(points) : kept[j].t = points[k].t
        BY <1>9
      <4>3. points[k].t >= Earliest /\ points[k].t < b' - Half
        BY <1>2, <2>1, <2>2 DEF Late
      <4>. QED
        BY <4>2, <4>3
    <3>. QED
      BY <1>8, <3>1, <3>2, <3>3 DEF PoolOK
  <2>. QED
    BY <2>3, <2>4
<1>11. Len(prints') <= MaxPrints /\ prints' \in Seq(Prints)
       /\ \A m \in 1 .. Len(prints') : prints'[m].t1 >= Earliest
  BY <1>3, <1>5, Numbers
<1>12. ASSUME ~limited', NEW i \in 1 .. Len(pool)
       PROVE  \/ \E k \in 1 .. Len(pool') : pool'[k].t = pool[i].t /\ pool'[k].f = pool[i].f
              \/ /\ pool[i].t + MaxTime <= b - Half
                 /\ \A q \in Range(pool) \cup Range(pool') :
                      Eligible(pool[i], q) => Has(prints', pool[i], q)
  <2>1. CASE ~full
    <3>1. pool' = points
      BY <1>3, <2>1
    <3>. QED
      BY <1>6, <3>1
  <2>2. CASE full
    <3>1. pool' = kept /\ prints' = x.fp /\ ~x.limit /\ \A p \in Range(x.ep) : p.u # MaxUsages
      BY <1>3, <1>12, <1>7a, <2>2
    <3>2. i \in 1 .. Len(points) /\ points[i] = pool[i] /\ i \in DOMAIN x.ep
          /\ x.ep[i].t = pool[i].t /\ x.ep[i].f = pool[i].f
      BY <1>5, <1>6
    <3>3. x.ep[i].u # MaxUsages
      BY <3>1, <3>2 DEF Range
    <3>4. CASE x.ep[i].t > Last(x.ep).t - MaxTime
      <4>1. PICK j \in DOMAIN kept : kept[j] = x.ep[i]
        BY <1>8, <3>2, <3>3, <3>4
      <4>2. j \in 1 .. Len(kept) /\ kept[j].t = pool[i].t /\ kept[j].f = pool[i].f
        BY <1>8, <3>2, <4>1
      <4>. QED
        BY <3>1, <4>2
    <3>5. CASE ~(x.ep[i].t > Last(x.ep).t - MaxTime)
      <4>1. Last(x.ep).t = points[Len(points)].t /\ Len(points) \in 1 .. Len(points)
        BY <1>5, <1>6, <3>2 DEF Last
      <4>2. points[Len(points)].t <= b - Half /\ points[Len(points)].t \in Int
            /\ pool[i].t \in Int
        <5>1. \A k \in 1 .. Len(points) : points[k].t \in Int
          BY <1>6 DEF PoolPoints
        <5>. QED
          BY <1>2, <3>2, <4>1, <5>1
      <4>3. pool[i].t + MaxTime <= b - Half /\ pool[i].t <= b - MaxTime
        BY <1>1, <3>2, <3>5, <4>1, <4>2, Numbers
      <4>4. ASSUME NEW q \in Range(pool) \cup Range(pool'), Eligible(pool[i], q)
            PROVE  Has(prints', pool[i], q)
        <5>1. PICK j \in 1 .. Len(points) : q.t = points[j].t /\ q.f = points[j].f
          <6>1. CASE q \in Range(pool)
            <7>1. PICK j \in 1 .. Len(pool) : q = pool[j]
              BY <1>6, <6>1 DEF Range
            <7>. QED
              BY <1>6, <7>1
          <6>2. CASE q \in Range(pool')
            <7>1. PICK j \in 1 .. Len(kept) : q = kept[j]
              BY <1>8, <3>1, <6>2 DEF Range
            <7>. QED
              BY <1>9, <7>1
          <6>. QED
            BY <4>4, <6>1, <6>2
        <5>2. Eligible(points[i], points[j]) /\ Pair(points[i], points[j]) = Pair(pool[i], q)
          BY <3>2, <4>4, <5>1 DEF Eligible, Pair
        <5>3. Has(x.fp, points[i], points[j])
          BY <1>4, <3>1, <3>2, <4>3, <5>2
        <5>. QED
          BY <3>1, <5>2, <5>3 DEF Has
      <4>. QED
        BY <4>3, <4>4
    <3>. QED
      BY <3>4, <3>5
  <2>. QED
    BY <2>1, <2>2
<1>. QED
  BY <1>10, <1>11, <1>12

-----------------------------------------------------------------------------
(* Every step keeps the invariant.                                         *)

\* Initially nothing was heard, found or counted.
LEMMA EngineInvInit == EngineInit => EngineInv
<1>1. SUFFICES ASSUME EngineInit PROVE EngineInv
  OBVIOUS
<1>2. BlocksInv
  BY <1>1, BlocksInductive DEF EngineInit
<1>3. PoolOK
  BY <1>1, Numbers DEF EngineInit, PoolOK, Late, Rising
<1>4. TableOK(table)
  <2>1. table = [k \in {} |-> 0] /\ DOMAIN table = {}
    BY <1>1 DEF EngineInit
  <2>2. table \in [{} -> Entries] /\ {} \in SUBSET Int
    BY <2>1
  <2>. QED
    BY <2>1, <2>2 DEF EntryTables, TableOK
<1>5. Len(prints) <= MaxPrints /\ lastPrint \in Nat
  BY <1>1, Numbers DEF EngineInit
<1>6. (\A r \in report : Sane(r)) /\ limited \in BOOLEAN
  BY <1>1, Zenon DEF EngineInit
<1>. QED
  BY <1>2, <1>3, <1>4, <1>5, <1>6 DEF EngineInv

\* A full block.
LEMMA SoundKeepsInv ==
  ASSUME EngineInv, NEW n \in Chunks, Sound(n)
  PROVE  EngineInv'
<1>1. PICK s \in Sounds : Block(s)
  BY DEF Sound
<1>2. blockIndex' = blockIndex + 1
  BY DEF Sound, Complete
<1>3. BlocksInv'
  BY CompleteKeepsInv DEF EngineInv, Sound
<1>4. PoolOK' /\ Len(prints') <= MaxPrints /\ prints' \in Seq(Prints)
      /\ \A m \in 1 .. Len(prints') : prints'[m].t1 >= Earliest
  BY <1>1, <1>2, BlockPool
<1>5. TableOK(table') /\ lastPrint' \in Nat /\ \A r \in report' : Sane(r)
  <2>1. TableOK(table) /\ lastPrint \in Nat /\ \A r \in report : Sane(r)
    BY DEF EngineInv
  <2>2. CASE prints' # <<>>
    <3>1. MatchPrints(prints')
      BY <1>1, <2>2 DEF Block
    <3>. QED
      BY <1>4, <2>1, <2>2, <3>1, MatchFacts
  <2>3. CASE prints' = <<>>
    BY <1>1, <2>1, <2>3 DEF Block
  <2>. QED
    BY <2>2, <2>3
<1>6. limited' \in BOOLEAN
  BY <1>1, Zenon DEF Block
<1>. QED
  BY <1>3, <1>4, <1>5, <1>6 DEF EngineInv

\* Calls that complete no block, blocks, and stuttering.
LEMMA EngineInductive ==
  EngineInv /\ [EngineNext]_engineVars => EngineInv'
<1>1. ASSUME EngineInv, NEW n \in Chunks, Quiet(n) PROVE EngineInv'
  <2>1. blockIndex' = blockIndex
    BY <1>1 DEF Quiet, Collect, FirstCall, FirstCallTraps, Fill
  <2>2. BlocksInv'
    BY <1>1, CollectKeepsInv DEF EngineInv, Quiet
  <2>3. UNCHANGED <<pool, prints, table, lastPrint, report, limited>>
    BY <1>1 DEF Quiet, matcher
  <2>4. PoolOK'
    BY <1>1, <2>1, <2>3 DEF EngineInv, PoolOK
  <2>. QED
    BY <1>1, <2>2, <2>3, <2>4 DEF EngineInv
<1>2. ASSUME EngineInv, UNCHANGED engineVars PROVE EngineInv'
  <2>1. BlocksInv'
    BY <1>2, BlocksInductive DEF EngineInv, engineVars
  <2>2. blockIndex' = blockIndex /\ UNCHANGED <<pool, prints, table, lastPrint, report, limited>>
    BY <1>2 DEF engineVars, matcher, blockVars
  <2>3. PoolOK'
    BY <1>2, <2>2 DEF EngineInv, PoolOK
  <2>. QED
    BY <1>2, <2>1, <2>2, <2>3 DEF EngineInv
<1>. QED
  BY <1>1, <1>2, SoundKeepsInv DEF EngineNext

\* The invariant holds in every behaviour.
LEMMA EngineKeepsInv == EngineSpec => []EngineInv
  BY EngineInvInit, EngineInductive, PTL DEF EngineSpec

-----------------------------------------------------------------------------
\* The pool and the prints stay within their arrays, whatever the sound and the
\* database: the two bounds the code asserts.
THEOREM EngineTypes == EngineSpec => []TypeOK
<1>1. EngineInv => TypeOK
  <2>1. SUFFICES ASSUME EngineInv PROVE TypeOK
    OBVIOUS
  <2>2. BlocksTypeOK
    BY <2>1 DEF EngineInv, BlocksInv
  <2>3. pool \in Seq([t : Nat, f : Freqs, u : Nat]) /\ Len(pool) <= MaxPoints
    BY <2>1 DEF EngineInv, PoolOK, PoolPoints
  <2>4. DOMAIN table \subseteq Int /\ \A k \in DOMAIN table : table[k] \in Entries
    BY <2>1 DEF EngineInv, TableOK, EntryTables, Counts
  <2>. QED
    BY <2>1, <2>2, <2>3, <2>4 DEF EngineInv, TypeOK
<1>. QED
  BY <1>1, EngineKeepsInv, PTL

\* assert(t2>=t1) holds: points leave the pool anywhere, its order stays.
THEOREM PoolStaysSorted == EngineSpec => []PoolIsSorted
<1>1. EngineInv => PoolIsSorted
  BY DEF EngineInv, PoolOK, Rising, Before, PoolIsSorted
<1>. QED
  BY <1>1, EngineKeepsInv, PTL

\* The page tells a match from an empty result by the start it is sent.
THEOREM StartsTellMatches == EngineSpec => []StartTellsAMatch
<1>1. EngineInv => StartTellsAMatch
  BY DEF EngineInv, Sane, StartTellsAMatch
<1>. QED
  BY <1>1, EngineKeepsInv, PTL

\* What is reported as the span of a match covers all that was counted for it, to
\* within a bucket.
THEOREM SpansCoverMatches == EngineSpec => []SpanCoversTheMatch
<1>1. EngineInv => SpanCoversTheMatch
  BY DEF EngineInv, Sane, SpanCoversTheMatch
<1>. QED
  BY <1>1, EngineKeepsInv, PTL

\* olaf_fp_extractor_extract_two drops a point only when it has been combined with
\* all its partners, or a limit was met.
THEOREM NoPairMissed == EngineSpec => NoPairIsMissed
<1> DEFINE Missed ==
      ~limited' =>
       \A p \in {r \in Range(pool) : Gone(r)} :
         /\ p.t + MaxTime <= blockIndex - Half
         /\ \A q \in Range(pool) \cup Range(pool') :
              Eligible(p, q) => Pair(p, q) \in made \cup Range(prints')
<1>1. EngineInv /\ [EngineNext]_engineVars => [Missed]_engineVars
  <2>1. SUFFICES ASSUME EngineInv, EngineNext PROVE Missed
    OBVIOUS
  <2>2. SUFFICES ASSUME ~limited', NEW p \in Range(pool), Gone(p)
                 PROVE  /\ p.t + MaxTime <= blockIndex - Half
                        /\ \A q \in Range(pool) \cup Range(pool') :
                             Eligible(p, q) => Pair(p, q) \in made \cup Range(prints')
    OBVIOUS
  <2>3. PICK i \in 1 .. Len(pool) : p = pool[i]
    BY <2>1 DEF Range, EngineInv, PoolOK
  <2>4. PICK n \in Chunks : Quiet(n) \/ Sound(n)
    BY <2>1 DEF EngineNext
  <2>5. ~Quiet(n)
    <3>1. SUFFICES ASSUME Quiet(n) PROVE FALSE
      OBVIOUS
    <3>2. pool' = pool
      BY <3>1 DEF Quiet
    <3>. QED
      BY <2>2, <3>2 DEF Gone
  <2>6. PICK s \in Sounds : Block(s)
    BY <2>4, <2>5 DEF Sound
  <2>7. blockIndex' = blockIndex + 1
    BY <2>4, <2>5 DEF Sound, Complete
  <2>8. /\ PoolOK' /\ prints' \in Seq(Prints)
        /\ \/ \E k \in 1 .. Len(pool') : pool'[k].t = pool[i].t /\ pool'[k].f = pool[i].f
           \/ /\ pool[i].t + MaxTime <= blockIndex - Half
              /\ \A q \in Range(pool) \cup Range(pool') :
                   Eligible(pool[i], q) => Has(prints', pool[i], q)
    BY <2>1, <2>2, <2>6, <2>7, BlockPool
  <2>9. ~\E k \in 1 .. Len(pool') : pool'[k].t = pool[i].t /\ pool'[k].f = pool[i].f
    <3>1. \A k \in 1 .. Len(pool') : pool'[k] \in Range(pool')
      BY <2>8 DEF PoolOK, Range
    <3>. QED
      BY <2>2, <2>3, <3>1 DEF Gone
  <2>10. \A q : Has(prints', p, q) => Pair(p, q) \in Range(prints')
    BY <2>8 DEF Has, Range
  <2>. QED
    BY <2>3, <2>8, <2>9, <2>10
<1>. QED
  BY <1>1, EngineKeepsInv, PTL DEF EngineSpec, NoPairIsMissed
=============================================================================
