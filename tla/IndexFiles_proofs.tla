-------------------------- MODULE IndexFiles_proofs --------------------------
(***************************************************************************)
(* Proofs about IndexFiles, for any hash values, ids and bounds, and any   *)
(* set of faults.                                                          *)
(*                                                                         *)
(* The invariant says, place by place, which tables together hold what the *)
(* history variable first expects: the two files, the main file and the    *)
(* table in memory, or the destination of the merge alone.                 *)
(***************************************************************************)
EXTENDS IndexFiles, TLAPS

\* What a merge, done now, would end with.
View ==
  CASE pc \in {"clearing", "save", "saving"} -> dst
    [] pc \in {"serving", "closing", "leaving"} \cup UnpluggedPcs -> Merged(file["main"].tbl, tmp)
    [] OTHER -> Merged(file["main"].tbl, file["tmp"].tbl)

Kept == harm = {} => first = View

\* The main index is mapped exactly where it is served, from a whole file.
Mapped ==
  /\ main # Null <=> pc \in {"opentmp", "serving"}
  /\ ServedIsDurable

\* The destination of a merge has what the main file has, if that could be read.
Grows ==
  pc \in {"clear", "clearing", "save"} /\ file["main"].state = "whole" /\ "main" \notin harm
    => \A k \in Keys : file["main"].tbl[k] # None => dst[k] = file["main"].tbl[k]

\* What is missing is empty, and the server gets nowhere without its main file.
Present ==
  /\ file["tmp"].state = "missing" => file["tmp"].tbl = Empty
  /\ file["main"].state = "missing" =>
       /\ file["main"].tbl = Empty /\ file["tmp"].tbl = Empty
       /\ pc \in {"down", "init", "open", "mapping", "broken"}

\* Without harm the main file is torn only while it is written, a torn temporary
\* file (one that an opening found) is behind a table in memory, and the temporary
\* file is empty from the merge to the opening of the main one.
Orderly ==
  harm = {} =>
    /\ file["main"].state = "torn" => pc \in {"saving", "creating"}
    /\ file["tmp"].state = "torn" =>
         pc \in {"clearing", "serving", "closing", "leaving", "flushing"}
    /\ pc = "clear" => dst = Merged(file["main"].tbl, file["tmp"].tbl)
    /\ pc = "saving" => file["main"].tbl = dst
    /\ pc = "creating" => file["main"].tbl = Empty
    /\ pc \in {"flushing", "freeing"} => file["tmp"].tbl = tmp
    /\ pc \in {"clearing", "save", "saving", "open", "creating", "mapping", "opentmp"}
         => file["tmp"].tbl = Empty
    /\ pc # "raced"

IInv == TypeOK /\ Mapped /\ Grows /\ Present /\ Orderly /\ Kept
-----------------------------------------------------------------------------
\* Merging two tables, and an empty one on either side.
LEMMA MergedType ==
  ASSUME NEW d \in Tables, NEW s \in Tables
  PROVE  /\ Merged(d, s) \in Tables
         /\ Merged(d, Empty) = d
         /\ Merged(Empty, s) = s
BY FilesAssumption DEF Merged, Tables, Empty

\* The empty table is a table.
LEMMA EmptyType == Empty \in Tables
BY DEF Empty, Tables

\* No AudioIndex is NULL.
LEMMA NullIsNoTable == Null \notin Tables
BY FilesAssumption DEF Tables

\* What is read from a file is a table, the one in the file if nothing is missed.
LEMMA ReadFacts ==
  ASSUME TypeOK, NEW f \in {"main", "tmp"}, NEW t \in Read(f)
  PROVE  /\ t \in Tables
         /\ t \in {file[f].tbl, Empty}
         /\ Missed(f, t) \subseteq {f}
         /\ Missed(f, t) = {} /\ file[f].state = "whole" => t = file[f].tbl
BY EmptyType DEF Read, Missed, TypeOK

\* A hash is added once: the type of the table, and what the others see.
LEMMA AddFacts ==
  ASSUME NEW t \in Tables, NEW k \in Keys, NEW i \in Ids
  PROVE  /\ Add(t, k, i) \in Tables
         /\ Parts(Add(t, k, i)) \subseteq Tables
<1>1. Add(t, k, i) \in Tables
  BY DEF Add, Tables
<1> QED BY <1>1 DEF Parts, Tables

\* What the beginning of a write does to the files ...
LEMMA TruncateFacts ==
  ASSUME TypeOK, NEW f \in {"main", "tmp"}, NEW t \in Tables, Truncate(f, t)
  PROVE  /\ file' \in [{"main", "tmp"} -> [state : {"missing", "whole", "torn"}, tbl : Tables]]
         /\ file'[f] = Torn(t)
         /\ \A g \in {"main", "tmp"} : g # f => file'[g] = file[g]
BY DEF TypeOK, Truncate, Torn

\* ... and what the end of one does.
LEMMA FillFacts ==
  ASSUME TypeOK, NEW f \in {"main", "tmp"}, Fill(f)
  PROVE  /\ file' \in [{"main", "tmp"} -> [state : {"missing", "whole", "torn"}, tbl : Tables]]
         /\ file'[f] = Whole(file[f].tbl)
         /\ \A g \in {"main", "tmp"} : g # f => file'[g] = file[g]
<1>1. file[f].tbl \in Tables
  BY DEF TypeOK
<1>2. Whole(file[f].tbl) \in [state : {"missing", "whole", "torn"}, tbl : Tables]
  BY <1>1 DEF Whole
<1> QED BY <1>1, <1>2 DEF TypeOK, Fill

\* A step keeps the types.
LEMMA TypeStep ==
  ASSUME TypeOK, [Next]_vars
  PROVE  TypeOK'
<1> USE DEF TypeOK, Harms, Pcs, WritingPcs, UnpluggedPcs, vars, memory, Goto, WriteFails
<1>1. CASE Start
  BY <1>1, FilesAssumption, EmptyType, NullIsNoTable DEF Start
<1>2. CASE BeginMerge
  <2>1. PICK s \in Read("tmp"), d \in Read("main") :
          /\ \/ pc' = "clear" /\ dst' = Merged(d, s)
             \/ pc' = "open" /\ dst' = dst
          /\ \/ harm' = harm \cup Missed("tmp", s) \cup Missed("main", d)
             \/ harm' = harm \cup Missed("tmp", s)
    BY <1>2 DEF BeginMerge
  <2>2. /\ s \in Tables /\ d \in Tables
        /\ Missed("tmp", s) \subseteq Harms /\ Missed("main", d) \subseteq Harms
    BY <2>1, ReadFacts DEF Harms
  <2>3. /\ dst' \in Tables \cup {Null}
        /\ harm' \in SUBSET Harms
    <3>1. dst' \in Tables \cup {Null}
      BY <2>1, <2>2, MergedType
    <3>2. harm \subseteq Harms
      OBVIOUS
    <3>3. harm' \subseteq Harms
      BY <2>1, <2>2, <3>2
    <3> QED BY <3>1, <3>3
  <2>4. pc' = "clear" => dst' # Null
    BY <2>1, <2>2, MergedType, NullIsNoTable
  <2> QED BY <1>2, <2>1, <2>3, <2>4 DEF BeginMerge
<1>3. CASE ClearBegins
  <2>1. CASE Truncate("tmp", Empty)
    <3>1. Empty \in Tables
      BY <1>3, EmptyType DEF ClearBegins
    <3> QED BY <1>3, <2>1, <3>1, TruncateFacts, FilesAssumption, EmptyType, NullIsNoTable
           DEF ClearBegins
  <2>2. CASE UNCHANGED file
    BY <1>3, <2>2, FilesAssumption, EmptyType, NullIsNoTable DEF ClearBegins
  <2> QED BY <1>3, <2>1, <2>2 DEF ClearBegins
<1>4. CASE ClearEnds
  <2>1. CASE Fill("tmp")
    BY <1>4, <2>1, FillFacts, FilesAssumption, EmptyType, NullIsNoTable DEF ClearEnds
  <2>2. CASE UNCHANGED file
    BY <1>4, <2>2, FilesAssumption, EmptyType, NullIsNoTable DEF ClearEnds
  <2> QED BY <1>4, <2>1, <2>2 DEF ClearEnds
<1>5. CASE SaveBegins
  <2>1. CASE Truncate("main", dst)
    <3>1. dst \in Tables
      BY <1>5, EmptyType DEF SaveBegins
    <3> QED BY <1>5, <2>1, <3>1, TruncateFacts, FilesAssumption, EmptyType, NullIsNoTable
           DEF SaveBegins
  <2>2. CASE UNCHANGED file
    BY <1>5, <2>2, FilesAssumption, EmptyType, NullIsNoTable DEF SaveBegins
  <2> QED BY <1>5, <2>1, <2>2 DEF SaveBegins
<1>6. CASE SaveEnds
  <2>1. CASE Fill("main")
    BY <1>6, <2>1, FillFacts, FilesAssumption, EmptyType, NullIsNoTable DEF SaveEnds
  <2>2. CASE UNCHANGED file
    BY <1>6, <2>2, FilesAssumption, EmptyType, NullIsNoTable DEF SaveEnds
  <2> QED BY <1>6, <2>1, <2>2 DEF SaveEnds
<1>7. CASE OpenMain
  BY <1>7, FilesAssumption, EmptyType, NullIsNoTable DEF OpenMain, MapMain
<1>8. CASE CreateBegins
  <2>1. CASE Truncate("main", Empty)
    <3>1. Empty \in Tables
      BY <1>8, EmptyType DEF CreateBegins
    <3> QED BY <1>8, <2>1, <3>1, TruncateFacts, FilesAssumption, EmptyType, NullIsNoTable
           DEF CreateBegins
  <2>2. CASE UNCHANGED file
    BY <1>8, <2>2, FilesAssumption, EmptyType, NullIsNoTable DEF CreateBegins
  <2> QED BY <1>8, <2>1, <2>2 DEF CreateBegins
<1>9. CASE CreateEnds
  <2>1. CASE Fill("main")
    BY <1>9, <2>1, FillFacts, FilesAssumption, EmptyType, NullIsNoTable DEF CreateEnds
  <2>2. CASE UNCHANGED file
    BY <1>9, <2>2, FilesAssumption, EmptyType, NullIsNoTable DEF CreateEnds
  <2> QED BY <1>9, <2>1, <2>2 DEF CreateEnds
<1>10. CASE MapCreated
  <2>1. CASE MapMain("mapping")
    <3>1. main' \in Tables /\ pc' = "opentmp" /\ UNCHANGED <<file, harm>>
      BY <2>1 DEF MapMain
    <3> QED BY <1>10, <3>1, NullIsNoTable DEF MapCreated
  <2>2. CASE pc' \in {"down", "broken"} /\ UNCHANGED <<file, main, harm>>
    BY <1>10, <2>2 DEF MapCreated
  <2> QED BY <1>10, <2>1, <2>2 DEF MapCreated
<1>11. CASE OpenTmp
  <2>1. tmp' \in Tables /\ main \in Tables
    BY <1>11, ReadFacts DEF OpenTmp
  <2>2. first' \in Tables /\ harm' = {}
    BY <1>11, <2>1, MergedType DEF OpenTmp
  <2> QED BY <1>11, <2>1, <2>2, NullIsNoTable DEF OpenTmp
<1>12. ASSUME NEW k \in Keys, NEW i \in Ids, Insert(k, i) PROVE TypeOK'
  <2>1. tmp \in Tables
    BY <1>12 DEF Insert
  <2>2. tmp' \in Tables /\ first' \in Tables
    BY <1>12, <2>1, AddFacts DEF Insert, Tables
  <2>3. inserts' \in 0 .. MaxInserts
    BY <1>12, FilesAssumption DEF Insert
  <2> QED BY <1>12, <2>2, <2>3, NullIsNoTable DEF Insert
<1>13. ASSUME NEW k \in Keys, NEW i \in Ids, InsertUnplugged(k, i) PROVE TypeOK'
  <2>1. tmp \in Tables
    BY <1>13 DEF InsertUnplugged
  <2>2. tmp' \in Tables /\ first' \in Tables
    BY <1>13, <2>1, AddFacts DEF InsertUnplugged, Tables
  <2>3. inserts' \in 0 .. MaxInserts
    BY <1>13, FilesAssumption DEF InsertUnplugged
  <2>4. CASE UNCHANGED <<file, pc>>
    BY <1>13, <2>2, <2>3, <2>4, NullIsNoTable DEF InsertUnplugged
  <2>5. CASE pc' = "raced" /\ \E t \in Parts(tmp') : Truncate("tmp", t)
    <3>1. PICK t \in Tables : Truncate("tmp", t)
      BY <1>13, <2>1, <2>5, AddFacts DEF InsertUnplugged
    <3> QED BY <1>13, <2>2, <2>3, <2>5, <3>1, TruncateFacts, NullIsNoTable DEF InsertUnplugged
  <2> QED BY <1>13, <2>4, <2>5 DEF InsertUnplugged
<1>14. CASE CloseMain
  BY <1>14, FilesAssumption, EmptyType, NullIsNoTable DEF CloseMain
<1>15. CASE FlushBegins
  <2>1. CASE Truncate("tmp", tmp)
    <3>1. tmp \in Tables
      BY <1>15, EmptyType DEF FlushBegins
    <3> QED BY <1>15, <2>1, <3>1, TruncateFacts, FilesAssumption, EmptyType, NullIsNoTable
           DEF FlushBegins
  <2>2. CASE UNCHANGED file
    BY <1>15, <2>2, FilesAssumption, EmptyType, NullIsNoTable DEF FlushBegins
  <2> QED BY <1>15, <2>1, <2>2 DEF FlushBegins
<1>16. CASE FlushEnds
  <2>1. CASE Fill("tmp")
    BY <1>16, <2>1, FillFacts, FilesAssumption, EmptyType, NullIsNoTable DEF FlushEnds
  <2>2. CASE UNCHANGED file
    BY <1>16, <2>2, FilesAssumption, EmptyType, NullIsNoTable DEF FlushEnds
  <2> QED BY <1>16, <2>1, <2>2 DEF FlushEnds
<1>17. CASE CloseTmp
  BY <1>17, FilesAssumption, EmptyType, NullIsNoTable DEF CloseTmp
<1>18. CASE Leave
  BY <1>18, FilesAssumption, EmptyType, NullIsNoTable DEF Leave
<1>19. CASE Crash
  <2>1. file["main"].tbl \in Tables /\ file["tmp"].tbl \in Tables
    OBVIOUS
  <2>2. first' \in Tables /\ harm' \in SUBSET Harms
    <3>1. CASE InTheWindow
      BY <1>19, <3>1 DEF Crash
    <3>2. CASE ~InTheWindow
      <4>1. UNCHANGED harm /\ first' = Merged(file["main"].tbl, file["tmp"].tbl)
        BY <1>19, <3>2 DEF Crash
      <4> QED BY <4>1, <2>1, MergedType
    <3> QED BY <3>1, <3>2
  <2>3. /\ pc' = "down" /\ main' = Null /\ tmp' = Null /\ dst' = Null
        /\ UNCHANGED <<file, fresh, starts, inserts>>
    BY <1>19 DEF Crash
  <2> QED BY <2>2, <2>3
<1>20. CASE UNCHANGED vars
  BY <1>20
<1> QED
  BY <1>1, <1>2, <1>3, <1>4, <1>5, <1>6, <1>7, <1>8, <1>9, <1>10,
     <1>11, <1>12, <1>13, <1>14, <1>15, <1>16, <1>17, <1>18, <1>19, <1>20 DEF Next, Opening

\* A step keeps what lookups see equal to the file.
LEMMA MappedStep ==
  ASSUME TypeOK, Mapped, [Next]_vars
  PROVE  Mapped'
<1> USE DEF TypeOK, Mapped, ServedIsDurable, Pcs, WritingPcs, UnpluggedPcs, vars, memory,
            Goto, WriteFails
<1>1. CASE Start
  BY <1>1, NullIsNoTable DEF Start
<1>2. CASE BeginMerge
  BY <1>2, NullIsNoTable DEF BeginMerge
<1>3. CASE ClearBegins
  <2>1. CASE Truncate("tmp", Empty)
    <3>1. Empty \in Tables
      BY <1>3, EmptyType DEF ClearBegins
    <3> QED BY <1>3, <2>1, <3>1, TruncateFacts, NullIsNoTable DEF ClearBegins
  <2>2. CASE UNCHANGED file
    BY <1>3, <2>2, NullIsNoTable DEF ClearBegins
  <2> QED BY <1>3, <2>1, <2>2 DEF ClearBegins
<1>4. CASE ClearEnds
  <2>1. CASE Fill("tmp")
    BY <1>4, <2>1, FillFacts, NullIsNoTable DEF ClearEnds
  <2>2. CASE UNCHANGED file
    BY <1>4, <2>2, NullIsNoTable DEF ClearEnds
  <2> QED BY <1>4, <2>1, <2>2 DEF ClearEnds
<1>5. CASE SaveBegins
  <2>1. CASE Truncate("main", dst)
    <3>1. dst \in Tables
      BY <1>5, EmptyType DEF SaveBegins
    <3> QED BY <1>5, <2>1, <3>1, TruncateFacts, NullIsNoTable DEF SaveBegins
  <2>2. CASE UNCHANGED file
    BY <1>5, <2>2, NullIsNoTable DEF SaveBegins
  <2> QED BY <1>5, <2>1, <2>2 DEF SaveBegins
<1>6. CASE SaveEnds
  <2>1. CASE Fill("main")
    BY <1>6, <2>1, FillFacts, NullIsNoTable DEF SaveEnds
  <2>2. CASE UNCHANGED file
    BY <1>6, <2>2, NullIsNoTable DEF SaveEnds
  <2> QED BY <1>6, <2>1, <2>2 DEF SaveEnds
<1>7. CASE OpenMain
  <2>1. file["main"].state = "whole" => file["main"] = Whole(file["main"].tbl)
    BY DEF Whole
  <2> QED BY <1>7, <2>1, NullIsNoTable DEF MapMain, OpenMain
<1>8. CASE CreateBegins
  <2>1. CASE Truncate("main", Empty)
    <3>1. Empty \in Tables
      BY <1>8, EmptyType DEF CreateBegins
    <3> QED BY <1>8, <2>1, <3>1, TruncateFacts, NullIsNoTable DEF CreateBegins
  <2>2. CASE UNCHANGED file
    BY <1>8, <2>2, NullIsNoTable DEF CreateBegins
  <2> QED BY <1>8, <2>1, <2>2 DEF CreateBegins
<1>9. CASE CreateEnds
  <2>1. CASE Fill("main")
    BY <1>9, <2>1, FillFacts, NullIsNoTable DEF CreateEnds
  <2>2. CASE UNCHANGED file
    BY <1>9, <2>2, NullIsNoTable DEF CreateEnds
  <2> QED BY <1>9, <2>1, <2>2 DEF CreateEnds
<1>10. CASE MapCreated
  <2>1. file["main"].state = "whole" => file["main"] = Whole(file["main"].tbl)
    BY DEF Whole
  <2> QED BY <1>10, <2>1, NullIsNoTable DEF MapMain, MapCreated
<1>11. CASE OpenTmp
  BY <1>11, NullIsNoTable DEF OpenTmp
<1>12. ASSUME NEW k \in Keys, NEW i \in Ids, Insert(k, i) PROVE Mapped'
  BY <1>12, NullIsNoTable DEF Insert
<1>13. ASSUME NEW k \in Keys, NEW i \in Ids, InsertUnplugged(k, i) PROVE Mapped'
  <2>1. file'["main"] = file["main"] /\ main' = main /\ pc' \in UnpluggedPcs
    <3>1. CASE UNCHANGED <<file, pc>>
      BY <1>13, <3>1 DEF InsertUnplugged
    <3>2. CASE pc' = "raced" /\ \E t \in Parts(tmp') : Truncate("tmp", t)
      BY <1>13, <3>2 DEF InsertUnplugged, Truncate
    <3> QED BY <1>13, <3>1, <3>2 DEF InsertUnplugged
  <2> QED BY <1>13, <2>1, NullIsNoTable DEF InsertUnplugged
<1>14. CASE CloseMain
  BY <1>14, NullIsNoTable DEF CloseMain
<1>15. CASE FlushBegins
  <2>1. CASE Truncate("tmp", tmp)
    <3>1. tmp \in Tables
      BY <1>15, EmptyType DEF FlushBegins
    <3> QED BY <1>15, <2>1, <3>1, TruncateFacts, NullIsNoTable DEF FlushBegins
  <2>2. CASE UNCHANGED file
    BY <1>15, <2>2, NullIsNoTable DEF FlushBegins
  <2> QED BY <1>15, <2>1, <2>2 DEF FlushBegins
<1>16. CASE FlushEnds
  <2>1. CASE Fill("tmp")
    BY <1>16, <2>1, FillFacts, NullIsNoTable DEF FlushEnds
  <2>2. CASE UNCHANGED file
    BY <1>16, <2>2, NullIsNoTable DEF FlushEnds
  <2> QED BY <1>16, <2>1, <2>2 DEF FlushEnds
<1>17. CASE CloseTmp
  BY <1>17, NullIsNoTable DEF CloseTmp
<1>18. CASE Leave
  BY <1>18, NullIsNoTable DEF Leave
<1>19. CASE Crash
  BY <1>19, NullIsNoTable DEF Crash
<1>20. CASE UNCHANGED vars
  BY <1>20
<1> QED
  BY <1>1, <1>2, <1>3, <1>4, <1>5, <1>6, <1>7, <1>8, <1>9, <1>10,
     <1>11, <1>12, <1>13, <1>14, <1>15, <1>16, <1>17, <1>18, <1>19, <1>20 DEF Next, Opening

\* A step keeps what the merge has read.
LEMMA GrowsStep ==
  ASSUME TypeOK, Grows, [Next]_vars
  PROVE  Grows'
<1> USE DEF TypeOK, Grows, Pcs, WritingPcs, UnpluggedPcs, vars, memory, Goto, WriteFails,
            Truncate, Fill, Torn, Whole
<1>1. CASE Start
  BY <1>1 DEF Start
<1>2. CASE BeginMerge
  <2>1. PICK s \in Read("tmp"), d \in Read("main") :
          \/ /\ pc' = "clear" /\ dst' = Merged(d, s)
             /\ harm' = harm \cup Missed("tmp", s) \cup Missed("main", d)
          \/ pc' = "open"
    BY <1>2 DEF BeginMerge
  <2>2. "main" \in harm' \/ pc' = "open" \/ (file["main"].state = "whole" => d = file["main"].tbl)
    BY <2>1 DEF Missed
  <2>3. UNCHANGED file
    BY <1>2 DEF BeginMerge
  <2> QED BY <2>1, <2>2, <2>3 DEF Merged
<1>3. CASE ClearBegins
  BY <1>3 DEF ClearBegins
<1>4. CASE ClearEnds
  BY <1>4 DEF ClearEnds
<1>5. CASE SaveBegins
  BY <1>5 DEF SaveBegins
<1>6. CASE SaveEnds
  BY <1>6 DEF SaveEnds
<1>7. CASE OpenMain
  BY <1>7 DEF OpenMain, MapMain
<1>8. CASE CreateBegins
  BY <1>8 DEF CreateBegins
<1>9. CASE CreateEnds
  BY <1>9 DEF CreateEnds
<1>10. CASE MapCreated
  BY <1>10 DEF MapCreated, MapMain
<1>11. CASE OpenTmp
  BY <1>11 DEF OpenTmp
<1>12. ASSUME NEW k \in Keys, NEW i \in Ids, Insert(k, i) PROVE Grows'
  BY <1>12 DEF Insert
<1>13. ASSUME NEW k \in Keys, NEW i \in Ids, InsertUnplugged(k, i) PROVE Grows'
  BY <1>13 DEF InsertUnplugged
<1>14. CASE CloseMain
  BY <1>14 DEF CloseMain
<1>15. CASE FlushBegins
  BY <1>15 DEF FlushBegins
<1>16. CASE FlushEnds
  BY <1>16 DEF FlushEnds
<1>17. CASE CloseTmp
  BY <1>17 DEF CloseTmp
<1>18. CASE Leave
  BY <1>18 DEF Leave
<1>19. CASE Crash
  BY <1>19 DEF Crash
<1>20. CASE UNCHANGED vars
  BY <1>20
<1> QED
  BY <1>1, <1>2, <1>3, <1>4, <1>5, <1>6, <1>7, <1>8, <1>9, <1>10,
     <1>11, <1>12, <1>13, <1>14, <1>15, <1>16, <1>17, <1>18, <1>19, <1>20 DEF Next, Opening

\* A step keeps what is missing empty.
LEMMA PresentStep ==
  ASSUME TypeOK, Mapped, Present, [Next]_vars
  PROVE  Present'
<1> USE DEF TypeOK, Mapped, ServedIsDurable, Present, Pcs, WritingPcs, UnpluggedPcs, vars,
            memory, Goto, WriteFails, Truncate, Fill, Torn, Whole
<1>1. CASE Start
  BY <1>1 DEF Start
<1>2. CASE BeginMerge
  <2>1. UNCHANGED file /\ (pc' = "open" \/ file["main"].state # "missing")
    BY <1>2 DEF BeginMerge
  <2> QED BY <2>1
<1>3. CASE ClearBegins
  BY <1>3 DEF ClearBegins
<1>4. CASE ClearEnds
  BY <1>4 DEF ClearEnds
<1>5. CASE SaveBegins
  BY <1>5 DEF SaveBegins
<1>6. CASE SaveEnds
  BY <1>6 DEF SaveEnds
<1>7. CASE OpenMain
  BY <1>7 DEF OpenMain, MapMain
<1>8. CASE CreateBegins
  BY <1>8 DEF CreateBegins
<1>9. CASE CreateEnds
  BY <1>9 DEF CreateEnds
<1>10. CASE MapCreated
  BY <1>10 DEF MapCreated, MapMain
<1>11. CASE OpenTmp
  BY <1>11 DEF OpenTmp
<1>12. ASSUME NEW k \in Keys, NEW i \in Ids, Insert(k, i) PROVE Present'
  BY <1>12 DEF Insert
<1>13. ASSUME NEW k \in Keys, NEW i \in Ids, InsertUnplugged(k, i) PROVE Present'
  BY <1>13 DEF InsertUnplugged
<1>14. CASE CloseMain
  BY <1>14 DEF CloseMain
<1>15. CASE FlushBegins
  BY <1>15 DEF FlushBegins
<1>16. CASE FlushEnds
  BY <1>16 DEF FlushEnds
<1>17. CASE CloseTmp
  BY <1>17 DEF CloseTmp
<1>18. CASE Leave
  BY <1>18 DEF Leave
<1>19. CASE Crash
  BY <1>19 DEF Crash
<1>20. CASE UNCHANGED vars
  BY <1>20
<1> QED
  BY <1>1, <1>2, <1>3, <1>4, <1>5, <1>6, <1>7, <1>8, <1>9, <1>10,
     <1>11, <1>12, <1>13, <1>14, <1>15, <1>16, <1>17, <1>18, <1>19, <1>20 DEF Next, Opening

\* A step keeps the files in order.
LEMMA OrderlyStep ==
  ASSUME TypeOK, Mapped, Present, Orderly, [Next]_vars
  PROVE  Orderly'
<1> USE DEF TypeOK, Mapped, ServedIsDurable, Present, Orderly, Pcs, WritingPcs,
            UnpluggedPcs, vars, memory, Goto, WriteFails, Truncate, Fill, Torn, Whole
<1>1. CASE Start
  BY <1>1 DEF Start
<1>2. CASE BeginMerge
  <2> SUFFICES ASSUME harm' = {} PROVE Orderly'
    BY DEF Orderly
  <2>1. PICK s \in Read("tmp"), d \in Read("main") :
          \/ /\ pc' = "clear" /\ dst' = Merged(d, s) /\ file["main"].state # "missing"
             /\ harm' = harm \cup Missed("tmp", s) \cup Missed("main", d)
          \/ /\ pc' = "open" /\ (s = Empty \/ file["main"].state = "missing")
             /\ harm' = harm \cup Missed("tmp", s)
    BY <1>2 DEF BeginMerge
  <2>2. pc = "init" /\ UNCHANGED <<file, tmp>>
    BY <1>2 DEF BeginMerge
  <2>3. harm = {} /\ Missed("tmp", s) = {}
    BY <2>1
  <2>4. file["main"].state # "torn" /\ file["tmp"].state # "torn"
    BY <2>2, <2>3
  <2>5. s = file["tmp"].tbl
    BY <2>3, <2>4, ReadFacts
  <2>6. CASE pc' = "clear"
    <3>1. /\ dst' = Merged(d, s) /\ file["main"].state # "missing" /\ Missed("main", d) = {}
      BY <2>1, <2>6
    <3>2. d = file["main"].tbl
      BY <2>4, <3>1, ReadFacts
    <3> QED BY <2>2, <2>4, <2>5, <2>6, <3>1, <3>2
  <2>7. CASE pc' = "open" /\ (s = Empty \/ file["main"].state = "missing")
    BY <2>2, <2>4, <2>5, <2>7
  <2> QED BY <2>1, <2>6, <2>7
<1>3. CASE ClearBegins
  BY <1>3 DEF ClearBegins
<1>4. CASE ClearEnds
  BY <1>4 DEF ClearEnds
<1>5. CASE SaveBegins
  BY <1>5 DEF SaveBegins
<1>6. CASE SaveEnds
  BY <1>6 DEF SaveEnds
<1>7. CASE OpenMain
  BY <1>7 DEF OpenMain, MapMain
<1>8. CASE CreateBegins
  BY <1>8 DEF CreateBegins, MainNotMapped
<1>9. CASE CreateEnds
  BY <1>9 DEF CreateEnds
<1>10. CASE MapCreated
  BY <1>10 DEF MapCreated, MapMain
<1>11. CASE OpenTmp
  BY <1>11 DEF OpenTmp
<1>12. ASSUME NEW k \in Keys, NEW i \in Ids, Insert(k, i) PROVE Orderly'
  BY <1>12 DEF Insert
<1>13. ASSUME NEW k \in Keys, NEW i \in Ids, InsertUnplugged(k, i) PROVE Orderly'
  BY <1>13 DEF InsertUnplugged
<1>14. CASE CloseMain
  BY <1>14 DEF CloseMain
<1>15. CASE FlushBegins
  BY <1>15 DEF FlushBegins
<1>16. CASE FlushEnds
  BY <1>16 DEF FlushEnds
<1>17. CASE CloseTmp
  BY <1>17 DEF CloseTmp
<1>18. CASE Leave
  BY <1>18 DEF Leave
<1>19. CASE Crash
  BY <1>19 DEF Crash, InTheWindow
<1>20. CASE UNCHANGED vars
  BY <1>20
<1> QED
  BY <1>1, <1>2, <1>3, <1>4, <1>5, <1>6, <1>7, <1>8, <1>9, <1>10,
     <1>11, <1>12, <1>13, <1>14, <1>15, <1>16, <1>17, <1>18, <1>19, <1>20 DEF Next, Opening

\* A step keeps what is to be kept.
LEMMA KeptStep ==
  ASSUME TypeOK, Mapped, Present, Orderly, Kept, [Next]_vars
  PROVE  Kept'
<1> USE DEF TypeOK, Mapped, ServedIsDurable, Present, Orderly, Kept, View, Pcs, WritingPcs,
            UnpluggedPcs, vars, memory, Goto, WriteFails, Truncate, Fill, Torn, Whole
<1>1. CASE Start
  BY <1>1, MergedType, EmptyType DEF Start
<1>2. CASE BeginMerge
  BY <1>2, MergedType, EmptyType DEF BeginMerge
<1>3. CASE ClearBegins
  BY <1>3, MergedType, EmptyType DEF ClearBegins
<1>4. CASE ClearEnds
  <2>1. CASE harm' # {}
    BY <2>1
  <2>2. CASE harm' = {}
    <3>1. Fill("tmp") /\ harm = {} /\ pc = "clearing" /\ pc' = "save"
      BY <1>4, <2>2 DEF ClearEnds
    <3>2. \A g \in {"main", "tmp"} : file'[g].tbl = file[g].tbl
      BY <3>1, FillFacts
    <3>3. UNCHANGED first /\ View = View'
      BY <1>4, <3>1, <3>2, MergedType DEF ClearEnds
    <3> QED BY <3>1, <3>3
  <2> QED BY <2>1, <2>2
<1>5. CASE SaveBegins
  <2> SUFFICES ASSUME harm' = {} PROVE first' = View'
    OBVIOUS
  <2>1. Truncate("main", dst) /\ dst \in Tables /\ harm = {} /\ UNCHANGED <<first, dst>>
    BY <1>5 DEF SaveBegins
  <2> QED BY <1>5, <2>1 DEF SaveBegins
<1>6. CASE SaveEnds
  <2>1. CASE harm' # {}
    BY <2>1
  <2>2. CASE harm' = {}
    <3>1. Fill("main") /\ harm = {} /\ pc = "saving" /\ pc' = "open"
      BY <1>6, <2>2 DEF SaveEnds
    <3>2. \A g \in {"main", "tmp"} : file'[g].tbl = file[g].tbl
      BY <3>1, FillFacts
    <3>3. UNCHANGED first /\ View = View'
      BY <1>6, <3>1, <3>2, MergedType DEF SaveEnds
    <3> QED BY <3>1, <3>3
  <2> QED BY <2>1, <2>2
<1>7. CASE OpenMain
  BY <1>7 DEF OpenMain, MapMain
<1>8. CASE CreateBegins
  <2> SUFFICES ASSUME harm' = {} PROVE first' = View'
    OBVIOUS
  <2>1. /\ file["main"].state = "missing" /\ Truncate("main", Empty) /\ harm = {}
        /\ pc = "open" /\ pc' = "creating" /\ UNCHANGED first
    BY <1>8 DEF CreateBegins, MainNotMapped
  <2>2. file'["main"].tbl = Empty /\ file'["tmp"] = file["tmp"] /\ file["main"].tbl = Empty
    BY <2>1, EmptyType, TruncateFacts
  <2> QED BY <2>1, <2>2
<1>9. CASE CreateEnds
  <2>1. CASE harm' # {}
    BY <2>1
  <2>2. CASE harm' = {}
    <3>1. Fill("main") /\ harm = {} /\ pc = "creating" /\ pc' = "mapping"
      BY <1>9, <2>2 DEF CreateEnds
    <3>2. \A g \in {"main", "tmp"} : file'[g].tbl = file[g].tbl
      BY <3>1, FillFacts
    <3>3. UNCHANGED first /\ View = View'
      BY <1>9, <3>1, <3>2, MergedType DEF CreateEnds
    <3> QED BY <3>1, <3>3
  <2> QED BY <2>1, <2>2
<1>10. CASE MapCreated
  BY <1>10 DEF MapCreated, MapMain
<1>11. CASE OpenTmp
  <2>1. /\ pc = "opentmp" /\ pc' = "serving" /\ UNCHANGED <<file, main>>
        /\ tmp' \in Read("tmp") /\ file["main"].tbl = main
    BY <1>11 DEF OpenTmp
  <2>2. View' = Merged(main, tmp')
    BY <2>1
  <2>3. CASE harm = {}
    <3>1. first' = first /\ first = Merged(main, file["tmp"].tbl) /\ file["tmp"].tbl = Empty
      BY <1>11, <2>1, <2>3 DEF OpenTmp
    <3>2. tmp' = Empty
      BY <2>1, <3>1, ReadFacts
    <3> QED BY <2>2, <3>1, <3>2
  <2>4. CASE harm # {}
    BY <1>11, <2>2, <2>4 DEF OpenTmp
  <2> QED BY <2>3, <2>4
<1>12. ASSUME NEW k \in Keys, NEW i \in Ids, Insert(k, i) PROVE Kept'
  <2>1. /\ View = Merged(file["main"].tbl, tmp) /\ View' = Merged(file["main"].tbl, tmp')
        /\ UNCHANGED <<file, harm>>
    BY <1>12 DEF Insert
  <2> SUFFICES ASSUME harm = {} PROVE first' = Merged(file["main"].tbl, tmp')
    BY <2>1
  <2>3. tmp \in Tables /\ file["main"].tbl \in Tables
    BY <1>12 DEF Insert
  <2>4. first = Merged(file["main"].tbl, tmp)
    BY <2>1
  <2>5. i # None
    BY FilesAssumption
  <2>6. first[k] = IF file["main"].tbl[k] # None THEN file["main"].tbl[k] ELSE tmp[k]
    BY <2>4 DEF Merged
  <2>7. CASE tmp[k] # None
    <3>1. first[k] # None
      BY <2>6, <2>7
    <3> QED BY <1>12, <2>4, <2>7, <3>1 DEF Insert, Add
  <2>8. CASE tmp[k] = None /\ first[k] # None
    <3>1. tmp' = [tmp EXCEPT ![k] = i] /\ first' = first /\ file["main"].tbl[k] # None
      BY <1>12, <2>6, <2>8 DEF Insert, Add
    <3> QED BY <2>3, <2>4, <3>1 DEF Merged, Tables
  <2>9. CASE tmp[k] = None /\ first[k] = None
    <3>1. /\ tmp' = [tmp EXCEPT ![k] = i] /\ first' = [first EXCEPT ![k] = i]
          /\ file["main"].tbl[k] = None
      BY <1>12, <2>6, <2>9 DEF Insert, Add
    <3> QED BY <2>3, <2>4, <2>5, <3>1 DEF Merged, Tables
  <2> QED BY <2>7, <2>8, <2>9
<1>13. ASSUME NEW k \in Keys, NEW i \in Ids, InsertUnplugged(k, i) PROVE Kept'
  BY <1>13, MergedType, EmptyType DEF InsertUnplugged
<1>14. CASE CloseMain
  BY <1>14, MergedType, EmptyType DEF CloseMain
<1>15. CASE FlushBegins
  <2> SUFFICES ASSUME harm' = {} PROVE first' = View'
    OBVIOUS
  <2>1. /\ Truncate("tmp", tmp) /\ tmp \in Tables /\ harm = {}
        /\ pc \in {"closing", "leaving"} /\ pc' = "flushing" /\ UNCHANGED <<first, tmp>>
    BY <1>15 DEF FlushBegins
  <2>2. file'["main"] = file["main"]
    BY <2>1, TruncateFacts
  <2> QED BY <2>1, <2>2
<1>16. CASE FlushEnds
  <2>1. CASE harm' # {}
    BY <2>1
  <2>2. CASE harm' = {}
    <3>1. Fill("tmp") /\ harm = {} /\ pc = "flushing" /\ pc' = "freeing"
      BY <1>16, <2>2 DEF FlushEnds
    <3>2. \A g \in {"main", "tmp"} : file'[g].tbl = file[g].tbl
      BY <3>1, FillFacts
    <3>3. UNCHANGED first /\ View = View'
      BY <1>16, <3>1, <3>2, MergedType DEF FlushEnds
    <3> QED BY <3>1, <3>3
  <2> QED BY <2>1, <2>2
<1>17. CASE CloseTmp
  BY <1>17, MergedType, EmptyType DEF CloseTmp
<1>18. CASE Leave
  BY <1>18, MergedType, EmptyType DEF Leave
<1>19. CASE Crash
  <2>1. CASE InTheWindow
    BY <1>19, <2>1 DEF Crash
  <2>2. CASE ~InTheWindow
    <3>1. /\ first' = Merged(file["main"].tbl, file["tmp"].tbl)
          /\ pc' = "down" /\ UNCHANGED file
      BY <1>19, <2>2 DEF Crash
    <3> QED BY <3>1
  <2> QED BY <2>1, <2>2
<1>20. CASE UNCHANGED vars
  BY <1>20
<1> QED
  BY <1>1, <1>2, <1>3, <1>4, <1>5, <1>6, <1>7, <1>8, <1>9, <1>10,
     <1>11, <1>12, <1>13, <1>14, <1>15, <1>16, <1>17, <1>18, <1>19, <1>20 DEF Next, Opening

\* The initial states satisfy the invariant.
LEMMA InitIsFine == Init => IInv
BY FilesAssumption, EmptyType, MergedType
   DEF Init, IInv, TypeOK, Mapped, ServedIsDurable, Grows, Present, Orderly, Kept, View,
       Missing, Pcs, WritingPcs, UnpluggedPcs, Harms, Tables, Empty

\* The invariant holds in every reachable state.
THEOREM Invariance == Spec => []IInv
<1>1. IInv /\ [Next]_vars => IInv'
  <2> SUFFICES ASSUME IInv, [Next]_vars PROVE IInv'
    OBVIOUS
  <2>1. TypeOK' BY TypeStep DEF IInv
  <2>2. Mapped' BY MappedStep DEF IInv
  <2>3. Grows' BY GrowsStep DEF IInv
  <2>4. Present' BY PresentStep DEF IInv
  <2>5. Orderly' BY OrderlyStep DEF IInv
  <2>6. Kept' BY KeptStep DEF IInv
  <2> QED BY <2>1, <2>2, <2>3, <2>4, <2>5, <2>6 DEF IInv
<1> QED BY InitIsFine, <1>1, PTL DEF Spec

\* Every variable keeps its range, whatever fails.
THEOREM TypeCorrect == Spec => []TypeOK
<1>1. IInv => TypeOK BY DEF IInv
<1> QED BY <1>1, Invariance, PTL

\* Whatever fails, what lookups see is what the file of the index holds: a crash
\* of a serving table server costs nothing that was ever found.
THEOREM DurableCorrect == Spec => []ServedIsDurable
<1>1. IInv => ServedIsDurable BY DEF IInv, Mapped
<1> QED BY <1>1, Invariance, PTL

\* From one opening to the next, no hash is forgotten and no first id is lost by
\* signals, restarts, merges and crashes outside of the writing of the files, until
\* a write is cut short, an insertion meets the flush or a whole file is misread.
THEOREM NothingForgottenEver == Spec => []NothingForgotten
<1>1. IInv => NothingForgotten
  <2> SUFFICES ASSUME IInv, harm = {}, NEW k \in Keys, first[k] # None
               PROVE  \E t \in Places : t[k] = first[k]
    BY DEF NothingForgotten
  <2>1. first = View /\ TypeOK
    BY DEF IInv, Kept
  <2>2. CASE pc \in {"clearing", "save", "saving"}
    <3>1. View = dst /\ dst # Null
      BY <2>1, <2>2 DEF View, TypeOK, UnpluggedPcs
    <3> QED BY <2>1, <3>1 DEF Places
  <2>3. CASE pc \in {"serving", "closing", "leaving"} \cup UnpluggedPcs
    <3>1. View = Merged(file["main"].tbl, tmp) /\ tmp # Null
      BY <2>1, <2>3 DEF View, TypeOK, UnpluggedPcs
    <3>2. View[k] = file["main"].tbl[k] \/ View[k] = tmp[k]
      BY <3>1 DEF Merged
    <3> QED BY <2>1, <3>1, <3>2 DEF Places
  <2>4. CASE /\ pc \notin {"clearing", "save", "saving"}
             /\ pc \notin {"serving", "closing", "leaving"} \cup UnpluggedPcs
    <3>1. View = Merged(file["main"].tbl, file["tmp"].tbl)
      BY <2>4 DEF View
    <3>2. View[k] = file["main"].tbl[k] \/ View[k] = file["tmp"].tbl[k]
      BY <3>1 DEF Merged
    <3> QED BY <2>1, <3>2 DEF Places
  <2> QED BY <2>2, <2>3, <2>4
<1> QED BY <1>1, Invariance, PTL

\* Without harm since the indexes were last open, lookups answer with the first id a
\* hash was inserted with, or one that an opening after a harm found.
THEOREM FirstIdAlwaysWins == Spec => []FirstIdWins
<1>1. IInv => FirstIdWins
  <2> SUFFICES ASSUME IInv, harm = {}, main # Null, NEW k \in Keys, main[k] # None
               PROVE  main[k] = first[k]
    BY DEF FirstIdWins
  <2>1. /\ first = View
        /\ file["main"].tbl = main
        /\ pc \in {"opentmp", "serving"}
    BY DEF IInv, Kept, Mapped, ServedIsDurable, Whole
  <2>2. View = Merged(main, tmp) \/ View = Merged(main, file["tmp"].tbl)
    BY <2>1 DEF View, UnpluggedPcs
  <2> QED BY <2>1, <2>2 DEF Merged
<1> QED BY <1>1, Invariance, PTL

\* No entry of a whole main file is lost or replaced, whatever the crashes, the failed
\* writes and the insertions into the flush, unless the server could not read or map
\* that file.
THEOREM MainGrowsOnly == Spec => MainOnlyGrows
<1>1. IInv /\ [Next]_vars =>
        [\A k \in Keys :
           "main" \notin harm' /\ file["main"].state = "whole" /\ file["main"].tbl[k] # None
             => file'["main"].tbl[k] = file["main"].tbl[k]]_vars
  <2> SUFFICES ASSUME IInv, Next, NEW k \in Keys, "main" \notin harm',
                      file["main"].state = "whole", file["main"].tbl[k] # None
               PROVE  file'["main"].tbl[k] = file["main"].tbl[k]
    BY DEF vars
  <2> USE DEF IInv, memory, WriteFails
  <2>1. CASE ClearBegins \/ FlushBegins
    BY <2>1 DEF ClearBegins, FlushBegins, Truncate, TypeOK
  <2>2. CASE ClearEnds \/ FlushEnds
    BY <2>2 DEF ClearEnds, FlushEnds, Fill, TypeOK
  <2>3. CASE SaveBegins
    <3>1. CASE UNCHANGED file
      BY <3>1
    <3>2. CASE pc = "save" /\ Truncate("main", dst) /\ UNCHANGED harm
      <4>1. dst \in Tables /\ dst[k] = file["main"].tbl[k]
        BY <3>2 DEF TypeOK, Grows
      <4>2. file'["main"] = Torn(dst)
        BY <3>2, <4>1, TruncateFacts
      <4> QED BY <4>1, <4>2 DEF Torn
    <3> QED BY <2>3, <3>1, <3>2 DEF SaveBegins, Goto
  <2>4. CASE SaveEnds \/ CreateEnds
    <3>1. Fill("main") \/ UNCHANGED file
      BY <2>4 DEF SaveEnds, CreateEnds
    <3> QED BY <3>1, FillFacts DEF Whole
  <2>5. CASE CreateBegins
    BY <2>5 DEF CreateBegins
  <2>6. CASE Start \/ BeginMerge \/ OpenMain \/ OpenTmp \/ CloseMain \/ CloseTmp \/ Leave \/ Crash
    BY <2>6 DEF Start, BeginMerge, OpenMain, MapMain, OpenTmp, CloseMain, CloseTmp, Leave, Crash
  <2>7. CASE MapCreated
    BY <2>7 DEF MapCreated, MapMain
  <2>8. ASSUME NEW q \in Keys, NEW i \in Ids, Insert(q, i) \/ InsertUnplugged(q, i)
        PROVE  file'["main"].tbl[k] = file["main"].tbl[k]
    BY <2>8 DEF Insert, InsertUnplugged, Truncate, TypeOK
  <2> QED BY <2>1, <2>2, <2>3, <2>4, <2>5, <2>6, <2>7, <2>8 DEF Next, Opening
<1> QED BY <1>1, Invariance, PTL DEF Spec, MainOnlyGrows

\* After an opening everything is found that was inserted since the last one, if
\* nothing went wrong in between.
THEOREM OpeningFinds == Spec => OpeningMakesFindable
<1>1. IInv /\ [Next]_vars =>
        [pc # "serving" /\ pc' = "serving" /\ harm = {}
           => \A k \in Keys : first[k] # None => main[k] = first[k]]_vars
  <2> SUFFICES ASSUME IInv, Next, pc # "serving", pc' = "serving", harm = {}
               PROVE  main = first
    BY DEF vars
  <2>1. pc = "opentmp"
    BY DEF IInv, Next, Opening, Start, BeginMerge, ClearBegins, ClearEnds, SaveBegins, SaveEnds,
           OpenMain, MapMain, CreateBegins, CreateEnds, MapCreated, OpenTmp, Insert,
           InsertUnplugged, CloseMain, FlushBegins, FlushEnds, CloseTmp, Leave, Crash, Goto,
           WriteFails
  <2>2. file["tmp"].tbl = Empty /\ file["main"].tbl = main /\ main \in Tables
    BY <2>1 DEF IInv, Orderly, Mapped, ServedIsDurable, Whole, TypeOK
  <2>3. first = Merged(main, Empty)
    BY <2>1, <2>2 DEF IInv, Kept, View, UnpluggedPcs
  <2> QED BY <2>2, <2>3, MergedType
<1> QED BY <1>1, Invariance, PTL DEF Spec, OpeningMakesFindable
=============================================================================
