----------------------------- MODULE IndexFiles -----------------------------
(***************************************************************************)
(* The two files of one table server's index (audioscout): what is in them *)
(* and in memory while the server starts, takes submissions, is signalled  *)
(* and dies (servers/table_server.c init_index, kill_index; phash_audio.c  *)
(* open_audioindex, merge_audioindex, insert_into_audioindex,              *)
(* flush_audioindex; table.c table_read, table_write, table_mmap).         *)
(*                                                                         *)
(* New hashes go to a table in memory.  A signal writes that table to the  *)
(* temporary file, and the next opening merges the temporary file into the *)
(* main one: only then are they found.  Who may touch an index when is     *)
(* module IndexGate.                                                       *)
(***************************************************************************)
EXTENDS Integers

CONSTANTS
  Keys,       \* hash values of frames
  Ids,        \* ids the metadata server gave
  None,       \* no entry under a key
  Null,       \* no table: a NULL AudioIndex
  Faults,     \* "crash" of the process, "disk": a write fails, "open": a file
              \* that is there cannot be opened, read or mapped
  MaxStarts,  \* bound: openings of the index, by main() or by a signal
  MaxInserts  \* bound: insertions

ASSUME FilesAssumption ==
  /\ None \notin Ids
  /\ Null \notin [Keys -> Ids \cup {None}]
  /\ Faults \subseteq {"crash", "disk", "open"}
  /\ MaxStarts \in Nat /\ MaxInserts \in Nat

VARIABLES
  file,      \* the .idx and the .tmp file
  main,      \* audioindex: the table that is mapped, or Null
  tmp,       \* audioindex_tmp, or Null
  dst,       \* dsttbl of a merge that is being written
  pc,        \* where the server is
  fresh,     \* main(), not the handler of a SIGUSR, calls init_index next or now
  first,     \* history: the id first inserted under a key, of those to keep
  harm,      \* history: what went wrong since the indexes were last open
  starts, inserts

memory == <<main, tmp, dst>>
vars   == <<file, memory, pc, fresh, first, harm, starts, inserts>>

Tables == [Keys -> Ids \cup {None}]
Empty  == [k \in Keys |-> None]

\* A torn file was not written to its end, or was written while the table changed.
Missing  == [state |-> "missing", tbl |-> Empty]
Whole(t) == [state |-> "whole", tbl |-> t]
Torn(t)  == [state |-> "torn", tbl |-> t]

\* "write": a write failed or was cut short; "race": an insertion met the flush;
\* "main", "tmp": that file was whole and was taken for an empty one.
Harms == {"write", "race", "main", "tmp"}

\* What open_audioindex makes of a file: what table_read finds (table.c:3258-3410),
\* or the empty table it allocates when that fails.  A prefix that only lacks the
\* last, empty byte still reads.
Read(f) ==
  IF file[f].state = "whole" /\ "open" \notin Faults
  THEN {file[f].tbl} ELSE {file[f].tbl, Empty}

Missed(f, t) == IF file[f].state = "whole" /\ t # file[f].tbl THEN {f} ELSE {}

\* Places where the server waits for table_write to end.
WritingPcs == {"clearing", "saving", "creating", "flushing", "raced"}
\* kill_index is inside the gate of the temporary index, which it has not yet NULLed.
UnpluggedPcs == {"flushing", "raced", "freeing"}
Pcs == {"down", "init", "clear", "save", "open", "mapping", "opentmp", "serving", "closing",
        "leaving", "broken"} \cup WritingPcs \cup UnpluggedPcs

Goto(from, to) == pc = from /\ pc' = to

\* table_write opens the file with O_TRUNC (table.c:3446-3460), then fills it.
Truncate(f, t) == file' = [file EXCEPT ![f] = Torn(t)]
Fill(f) == file' = [file EXCEPT ![f] = Whole(@.tbl)]

\* "disk": table_write returns an error, which nobody looks at.  It could not open
\* the file and left it as it was, or could not fill it.
WriteFails(from, to) ==
  /\ "disk" \in Faults
  /\ Goto(from, to) /\ harm' = harm \cup {"write"}
  /\ UNCHANGED file

-----------------------------------------------------------------------------
(* init_index: merge_audioindex, then the two openings.                    *)

Start ==
  /\ Goto("down", "init") /\ starts < MaxStarts
  /\ starts' = starts + 1 /\ fresh' = TRUE
  /\ UNCHANGED <<file, memory, first, harm, inserts>>

MergedOverwrites(d, s) == [k \in Keys |-> IF s[k] # None THEN s[k] ELSE d[k]]

\* table_insert_kd without overwriting, for every entry of the source.
Merged(d, s) == [k \in Keys |-> IF d[k] # None THEN d[k] ELSE s[k]]

BeginMergeOnlyAtStart ==
  /\ pc = "init"
  /\ \E s \in Read("tmp"), d \in Read("main") :
       IF file["main"].state # "missing" /\ s # Empty /\ fresh
       THEN /\ pc' = "clear" /\ dst' = Merged(d, s)
            /\ harm' = harm \cup Missed("tmp", s) \cup Missed("main", d)
       ELSE /\ pc' = "open" /\ UNCHANGED dst
            /\ harm' = harm \cup Missed("tmp", s)
  /\ UNCHANGED <<file, main, tmp, fresh, first, starts, inserts>>

\* Both files are there and the temporary one has entries: they are merged in
\* memory.
BeginMerge ==
  /\ pc = "init"
  /\ \E s \in Read("tmp"), d \in Read("main") :
       IF file["main"].state # "missing" /\ s # Empty
       THEN /\ pc' = "clear" /\ dst' = Merged(d, s)
            /\ harm' = harm \cup Missed("tmp", s) \cup Missed("main", d)
       ELSE /\ pc' = "open" /\ UNCHANGED dst
            /\ harm' = harm \cup Missed("tmp", s)
  /\ UNCHANGED <<file, main, tmp, fresh, first, starts, inserts>>

\* The source is written first, empty ...
ClearBegins ==
  /\ \/ Goto("clear", "clearing") /\ Truncate("tmp", Empty) /\ UNCHANGED harm
     \/ WriteFails("clear", "save")
  /\ UNCHANGED <<memory, fresh, first, starts, inserts>>

ClearEnds ==
  /\ \/ Goto("clearing", "save") /\ Fill("tmp") /\ UNCHANGED harm
     \/ WriteFails("clearing", "save")
  /\ UNCHANGED <<memory, fresh, first, starts, inserts>>

\* ... then the destination.
SaveBegins ==
  /\ \/ Goto("save", "saving") /\ Truncate("main", dst) /\ UNCHANGED <<dst, harm>>
     \/ WriteFails("save", "open") /\ dst' = Null
  /\ UNCHANGED <<main, tmp, fresh, first, starts, inserts>>

SaveEnds ==
  /\ \/ Goto("saving", "open") /\ Fill("main") /\ UNCHANGED harm
     \/ WriteFails("saving", "open")
  /\ dst' = Null
  /\ UNCHANGED <<main, tmp, fresh, first, starts, inserts>>

\* table_mmap takes only a file that has the size it was written with.
MapMain(from) ==
  /\ Goto(from, "opentmp") /\ file["main"].state = "whole"
  /\ main' = file["main"].tbl
  /\ UNCHANGED <<file, harm>>

MainNotMapped == file["main"].state # "whole" \/ "open" \in Faults

OpenMain ==
  /\ MapMain("open")
  /\ UNCHANGED <<tmp, dst, fresh, first, starts, inserts>>

CreateInMemory ==
  /\ Goto("open", "opentmp") /\ MainNotMapped
  /\ main' = Empty
  /\ UNCHANGED <<file, tmp, dst, fresh, first, harm, starts, inserts>>

\* Whatever the reason that it could not be mapped, an empty table is written over
\* it ...
CreateBegins ==
  /\ MainNotMapped
  /\ \/ Goto("open", "creating") /\ Truncate("main", Empty)
        /\ harm' = harm \cup (IF file["main"].state = "whole" THEN {"main"} ELSE {})
     \/ WriteFails("open", "mapping")
  /\ UNCHANGED <<memory, fresh, first, starts, inserts>>

CreateEnds ==
  /\ \/ Goto("creating", "mapping") /\ Fill("main") /\ UNCHANGED harm
     \/ WriteFails("creating", "mapping")
  /\ UNCHANGED <<memory, fresh, first, starts, inserts>>

\* ... and mapped.  If that fails too, main() exits and a handler is left with
\* both indexes down.
MapCreated ==
  /\ \/ MapMain("mapping")
     \/ /\ Goto("mapping", IF fresh THEN "down" ELSE "broken") /\ MainNotMapped
        /\ UNCHANGED <<file, main, harm>>
  /\ UNCHANGED <<tmp, dst, fresh, first, starts, inserts>>

OpenTmpOnlyReads ==
  /\ Goto("opentmp", "serving")
  /\ tmp' = IF file["tmp"].state = "whole" THEN file["tmp"].tbl ELSE Null
  /\ first' = (IF harm = {} THEN first ELSE Merged(main, Empty)) /\ harm' = {}
  /\ UNCHANGED <<file, main, dst, fresh, starts, inserts>>

\* A temporary file that cannot be read becomes an empty table.  If anything went
\* wrong before, what is to be kept from here on is what was found.
OpenTmp ==
  /\ Goto("opentmp", "serving")
  /\ tmp' \in Read("tmp")
  /\ first' = (IF harm = {} THEN first ELSE Merged(main, tmp')) /\ harm' = {}
  /\ UNCHANGED <<file, main, dst, fresh, starts, inserts>>

-----------------------------------------------------------------------------
(* Submissions, kill_index, exit.                                          *)

AddOverwrites(t, k, i) == [t EXCEPT ![k] = i]

\* insert_into_audioindex with ovrwrt 0.
Add(t, k, i) == IF t[k] = None THEN [t EXCEPT ![k] = i] ELSE t

\* An insertion before kill_index is inside the gate of the temporary index, also
\* while it closes the main one.
Insert(k, i) ==
  /\ pc \in {"serving", "closing", "leaving"} /\ inserts < MaxInserts
  /\ inserts' = inserts + 1
  /\ tmp' = Add(tmp, k, i)
  /\ first' = IF first[k] = None THEN [first EXCEPT ![k] = i] ELSE first
  /\ UNCHANGED <<file, main, dst, pc, fresh, harm, starts>>

\* What a file may hold of a table that changed under table_write: a new entry is
\* written, or comes too late, or shifts the entries behind it away from the offsets
\* that were computed before, so that readers miss some of them.
Parts(t) == {[k \in Keys |-> IF k \in S THEN t[k] ELSE None] : S \in SUBSET Keys}

\* The workers' bound at the gate is nbthreads + 1, so one also passes while
\* kill_index is inside: it inserts into the table that is being written, or freed.
InsertUnplugged(k, i) ==
  /\ pc \in UnpluggedPcs /\ tmp[k] = None /\ inserts < MaxInserts
  /\ inserts' = inserts + 1
  /\ tmp' = Add(tmp, k, i)
  /\ first' = IF first[k] = None THEN [first EXCEPT ![k] = i] ELSE first
  /\ harm' = harm \cup {"race"}
  /\ IF pc = "freeing"
     THEN UNCHANGED <<file, pc>>
     ELSE pc' = "raced" /\ \E t \in Parts(tmp') : Truncate("tmp", t)
  /\ UNCHANGED <<main, dst, fresh, starts>>

\* A signal: the main index is closed.  SIGUSR will open it again.
CloseMain ==
  /\ \/ Goto("serving", "closing") /\ starts < MaxStarts /\ starts' = starts + 1
     \/ Goto("serving", "leaving") /\ UNCHANGED starts
  /\ main' = Null /\ fresh' = (pc' = "leaving")
  /\ UNCHANGED <<file, tmp, dst, first, harm, inserts>>

FlushForgotten ==
  /\ \E p \in {"closing", "leaving"} : Goto(p, "flushing")
  /\ Truncate("tmp", Empty)
  /\ UNCHANGED <<memory, fresh, first, harm, starts, inserts>>

FlushBegins ==
  /\ \E p \in {"closing", "leaving"} :
       \/ Goto(p, "flushing") /\ Truncate("tmp", tmp) /\ UNCHANGED harm
       \/ WriteFails(p, "freeing")
  /\ UNCHANGED <<memory, fresh, first, starts, inserts>>

\* A flush that an insertion met leaves a file that reads, or does not, or not
\* always alike: the number of entries in its header may be behind.
FlushEnds ==
  /\ \/ Goto("flushing", "freeing") /\ Fill("tmp") /\ UNCHANGED harm
     \/ Goto("raced", "freeing") /\ (Fill("tmp") \/ UNCHANGED file) /\ UNCHANGED harm
     \/ \E p \in {"flushing", "raced"} : WriteFails(p, "freeing")
  /\ UNCHANGED <<memory, fresh, first, starts, inserts>>

\* table_free.  The error of the flush is overwritten by its result.
CloseTmp ==
  /\ Goto("freeing", IF fresh THEN "down" ELSE "init")
  /\ tmp' = Null
  /\ UNCHANGED <<file, main, dst, fresh, first, harm, starts, inserts>>

\* A handler finds the index NULL and gives up; SIGTERM exits all the same.
Leave ==
  /\ Goto("broken", "down")
  /\ UNCHANGED <<file, memory, fresh, first, harm, starts, inserts>>

\* A file is torn, or the entries of a merge are in neither file: the source was
\* cleared, the destination was not written.
InTheWindow == pc = "save" \/ \E f \in {"main", "tmp"} : file[f].state = "torn"

\* The process dies.  Outside of the window this only costs what was not yet
\* in a file, and nobody counts on it any more.
Crash ==
  /\ "crash" \in Faults /\ pc # "down"
  /\ pc' = "down"
  /\ main' = Null /\ tmp' = Null /\ dst' = Null
  /\ IF InTheWindow
     THEN harm' = harm \cup {"write"} /\ UNCHANGED first
     ELSE UNCHANGED harm /\ first' = Merged(file["main"].tbl, file["tmp"].tbl)
  /\ UNCHANGED <<file, fresh, starts, inserts>>

-----------------------------------------------------------------------------
Init ==
  /\ file = [f \in {"main", "tmp"} |-> Missing]
  /\ main = Null /\ tmp = Null /\ dst = Null
  /\ pc = "down" /\ fresh = TRUE
  /\ first = Empty /\ harm = {}
  /\ starts = 0 /\ inserts = 0

Opening ==
  \/ BeginMerge \/ ClearBegins \/ ClearEnds \/ SaveBegins \/ SaveEnds
  \/ OpenMain \/ CreateBegins \/ CreateEnds \/ MapCreated \/ OpenTmp

Next ==
  \/ Start \/ Opening
  \/ \E k \in Keys, i \in Ids : Insert(k, i) \/ InsertUnplugged(k, i)
  \/ CloseMain \/ FlushBegins \/ FlushEnds \/ CloseTmp \/ Leave \/ Crash

Spec == Init /\ [][Next]_vars

-----------------------------------------------------------------------------
(* Properties.                                                             *)

\* Every variable keeps its range; the tables in memory are there when the
\* server is at a place that uses them.
TypeOK ==
  /\ file \in [{"main", "tmp"} -> [state : {"missing", "whole", "torn"}, tbl : Tables]]
  /\ main \in Tables \cup {Null} /\ tmp \in Tables \cup {Null} /\ dst \in Tables \cup {Null}
  /\ pc \in Pcs /\ fresh \in BOOLEAN
  /\ first \in Tables /\ harm \in SUBSET Harms
  /\ starts \in 0 .. MaxStarts /\ inserts \in 0 .. MaxInserts
  /\ pc \in {"serving", "closing", "leaving"} \cup UnpluggedPcs => tmp # Null
  /\ pc \in {"clear", "clearing", "save", "saving"} => dst # Null
  /\ pc = "opentmp" => main # Null

\* What lookups see is what the file holds: a crash while the server serves
\* costs nothing that was ever found.
ServedIsDurable == main # Null => file["main"] = Whole(main)

Places == {file["main"].tbl, file["tmp"].tbl} \cup ({tmp, dst} \ {Null})

\* From one opening of the indexes to the next, and until one of the four harms
\* comes, no inserted hash is forgotten: it is in the main file, in the temporary
\* one, or in a table in memory, with the first id it was inserted with; after a
\* crash this is still so for what the files had.  An opening after a harm starts
\* anew from what it found.
NothingForgotten ==
  harm = {} => \A k \in Keys : first[k] # None => \E t \in Places : t[k] = first[k]

\* Through merges, signals and restarts without harm a lookup answers with the id
\* that came first, also after an earlier harm.
FirstIdWins ==
  harm = {} /\ main # Null => \A k \in Keys : main[k] \in {None, first[k]}

\* Crashes, failed writes and insertions into the flush never make the main file
\* lose or replace an entry: it is lost with the whole file when that is torn, or
\* when the file was whole and could not be read or mapped.
MainOnlyGrows ==
  [][\A k \in Keys :
       "main" \notin harm' /\ file["main"].state = "whole" /\ file["main"].tbl[k] # None
         => file'["main"].tbl[k] = file["main"].tbl[k]]_vars

\* An opening makes everything findable that was inserted since the last one, if
\* nothing went wrong in between.
OpeningMakesFindable ==
  [][pc # "serving" /\ pc' = "serving" /\ harm = {}
       => \A k \in Keys : first[k] # None => main[k] = first[k]]_vars

\* "new entries [...] are inserted into a temporary index file that can later be
\* merged into the main index file": the same, insertions into the flush included.
MergeMakesFindable ==
  [][pc # "serving" /\ pc' = "serving" /\ harm \subseteq {"race"}
       => \A k \in Keys : first[k] # None => main[k] = first[k]]_vars

\* Not kept, see the README: a main file that is whole is never emptied.
MainAlwaysGrows ==
  [][\A k \in Keys :
       file["main"].state = "whole" /\ file["main"].tbl[k] # None
         => file'["main"].tbl[k] = file["main"].tbl[k]]_vars
=============================================================================
