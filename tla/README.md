# A verification of audioscout's servers and of Olaf in the browser

This directory specifies and checks the parts of the repository that react to their
surroundings rather than compute one result:

* **audioscout** (`InterestingProjects/audioscout`), a content-based audio identification service
  written in C with POSIX threads, signals and zeromq;
* **Olaf in the browser** (`InterestingProjects/Olaf/wasm` and the engine it compiles from
  `InterestingProjects/Olaf/src`): demo pages that listen to the microphone, audio worklet
  processors in JavaScript, and the streaming matcher in C behind them.

The rest of the repository is a collection about audio fingerprinting; what of it could be specified
is listed below. Paths beginning with `wasm/` or `src/` are relative to `InterestingProjects/Olaf`, others to
`InterestingProjects/audioscout`, unless they name another project.

## 1. Inventory

### audioscout

    client --REQ--> main server --PUB--> table server 1..n (forwarder -> nbthreads workers)
                        |  ^                     |
       metadata server<-+  +---- REQ results ----+        (port + 3, acknowledged)
                           +---- REQ INIT/KILL --+        (port + 1, answered)

| component | files | state it keeps | operations |
|---|---|---|---|
| main server | `servers/auscout.c` | `tables[]`, `nb_tables`, one pipe per worker | `handle_request` (query, submission), `select_table`, `waitresults`, `result_listener`, `table_listener` |
| table server | `servers/table_server.c` | `audioindex`, `audioindex_tmp`, two gates (counter, mutex, condition), `table_number` | `pull_message`, `execute_command`, `send_results`, the forwarder `subscriber_messages`, `handle_signal` (`kill_server`, `kill_index`, `init_index`, `init_server`) |
| index library | `libs/phash_audio.c` | the `.idx` and `.tmp` files and their tables | `open_`, `close_`, `flush_`, `merge_audioindex`, `insert_into_`, `lookupaudiohash` |
| hash table | `libs/table-4.3.0phmodified` | a table in memory or mapped from a file | vendored; used as `table_insert_kd`, `table_read`, `table_write`, `table_mmap` |
| metadata server | `servers/metadatadb.c`, `libs/audiodata.c` | a sqlite database | `insert_db`, `retrieve_db`, one request at a time |
| audio hash | `libs/phash_audio.c`, `libs/audio_index.c` | none | numeric: frames to hash values |
| clients, drivers, bindings | `clients/`, `drivers/`, `bindings/` | none | one request, one reply |

How they interact. A client sends a query to a worker of the main server, which publishes it to
all table servers and waits on its pipe. In a table server the main thread forwards
the message to a worker, which looks the hash up in the main index and, if the confidence
reaches the table server's threshold, sends the result to the main server's result listener. That
thread acknowledges, applies its own threshold, and writes the id to the pipe of the worker
whose number the result carries. A submission is sent to the metadata server for an id, then published with the
number of one table server, whose workers insert it in the temporary index. Operators send signals to
table servers: SIGUSR1/SIGUSR2 leave the registry, close both indexes, merge the temporary into the
main one, open them and register again; SIGTERM does the first half and exits.

### Olaf in the browser

    button -> page (basic.html) --addModule, new AudioWorkletNode--> processor (olaf_processor_edit.js)
                 ^                                                       | process(), every quantum
                 |  port.postMessage                                     v
                 +--------- olaf_fp_matcher_callback <--------- olaf_fingerprint_match (C, WebAssembly)

| component | files | state it keeps | operations |
|---|---|---|---|
| pages | `wasm/basic.html`, `wasm/resample.html` | `audioContext`, `microphoneStream`, the "match found" box, `reference_query_time_delta` | `startOrStopAudio` and its three nested callbacks, `onmessage`, `updateMatch`, `showEstimatedTime` |
| processors | `wasm/js/olaf_processor_edit.js`, `wasm/js/resample_processor.js` | `this.src`, `this.olaf`, the scope's `processor` | constructor and its promises, `process`, `olaf_fp_matcher_callback` |
| engine | `src/olaf_wasm.c`, `olaf_ep_extractor.c`, `olaf_fp_extractor.c`, `olaf_fp_matcher.c` | the audio buffer, the pool of event points, the match table, the time of the last report | `olaf_fingerprint_match`: cut a block, find event points, combine them, tally, report, forget |

The page, the worklet thread and the user run concurrently. A click is a start or a stop by what
`audioContext` is at that moment; a start goes through the prompt, `addModule` and the processor's own module
loading, and each callback reads the page's variables as they are when it runs. The engine
calls back for each result; the callback posts it on the port of whatever processor was constructed last in
that scope.

### What is hard, and which properties say it is done right

| behaviour | properties |
|---|---|
| a signal handler that closes an index under running threads, on the stack of any of them | `CountIsExact`, `LookupsNeverWait`, `SleeperWillBeWoken`, `HandlerEntersAlone`, `HandlerReturns`, `LookupsFinish`, `UnpluggedIndexIsNotUsed`, `HandlerNotBlockedByItsThread` |
| a handler that fails half-way | `DownForGood` |
| servers that join and leave by messages that are late, abandoned or never sent, against a counter read without its mutex | `NoPhantomTables`, `RegistryIsExact`, `NumberOfRunningServerStays`, `SelectionEnds`, `SelectionAlwaysEnds`, `AvailableIsSelectable`, `MergeReturns`, `AddedByOneTable` |
| answers that carry no request, timeouts that race them | `AnswersStayWithWorker`, `NoResultUsedTwice`, `NoFaintAnswer`, `ServiceIsKept`, `HeldIsFound`, `AnswersAreForTheirRequest` |
| a start that is still under way when the user stops or starts again | `EveryMicrophoneHasAButton`, `OnlyOwnNodesAreHeard`, `MatchesGoToTheirPage` |
| messages and frames that arrive after the state they were made for | `NoTimeWithoutMatch`, `DisplayChangesOnlyWhileOn`, `LoopsEndAfterStop`, `MatchIsShown` |
| chunks of a size that divides nothing, cut into overlapping blocks | `BlocksAreConsecutive`, `NoSampleLost` |
| a bounded pool that is combined, aged and sorted in place while points still arrive | `PoolIsSorted`, `NoPairIsMissed`, `TypeOK` of `OlafEngine` |
| results computed from times of the reference, reported now and then, forgotten later | `StartTellsAMatch`, `SpanCoversTheMatch`, `MatchesAreRecent` |
| two files written one after the other, crashes in between, writes that fail unnoticed, insertions into a table that is being written, files that are there but cannot be opened | `ServedIsDurable`, `NothingForgotten`, `FirstIdWins`, `MainOnlyGrows`, `OpeningMakesFindable`, `MergeMakesFindable`, `MainAlwaysGrows` |

### The other projects of the repository

| project | what it is | here |
|---|---|---|
| `InterestingProjects/Olaf`, outside the browser | the command line, the LMDB database, the stream reader, the sliding maximum | not modelled: a sequential program around the engine that `OlafEngine` models, and numeric filters |
| `InterestingProjects/dejavu` | landmark fingerprinting in Python with SQL back ends and a process pool | not modelled, see section 7 |
| neural-audio-fp, audio_fingerprinting | training scripts and notebooks | not modelled: numeric, no protocol |
| songprint, libfooid, fdmf | third-party fingerprinters | not modelled: one pass over a signal, no interaction |
| ACRCloud scripts, Concepts, Results, Literature Review | clients of a web service, teaching code, measurements, papers | not modelled |

## 2. Modules

| module | what it is |
|---|---|
| `IndexGate` | access to the two indexes of one table server: workers, gates, the handler |
| `TableRegistry` | table servers joining, leaving and merging; which one a submission is given to |
| `QueryPath` | a query from the client to the table servers and back |
| `QueryService` | what a client may count on; `QueryPath` implements it |
| `IndexFiles` | the two files of an index, from start to crash |
| `OlafPage` | both demo pages with their worklet processors: starting, stopping, messages, the display |
| `OlafBlocks` | from render quanta to overlapping audio blocks |
| `OlafEngine` | what the engine does with a full block; extends `OlafBlocks` |
| `MC*` | instances for TLC |
| `*_proofs` | theorems about the module of that name |

The four models of audioscout meet at shared steps and are not composed: the handler's `kill_index`/`init_index` is a
sequence of steps in `IndexGate` (who may touch an index), one step in `TableRegistry` (`Reindex`) and another
sequence in `IndexFiles` (what is in the files). `IndexFiles` takes from `IndexGate` that insertions
may still arrive while the main index is being closed and, as `IndexGateUnplug` shows, also while the temporary one is being
written and freed; `QueryPath` takes a table server's lookup as one step and the table servers that may have no index, or not run, as the
constant `Down`.

### IndexGate

One process. `pc[a]`, `at[a]` say where each worker, and the handler's frame `SIG`, is in
`waitfor_*_index` / `post_*_index`, and for which index. `nb`, `held` are the counters
and mutexes; the condition variables' wait sets are the actors asleep (`Waiters`). `handle` is
`audioindex`/`audioindex_tmp` as the number of an opening, `mapped` the opening whose memory exists,
and `ptr[w]` the pointer a worker passed on. `host` is the thread whose stack the handler is on: `Running`
stops that thread until the handler returns. Actions: `Lock`, `Enter`, `Sleep`, `PostLock`,
`Post` for the gate functions; `StartLookup`, `StartInsert`, `ReadIndex`, `Park`, `Unpark`, `Finish`,
`Done` for `execute_command`; `Deliver`, `KillServer`, ..., `InitServer` for `handle_signal` in
the order of the code, with each early return.

`pthread_cond_wait` without the mutex (line 598: the loop waits on `tmpaccess_cond` after
`waitfor_tmp_index` has unlocked) is undefined; `Park`/`Unpark` take the outcome of the usual implementation, where the
thread sleeps and comes back with the mutex locked. `Counts` allows a counter update to go wrong
(`MaxDrift`) when the mutex does not protect it, which only the temporary index's gate can meet.

### TableRegistry

`tables`, `nb_tables` are the main server's; `skt[s]` is a table server's REQ socket: its
request, then the answer. `late` counts requests whose sender gave up: they are still
handled, nobody reads the answer. `phase`, `number` are the table server's place in `main`/`handle_signal` and its
`table_number`. A submission runs through `BeginSelect` (reads `nb_tables`), `Pick` (draws
numbers until one is taken) and `Forward` (publishes). `NoTable` = `MaxTables` plays 255, which is both
0xff, the answer when no number is free, and `(uint8_t)(-1)`, what a failed selection becomes.
`Faults` choose what may go wrong: `"timeout"` (ten seconds pass), `"crash"`, `"index"` (the handler's
re-opening fails), `"early"` (SIGTERM before the number is there), `"restart"` (the main server is restarted: an empty
registry, submissions and any part of the requests and answers under way gone).

### QueryPath and QueryService

Whole messages. An id is an *entry* `[req, tbl]`: what table `tbl` found for the hash of `req`; the
code's results carry the worker's number and the id only, and so do the model's. `doing`, `found`, `socket`
are a table server's thread and its REQ socket, which after a timed-out acknowledgement still
waits for it (`AckTimesOut`, `Lookup` with `socket = "asked"`). `Listen` is one turn of
`result_listener`. `Faults` choose `"wait"` (a result comes after `WAIT_TIME_SECONDS`) and `"ack"` (an acknowledgement
comes after its timeout); `Down` names the table servers that may be silent, for one query and not for the next (`Miss`). The forwarder's delay is part of
the inbox. `QueryService` is the abstraction: ask, then one response, an entry found for this hash or nothing; nothing is no answer to the
requests in `Exact`. `Promise` takes for `Exact`, if there are no faults, the hashes held by some table that is never down. The refinement maps `client` and `answer` to themselves and hides
workers, threads, sockets and pipes.

### IndexFiles

`file` holds, per file, its table and whether it is missing, whole or torn (a write began and
did not end, or the table changed under it); `main`, `tmp`, `dst` are the tables in memory. Every `table_write` is two steps, truncation and
completion, with a crash (`"crash"`) or an unnoticed failure (`"disk"`: the file could not be opened, or not be filled) in between. `Read` is what
`open_audioindex` makes of a file it reads: for a torn file, and with `"open"` also for a whole one, that may be an
empty table (`phash_audio.c:62-68`). A main file that is not mapped, torn or (with `"open"`) whole, is overwritten with an empty one (`CreateBegins`,
71-80); if that one is not mapped either, a handler leaves both indexes down (`MapCreated`, `"broken"`).

Insertions have two actions. `Insert` is the insertion before `kill_index` is inside the gate of the temporary index.
`InsertUnplugged` is the one of a worker that passes the bound `nbthreads + 1` (`servers/table_server.c:596`) while `kill_index` flushes (338) or frees (339) the
table: the entry is in memory, and the file gets some part of the table (`Parts`) that may read or not; after the flush it is in no file.

`first` and `harm` are history variables: the id first inserted under each key, of those that are to be kept, and what went wrong since the
indexes were last open: a write failed or was cut short, an insertion met the flush, a whole file was not read or mapped. The next opening starts a new
account from what it finds.

### OlafPage

An attempt `s` is one start by the button; the stream, the context and the source node it gets are
called `s` too. `stage[s]` is where its chain of callbacks is. `audioContext` and `microphoneStream` are the
page's variables, so they name the attempt that wrote them last, and an older attempt's callback that
reads them meets another's: `Construct` builds the node `<<audioContext, s>>`, which is wired only if the two agree
(`connect` throws between contexts) and makes itself the scope's `processor` in any case. `port[n]` are messages on their way to the
page; `delta` is the offset, kept as the context against whose clock it was measured, since its value
never matters but its being 0 and its origin do; `frames` counts animation callbacks under way. `demo` and
`hasty` are chosen once: which page it is, and which stages of a start the user does not wait for, so one instance holds
users that always wait and users that never do. `Faults` choose what fails: the context or the source node
cannot be created, the module file cannot be fetched, a WebAssembly module does not load, a connected node gets no
channel. `Load` is `src` and `olaf` becoming set, in either order; `Process` and `Resample` are quanta
after which something is posted. What a processor does with samples is `OlafBlocks`.

### OlafBlocks and OlafEngine

Samples are numbered in the order `process()` hands them over, so `audio` says which sample is in
each slot. One step is one call of `olaf_fingerprint_match` with `n` samples. The first call reads the
step and block size through `state.config` while that is NULL: what address 0 holds decides (`LowMemory`: zeros, or the
cookie an assertions build keeps there) whether the buffer starts empty or the write is out of bounds. `MaxChunk <= StepSize` holds for every context
of 8 kHz or more (128 frames are at most 256 samples at 16 kHz; the step is 256).

`OlafEngine` adds what happens when a block is full. The bins that hold event points are any rising sequence from
`Freqs` (`Sounds`), and the database any sequence of time differences per fingerprint, so magnitudes, filters and hashes do not appear.
`pool` is `eventPoints` up to its index; `Extract` is the double loop of `olaf_fp_extractor_extract_two` with its
breaks as flags (`stop`, `next`) of the state it hands on; `Kept` is marking, sorting and cutting. Each loop is a recursive function from
the number of turns to what they leave, so that it can be proved about. `table` is keyed by the time difference
in buckets (`>> 2`). The last block's `prints` and `report` are kept so that properties can speak of them; `made`,
`limited`, and the fields `since` and `till` are history.

## 3. Runs

`CHECK_DEADLOCK FALSE` everywhere: requests, signals and starts are bounded and nobody has to make
them, so every system may come to rest.

| run | question | instance |
|---|---|---|
| `MCIndexGate` | is the gate's bookkeeping right, on whatever thread the handler lands | 2 workers, lookups and insertions, 2 signals, all threads |
| `IndexGateLookups` | do handlers return and lookups end; does a failed opening leave the index down | the same, lookups only, handler on the main thread |
| `IndexGateUnplug` | *violated*: no thread uses an index closed under it | 2 workers, insertions, 1 signal |
| `MCTableRegistry` | does the registry agree with the servers; do selections and merges end | 3 servers, 3 numbers, 1 submission, 2 signals, no fault |
| `RegistryFaults` | does the counter ever promise a table that is not there | 3 servers, 2 numbers, 2 signals, every fault |
| `MCQueryPath` | do results stay with their worker, once, above the threshold | 3 queries, 2 workers, 2 tables, 3 threads, every fault, both tables may be down |
| `QueryExact` | does it implement the service, exact for hashes whose table is up | the same without faults, each hash in at most one table, one table may be down |
| `QueryTwoTables` | *violated*: an answer is for its own request | one hash in two tables, no fault |
| `MCIndexFiles` | are files and memory right through crashes, failed writes, insertions into the flush and files that cannot be opened | 2 keys, 2 ids, 4 openings, 4 insertions, every fault |
| `MCOlafPage` | do starts, stops, messages and frames keep page and processors together | both pages, 3 kinds of user, 2 starts, every fault |
| `MCOlafEngine` | are blocks, pairs and reports right for every sound and database | 2 bins, filter of 5, pool of 5, 10 blocks, 3 lookups |
| `OlafEngineStale` | *violated*: a match is forgotten after `keepMatchesFor` | the same with `MaxTime` 2, `KeepFor` 4, 14 blocks |

Why the bounds are enough. *Gate*: two workers are the least for one to be inside, one asleep and the
handler against both; two signals are the least for the handler's second visit to meet what the first left. *Registry*:
the third server takes the number another has left while that one merges; two numbers for three
servers make the registry full; two signals are a merge and a termination, or a signal after a timed-out
one. One submission is enough: submissions share nothing but the registry. *Queries*: three
queries on two workers make one worker serve twice, so that a late result meets the wrong request;
table `t1` has two threads so that results overtake each other; in `QueryExact` one query is for the table that may be down and one for the other. *Files*: two ids for
one key tell the first from the second; four openings cover start, merge, crash in the merge and recovery, and one
more merge. *Page*: two starts are the least for an old callback to meet a
newer context; a stop needs no bound. One message per port (`MaxQueue`) and two loops (`MaxLoops`) are enough for a message or a
frame to outlive its context and for a second loop to start; the run also passes with `MaxQueue` 2 (half a million states).
*Engine*: blocks of 4 with step 2 overlap, and chunks of 0 to 2 samples never line up with them. A filter of 5 makes the
first point appear after 4 blocks; 6 more blocks cover twice `MaxTime`, so that a point is born, waits for its partners, is combined and
leaves; a pool of 5 at two points a block fills up, and usage and print limits of 2 and 3 are met (`limited`). `KeepFor` is not below `MaxTime`, as in
the configuration.
The theorems of section 5 hold without any of these bounds.

Fairness. Threads are scheduled, hence weak fairness of each thread's steps and of the
handler's. `Pick` is fair because `rand()` draws every number again and again. Nobody has to
start a server, send a signal or ask a query. `HandlerReturns` and `LookupsFinish` are about the time after clients
stop (`quiet`): the mutex and the counter give no preference to the handler, so a stream of messages may
overtake it for ever. In `QueryPath` without the fault `"wait"`, the timeout comes only
when nothing is in flight for the worker. In `OlafPage` the browser
settles `addModule`, runs its callback, delivers messages and draws frames: one weak fairness condition each. Nobody has to click, answer the
prompt or play music, and a module need not load. The engine has no liveness: it only runs when called.

## 4. What the violated runs show

* **An index is used after it is closed** (`IndexGateUnplug`). The comment at
  `servers/table_server.c:198-199` promises the "ability to unplug the index during updates by waiting for the count
  to go to zero". `kill_index` waits for zero and closes inside the gate (337-340), but workers wait
  only for a count above `nbthreads + 1` (578, 596), which is never reached: they pass while the handler is inside and
  can read the handle between the close and the assignment of NULL. What this costs is `MergeMakesFindable` below.
* **A client gets the answer to another query** (`QueryTwoTables`). `docs/audioscoutm.tex:61-63`: the server "recieves the unique id of the match
  from one of the table servers, and then, using this id, it retrieves the correct information". A worker takes one result
  (`servers/auscout.c:413`); a second one stays in its pipe for the next client.

* **A match from before a silence is reported as found** (`OlafEngineStale`). `src/olaf_config.h:151`: "After
  this time, in seconds, a match is forgotten. This especially relevant for streams." `olaf_fp_matcher_match` runs only for a
  block that yields fingerprints, and it reports (`src/olaf_fp_matcher.c:243-248`) before it removes old matches (251-255). In the trace a match is
  counted at block 2, nothing is found until block 6, and the fingerprint of blocks 6 and 7, which the database does not know, brings
  the report of block 2's match. The page ticks its box for music that is no longer there.

### Counterexamples beyond the runs

These definitions are in the modules, and TLC refutes each on the instance named. The runs are kept to one question each; what is listed
here repeats the cause of a run, or shows behaviour the runs' instances leave out. Where a comment or a document says
otherwise, it is quoted.

| definition | instance | what happens |
|---|---|---|
| `AvailableIsSelectable` | 2 servers, `MaxTables` 2, `{"USR"}`, 3 signals, `Faults` `{"timeout"}` | `docs/audioscoutm.tex:65-66`: "a particular table is randomly chosen from the list of available servers". `kill_server` sets `table_number` to 0 (`servers/table_server.c:453-454`) and the handler stops when no acknowledgement comes (239-245): the next signal kills number 0, another server's; `nb_tables` is 0 while a table is taken |
| | 2 servers, `MaxTables` 1, no fault | KILL of 255 counts down without freeing: `nb_tables` is 0 while a table is active |
| | 2 servers, 1 signal, `Faults` `{"restart"}` | a server leaves with the number it had before the main server's restart: the counter goes to -1, and the next server that joins is counted as 0 |
| `RegistryIsExact` | the same | after the restart a running server's number is free, and is given again |
| `AddedByChosenTable` | 2 servers, 1 signal, no fault | the submission is published before the chosen server subscribes, or while it merges |
| `SelectionAlwaysEnds` | 1 server, `{"TERM"}`, no fault | `docs/audioscoutm.tex:26-27`: "can start new table servers or terminate them at any time without effecting operation of the main server". The last server leaves between the test of `nb_tables` (`servers/auscout.c:329`) and the draws (330-332): the worker draws until another server joins |
| `HeldIsFound` | `OneHolder`, `Faults` `{"ack"}`, no table down | `docs/audioscoutm.tex:30-32`: "As long as the portion being hashed was previously added to the index, AudioScout should find the matching signal". `send_results` gives up on an acknowledgement after ten seconds (498-501), but its REQ socket still waits for it: the thread's next result is dropped (489-491, unchecked) |
| `AnswersAreForTheirRequest` | `OneHolder`, `Faults` `{"wait"}` | a result after the timeout is the next query's answer |
| `HandlerNotBlockedByItsThread` | `IndexGate`, 2 workers, lookups, 1 signal, every thread a host | "do not respond to SIGUSR1 or SIGUSR2" (`servers/table_server.c:720`) stands above a `SIG_UNBLOCK` (725): the handler runs on a worker that is inside the gate, or holds its mutex, and waits (323) for that worker |
| `AddedByOneTable` | 2 servers, 2 numbers, 2 signals, no fault (or no signal and `{"restart"}`) | a merging server has `table_number` 0 from before KILL until INIT is answered (454, 434); 0 is a table's number, and the server takes submissions for it (595). `docs/audioscoutm.tex:65-66`: "a particular table is randomly chosen from the list of available servers, and the hash is published for that table to add to its index" |
| `HandlerReturns` | `IndexGateLookups` with insertions | a worker that waited for the temporary index locks its mutex twice in `post_tmp_index`; the next handler hangs there |
| `MergeMakesFindable` | `MCIndexFiles`, `Faults` `{}` | `docs/audioscoutm.tex:85-87`: new entries "are inserted into a temporary index file that can later be merged into the main index file". The cause is that of `IndexGateUnplug`: a worker inserts (bound at 596) between the flush (338) and the free (339) of the table, or into the flush; the entry is in no file and no merge brings it back |
| `MainAlwaysGrows` | `MCIndexFiles`, `Faults` `{"open"}` | `open_audioindex` takes every failure to open, read or map a file for a missing one (`phash_audio.c:62-80`): a whole main file is replaced by an empty one, or by what was merged into an empty one |
| `LoadedModuleMakesANode` | 1 start, no fault, a user who stops while the module loads | `wasm/basic.html:90-91` says "After the resolution of module loading, an AudioWorkletNode can be constructed"; the callback reads `audioContext` again (92), which is null after a stop |
| `EveryMicrophoneHasAButton` without its premise | 2 starts, a user who clicks while the prompt is open | both prompts are granted; the first stream and context are overwritten and no click stops them |
| `TimeRuns` | `MCOlafPage` with patient users | stop while the box is ticked: the loop ends on the null context; after the next start a match finds the box ticked and starts none, so the time stands still |
| `OneLoop` | the same | match, no match, match between two frames: two loops |
| `TimeIsOfThisContext` | the same | the offset of the first context is added to the clock of the second until the next message |
| `NoPairTwice` | `MCOlafEngine` | the pool is combined again in every block until its points are too old, so one fingerprint is counted many times; `minMatchCount` is "The minimum number of aligned matches" (`src/olaf_config.h:142`) |
| `PoolNotStuck` | `MCOlafEngine` | `src/olaf_config.h:95-96` of `maxEventPoints`: "parameter should not have any effect,except for memory use". A full pool drops new points (`src/olaf_ep_extractor.c:166-167`); combining stops at a first point that was used more than `maxEventPointUsages` times (`src/olaf_fp_extractor.c:293-295`), points leave only when used exactly that often or too old for the newest (398-401), and no new point can make one old |

`kill_index` on an index whose opening failed returns an error before `init_index` (`DownForGood`): such
a server is up but has no number and answers nothing until it is restarted.

## 5. Theorems

The proof modules prove the following of `Spec` for every value of the constants that satisfies the
module's one assumption (`GateAssumption`, `RegistryAssumption`, `PathAssumption`, `FilesAssumption`, `PageAssumption`, `BlocksAssumption`,
`EngineAssumption`; each names only what the code has: finitely many threads, thread names that differ, a table number at
least, `None` that is no entry, a configuration of numbers in the order the configuration has).

| module | theorems | argument |
|---|---|---|
| `IndexGate_proofs` | `TypeCorrect`, `CountCorrect`, `NoLookupSleeps`, `NoLostWakeup`, `EntersAlone`, `StaysDown` | `IInv` and `Down` below |
| `TableRegistry_proofs` | `TypeCorrect`, `NoPhantomTablesEver` | each property is inductive, given the types |
| | `RegistryAlwaysExact`, `RunningNumbersStay`, both if `NothingLost` | `ExactInv` below |
| `QueryPath_proofs` | `TypeCorrect`, `RoutedCorrectly`, `ThresholdKept` | whatever is on its way to worker `w` was found for a request `w` accepted, and what is in a pipe has passed the threshold |
| | `ResultsUsedOnce` | `OnceInv` below |
| | `AnswersRightIfPrompt`, `ImplementsPromise`, both if `Prompt`; `HeldIsFoundIfPrompt` if `Faults = {}` | `RightInv` and `FoundInv` below |
| `OlafPage_proofs` | `PageTypesHold`, `MicrophonesHaveButtons`, `OwnNodesAreHeard`, `MatchesArrive`, `TimeNeedsAMatch`, `StoppedDisplayStays` | `PageInv` below |
| `OlafBlocks_proofs` | `BlocksTypes`, `BlocksAreTimes` | `BlocksInv` below |
| `OlafEngine_proofs` | `EngineCutsBlocks`, `EngineBlocksAreTimes`, `EngineLosesNoSample` | the engine implements `OlafBlocks` |
| | `EngineTypes`, `PoolStaysSorted`, `StartsTellMatches`, `SpansCoverMatches`, `NoPairMissed` | `EngineInv` below |
| `IndexFiles_proofs` | `TypeCorrect`, `DurableCorrect`, `NothingForgottenEver`, `FirstIdAlwaysWins`, `MainGrowsOnly`, `OpeningFinds` | `View` below |

Five theorems have a hypothesis on the constants, because the code has no more to promise; each is what the run of the same
question assumes, and section 4 has the counterexample without it. `NothingLost`: no fault, and no more table servers than numbers.
`Prompt`: results are not late (`"wait"` is not among `Faults`; acknowledgements may be, and tables may be down), and no hash is in two
tables. `HeldIsFoundIfPrompt` assumes that nothing is late and is about hashes that some table holds that is never down; the
others may be.

*The page.* `EveryMicrophoneHasAButton` rests on `OnePrompt`: a user who waits for the prompt has one open at a time and only
while the page has no context, so the callback overwrites nothing. `MatchesGoToTheirPage` rests on `LoadsForThePage`: whoever also waits for the module has
the page's context unchanged until the node is built. `OnlyOwnNodesAreHeard` and `NoTimeWithoutMatch` are inductive for every user, which is what
makes the old callbacks harmless. `DisplayChangesOnlyWhileOn` needs no invariant: each kind of step that changes the display reads the
clock first.

*The blocks.* `NoSampleLost` is the inductive invariant (with `Fresh`: nothing is in the buffer before the first call): the buffer
holds the samples from `blockIndex * StepSize` on. That a full block starts there, `BlocksAreConsecutive`, is read off it in the step that completes the block. Each step of
`OlafEngine` is a step of `OlafBlocks` or leaves its variables alone, so both hold of the engine.

*The gate.* `CountIsExact` is not inductive: it holds because the mutex keeps the updates
of the main counter apart (`Mutex`: whoever is in the critical section owns it, and only one is), and
that needs the one unlock of a mutex that is not one's own, in `Park`, to concern the temporary
index only (`Parked`). With the exact count, the bound `nbthreads + 1` is above what the count reaches, hence no lookup
sleeps; and a handler that found the count above 0 found a worker inside (`Sleeper`), the last of which signals it.
One lemma per kind of step says what it does to the set of actors inside. `DownForGood` is about a state that is
not left: while the main index is NULL, a handler that runs is before `ClearIndex`, or after it with `failed` set (`Down`), and neither reaches `init_index`.

*The registry.* INIT counts up only with a number that was free, KILL always counts down and
frees at most one, and a restart clears both, so `nb_tables` never exceeds the taken numbers, whatever is lost, late or repeated.
While nothing is lost, `ExactInv` says of every server where its number is: the main server has it as taken from the moment INIT is handled until KILL is,
and between those the number is on the socket, in `table_number`, or on the socket again, according to the server's phase. Two servers never have one number,
so `nb_tables` is the size of a set that each step changes by at most one element.

*The query path.* `OnceInv` says that an entry is in one place at most: asked for, with a thread, on a socket, in a
pipe, or an answer; every step moves it on or drops it. With `Prompt`, what is under way for a worker holds back its
timeout, so a result that some client will be told belongs to the request its worker serves now (`Current`), and what a worker reads from its pipe was found for it: `RightInv`. Without faults the
entry of a holder that is never down is on its way until it is there (`Coming`), which gives `FoundInv` and the `Exact` part of the refinement. `ImplementsPromise` maps every
step of the path to `QueryService`'s ask, respond or a stutter.

*The engine.* What a loop computes is proved without induction over its turns: a turn after which a statement fails has a
least one (`NatLeast`, from the well-foundedness of the numbers), and the turn before that contradicts it (`LoopKeeps`); `LoopRuns`
shows that the recursive function is there at all. So `CombineFacts`, `CombineAllFacts` and `ExtractFacts` follow the double loop: it changes only
usage counts, adds only pairs of the pool's points, stays within `MaxPrints`, and, unless a limit is met, has combined each point that is old enough with all its partners,
because its breaks come only at points too far away. `KeptFacts` says that only points that are too old, or used up, leave and that the rest keep their
order. `BlockPool` joins them: since nothing is found later than `blockIndex - Half`, a point that is too old has met all its partners. In the table,
`Counts` bounds an entry of bucket `k` by `k * Bucket`: the offset counted last lies in the bucket, hence the span converted with it misses a counted time by less than
a bucket; and nothing is counted before `Earliest`, which is at least a bucket (`EngineAssumption`; 51 against 4 in the configuration), hence a start is after 0.
`EngineInv` puts these together and every call keeps it.

*The files.* `View` is what a merge done now would end with: it is computed from the two
files, from the main file and the table in memory, or is the destination of the merge, according to
the place the server is at. `harm = {} => first = View` is kept by every step (`Kept`), and `NothingForgotten`, `FirstIdWins` and `OpeningMakesFindable` are read off it.
`Orderly` says where, without harm, a file can be torn, when the temporary file is empty and when it has what is in memory; `Present` what a missing file
allows; `Mapped` where the main index is open. `MainOnlyGrows` is under every harm but one: `Grows` says that a merge's destination contains the main file unless that was
misread. The theorems hold for every set of faults. The assumption `harm = {}` they speak of is reset by every opening, so it excludes
only what lies between a harm and the next opening.

Left to TLC: the liveness properties (`HandlerReturns`, `LookupsFinish`, `SelectionEnds`, `MergeReturns`, `LoopsEndAfterStop`,
`MatchIsShown`) and the liveness half of the refinement `ServiceIsKept`, that each query is answered: fairness and `ENABLED` are out of the
prover's reach. Every safety property of a passing run is a theorem, the registry's two exact ones under the hypothesis of their run.

## 6. What is not modelled

* Framing: a malformed message is dropped by `flushall_msg_parts` and error returns; models handle whole,
  well-formed messages.
* Two signal handlers nested in each other, on different threads at once, and a signal during start-up.
* The write to `tables[255]`, one past the array, that follows a KILL of 255: taken to have no effect beyond the counter.
* Memory exhaustion in `merge_audioindex` (its returns -2, -3, -4) and in `open_audioindex` (`table_alloc` always succeeds); a failing
  `stat` in `init_index`.
* How far an insertion into the flush and `table_write` interleave, entry by entry: `Parts` takes any part of the table for the outcome. The same
  insertion is one step that has the pointer already; one that meets the free may also end the process.
* Workers of one table server that insert at the same time: `table_insert_kd`
  (`table.c:1775-1778`) links and counts without a lock; `IndexFiles` takes an insertion as one step.
* How a lookup computes its confidence: `Score` in `QueryPath`.
* The metadata server and the clients: sequential around sqlite, one request at a time. `TableRegistry` starts a submission where
  its metadata was stored. Read but not modelled: `insert_db` ignores the result of `sqlite3_step` (`servers/metadatadb.c:289-290`), and the
  reply to a submission that could not be stored is a variable that was never set (`servers/auscout.c:463`).
* A memory error ends most runs of the C program; the models go on after the step that
  makes it, so what they show after it is what happens if it goes unnoticed.
* Of Olaf: the values of the Fourier transform, of the maximum filters and of the resampler (which bins hold event points is any
  choice, and so is the size of each chunk); the database and its hashes (what a fingerprint finds is any choice of `Lookups`); fingerprints
  of three points (the browser's configuration uses two); which of several equally good matches are among the first `maxResults` (any). `qsort` on
  points of one time is taken to keep the order of the bins.
* The value of the page's offset and of its clocks: `delta` keeps only whether there is one and whose clock it was measured against.
* What a page does after an out-of-bounds write in its engine: the model stops there (`FirstCallTraps`).
* The generated `wasm/js/olaf_processor.js` is not modelled: it is the compiler's output followed by `olaf_processor_edit.js`.
* dejavu: `fingerprint_directory` computes in a pool of processes, but only the parent writes to the database, one song after
  another (`dejavu/dejavu/__init__.py:98-116`).

## 7. Plan

Done: `IndexGate`, `TableRegistry` with the restart of either side, `QueryService` and `QueryPath`, `IndexFiles`, `OlafPage`, `OlafBlocks` and
`OlafEngine`, each with its proofs. What would be worth adding, first things first:

1. `TableInsert`: the steps of `table_insert_kd` under several workers, against an atomic insertion.
2. `Lookup`: the sliding-window count and the confidence of `lookupaudiohash` (`phash_audio.c:527-609`) against a
   reference definition, with the loop lemmas of `OlafEngine_proofs`.
3. What the registry still keeps when messages are lost: which numbers can then be held twice, as a theorem instead of a counterexample.
4. dejavu: a crash between `insert_song`, `insert_hashes` and `set_song_fingerprinted`, and the clean-up at the next start.
