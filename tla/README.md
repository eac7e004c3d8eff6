# Verification of tdsql_final

TLA+ specifications, TLC checks and TLAPS proofs for the program that merges
two MySQL sources into one target. It reads the binary log of each source from
a GTID position, splits it into one file per table and per version of the
table's schema, rebuilds every table in memory with "the newest row of a key
wins", and inserts the result into the target.

The own code is C++ under `src/src` and `src/include`, and Java under
`src/extfetcher/src`; together some 3700 lines. `src/design.txt` is the only
design document; there are no tests. Everything under `src/thirdparty` is
vendored, and makes up all but about a thousandth of the repository.

## 1. Inventory

| Part | Code | State it keeps | Operations | Model |
|---|---|---|---|---|
| In-memory table | `structure/table.cpp`, `descriptor.cpp` | columns in logical order and by physical position, `updCol`, row slots, unique indexes with their hash | `addColumn`, `dropColumn`, `addUniqueIndex`, `dropUniqueIndex`, CHANGE, `reCompute`, `checkRow`, `insertRows`, `doRowReplace`, `optimizeTableForDump`, `dumpToFile` | `UniqueTable`, `SubWorker` |
| SubWorker, Statement, DATParser | `worker_impl/subworker.cpp`, `structure/statement.cpp`, `utils/datparser.cpp` | state number, `stamp[2]` | per state: `Trace`, then the rows of both sources; at last sort, dump, post | `SubWorker` |
| Splitter | `EventDealer.java`, `CanalSplitter.java`, `LimitedQueue.java` | `tableAlterStateLookup`, `tableWriterLookup`, `procResult`, two executors | row event, statement, `writeBack`, `waitIt`, `closeAll` | `EventDealer` (one source, concurrent), `TwoSources` (its files) |
| WorkLoader, Worker, Module, main | `utils/workloader.cpp`, `worker_impl/worker.cpp`, `main.cpp` | `works`, thread pools | `loadWorks`, `work`, destructors | `TwoSources`, `Pipeline` |
| ExternalFetcher, Logger, JVMConn | `external/extfetcher.cpp`, `utils/logger.cpp`, `external/jvmconn.cpp` | fetched logs and FINISHED marks on disk | `evokeFetchAll`, `evokeFetch`, `dumpEventToFile`, `callMethod`, `~JVMConn` | `Pipeline` |
| Pusher, SQLPool | `worker_impl/pusher.cpp`, `external/sqlconn.cpp` | `availConnection`, what each Pusher has sent | `push`, `createFinalTable`, `pushFromFile`, `flushSQL`, `getSQLInstance` | `Pipeline`; the text of a batch in `RowText` |
| Statement text | `DDLCompatWriter.java`, `SQLParser.java`, `Statement::getStatement` | none | write, read, carry out | `SchemaTrace` |
| Row text | `EscapeConvert.java`, `RowParser.java`, `utils/escapedstr.cpp`, `dumpToFile` | `parseEscaped`'s position | encode, decode, quote | `RowText` |
| GTID sets | `GtidSet.java`, `GtidResolver.java` | interval lists | construct, `add`, `findInterval`, `joinAdjacentIntervals`, `isContainedWithin`, encode | `GtidIntervals` |
| Final statement | `FinalTableFineTuner.java` | none | drop the keys that are not unique | no, see below |
| Helpers | `iohelper`, `uniformlog`, `timed`, `colormod`, `semaphore` | none that matters | | reading of `.ddl` files in `SchemaTrace`; the rest is logging, the semaphore is unused |
| Deprecated fetcher | `src/deprecated` | | | no: not built |
| Third-party code | boost, MySQL connector, Druid, canal, OTTER | | | no: used through the calls above |

### How the parts interact

`main` runs on one thread. It asks the JVM for the GTID package, lets the
MySQL client library write the log of source 0 to a file, calls the Java
splitter on it, marks source 0 as finished, and does the same for source 1.
Inside the splitter three parties run concurrently: the thread that reads
events, the four threads of `executor` and the one of `backWriteExecutor`.
They communicate by two blocking queues, by `procResult`, and by two
unsynchronised maps. Then `WorkLoader` lists the tables by their directories
and `Worker` rebuilds them one by one, still on the main thread; each finished
table is posted to `pusherPool`, whose threads share the `SQLPool`. `~Worker`
joins the pool before `~Module` deletes it. Files and marks survive a death of
the process, and so does what was committed to the target.

### What is hard

- Pointers without owners: `rows`, every index's `hash` and `idxInsideTable`
  refer to the same rows, and `doRowReplace` deletes one of them in the middle
  of a walk over the others.
- Order: rows arrive file by file and source by source; the result must be
  that of the logs. The splitter parses events in parallel.
- Sequences of ALTERs, which change what a row's key is.
- Barriers in the splitter that some statements slip past and that give up
  after an hour, and maps used by two threads.
- Two sources, of which only the first one's statements and counts are read.
- Deaths between writing a file and marking it, with counts of an earlier run
  left on disk, and partial pushes.
- Errors that are printed and forgotten (a Java exception, a refused batch),
  and exceptions that end the splitter in the middle of its log.
- Three text encodings, none the exact inverse of another.

`PROJECT.json` lists each hazard at its line with the properties that cover it.

### What makes each part correct

- Table: no slot or index holds a deleted row; index and slots agree; each row
  has a datum for each column; of the rows of one key, the one that no other
  supersedes is kept.
- SubWorker: `result.csv` has, per key, the row logged last; it ends.
- Splitter: each row is written once, in log order, to the file of the schema
  it was logged under; it ends, and leaves no thread behind.
- Files of two sources: a row that a table has at the end is read once, in
  order, by a table of the version it was logged under; no row of a dropped
  table comes back.
- Statement text: the table has the columns and keys of the source.
- Row text: a value arrives as it was, or for a named reason it does not.
- GTID sets: the source is told exactly the transactions that were given.
- Pipeline: a mark stands for whole files; after any deaths, a run that ends
  leaves each table of the target with every row once; connections are used by
  one thread at a time, and their number is bounded.

## 2. Modules

| Module | What it is |
|---|---|
| `RowOrder` | the precedence of `UniqueIndex::checkRow`: date, then source, then stamp |
| `LastWriteWins` | abstract: a table is, per key, the version no other one offered supersedes; rows are offered (`Offer`), or compete again under another key (`Regroup`) or with another date (`Redate`) |
| `UniqueTable` | the table, one action per call; `reCompute` row by row, `dropColumn` index by index |
| `SubWorker` | extends `UniqueTable` with the order of the calls, the sort and the dump |
| `SchemaTrace` | extends `UniqueTable` with the source's schema and the statements on their way to the table |
| `Splitter` | abstract: events dealt with one after another |
| `EventDealer` | the splitter's concurrent parties, for one source |
| `TwoSources` | the files of both sources, from their logs to the works, with deaths while splitting |
| `RowText` | one row as text, from the source to the target |
| `GtidIntervals` | a set of transactions as lists of intervals |
| `Pipeline` | the program from fetch to push, with deaths and restarts |
| `MC...` | values for TLC |
| `SequenceFacts` | lemmas on sequences, concatenations of sequences and ranges |
| `UniqueTableProofs`, `RebuildProofs` | proofs about the table, and about the two modules that extend it, `SubWorker` and `SchemaTrace` |
| `EventDealerProofs`, `TwoSourcesProofs`, `PipelineProofs`, `GtidProofs`, `RowTextProofs` | proofs about the module of that name |

A definition introduced by "Wrong:" is a plausible mistake in the one that
follows it. No specification uses it; `PROJECT.json` names, for each property
of each run, one such mistake that makes TLC find the property violated.

A type invariant is stated where a proof rests on one: in `UniqueTable`,
`Pipeline` and `GtidIntervals` as `TypeOK`, in `EventDealerProofs` and
`TwoSourcesProofs` as `TypeInv`;
elsewhere the comments at `VARIABLES` say what a variable holds.

### UniqueTable and the code

| Variable | Code |
|---|---|
| `column` | every `ColumnDescriptor`, by `mapping`; its length is `colPhy` |
| `colDes`, `updCol` | the same members of `Table` |
| `heap`, `freed` | rows allocated with `new`, and those passed to `delete` |
| `rows`, `indexs` | the same members; a pointer to a row is its position in `heap`, 0 is `nullptr` |
| `stamp` | `SubWorker::work`'s array |
| `pc`, `at`, `pos`, `dropping` | where a call that takes several steps stands |
| `covered` | history: the rows that competed under the present key |

`CreateTable`, `AddColumn`, `ChangeColumn`, `AddUniqueIndex`,
`DropUniqueIndex`, `DropColumn` and `InsertRow` are the calls. `ScanRow` is one
turn of `reCompute`'s loop and has one disjunct per outcome of `checkRow`
(`ScanFirst`, `ScanNewer`, `ScanStale`). `DropFromIndex` and `DropFinish` are
`dropColumn`'s loop and its end. `Fail` is an uncaught exception, a null
pointer (`updCol`) or `erase(end())` (`NoTempIndex`): the process ends.

Abstractions: a column's value is a number that keeps the order of the
strings; the hash is any function `HashOf`, so collisions are instances; the
types of columns are left out, since only the sort reads them; statements are
those a MySQL server accepts. A descriptor or index that is deleted is not
tracked, only rows are.

### SubWorker

`Trace`, `ReadRow`, `EndOfFile`, `Sort` and `Dump` follow `work()` line by
line; `turn` says what comes next. The sort may produce any order with the
empty slots first, or none at all: the code sorts by column texts, or not at
all for a two-column key of other types. Parsing all rows of a file before
inserting them is one step per row here, since parsing changes nothing but the
stamp, which nothing else reads in between. A second CREATE TABLE of the same
name is refused, as in `Trace`.

### SchemaTrace

`cols` and `keys` are the source's schema, changed by each statement as MySQL
changes it; the table's schema is `UniqueTable`'s, changed as the statement
reads once `DDLCompatWriter` has written it and `Statement::getStatement` and
`fillToTable` have read it. A `Log...` action is one statement on its whole
way: what the writer drops (further items of an ALTER, FIRST, the position of
a CHANGE, a key at its column) is not in the call of the table's operation. A
name in backquotes is another name to the table (`Quote`), and the action says
for each statement whether they are stripped. A unique key that its statement
does not name has the name the server gives it in `keys`, and in the file the
empty one, if it came with CREATE TABLE (`KeyText`), or none at all: the writer
throws (`LogAddKey`). `LogCreateIndex` and `LogDropIndex` are the statements of
that name, which the splitter passes by. `met` is history: which of the
statement forms with consequences the log has had so far. Rows are left out.

### EventDealer

| Variable | Code |
|---|---|
| `pc`, `after` | the main thread in `dealEvent`, `writeBack`, `waitIt`, `closeAll` |
| `executors`, `limit` | the tasks of each `executor`, those given up on included, and the queue's length (40, then 20) |
| `procResult` | the futures not handed over |
| `backs` | the batches of each `backWriteExecutor`, the first one running |
| `live` | which of the current executors has threads and was not shut down |
| `state`, `writer` | `tableAlterStateLookup`, and the writer of each table: absent, open, closed |
| `files` | the rows in each `<state>.dat` |
| `known` | the tables of Druid's `SchemaRepository` |
| `hours` | how often `awaitTermination` gave up |
| `unparsed`, `overrun` | rows whose task threw; history: rows in flight when a barrier was given up |

Rows are numbered by their place in the log, so that order and loss can be
seen. A statement of any kind may be `quiet`: its text contains "create" (a
name such as `created_at`, a comment), and it passes no barrier (`Barrier`,
`EventDealer.java:118`). A CREATE TABLE is quiet by itself. A barrier
(`AwaitTasks`, `AwaitBatches`) waits for its executor or gives up; the executor
given up on works on beside its successor.

Statements the splitter does not handle (DROP TABLE, RENAME TABLE, others) are
`NotHandled`: only Druid's repository may learn of them (`Learnt`). RENAME
TABLE, and ALTER TABLE ... RENAME, which opens a file under the old name, change
the name that the rows have from then on (`to`). A row whose name has no writer
is a NullPointerException that ends the back-writer's task, and with it the
rest of the batch (`LostBatch`). DROP DATABASE closes the writers one by one,
those of all databases, and then forgets those of its own (`CloseOne`,
`Forget`); after a quiet one the back-writer writes between these steps.

A statement ends `doSplit` if Druid refuses it (`unread`), or if
`DDLCompatWriter` throws for it (`fails`: an unnamed ADD UNIQUE, another
constraint, no items), which is after the file of the new state was opened
(`WriteDDLCompat`). `resize` is the time in which `HashMap.put` moves its
buckets and a concurrent lookup may return null. A writer that is never closed
keeps an unknown prefix.

### TwoSources

| Variable | Code |
|---|---|
| `log`, `dealt` | the log of each source, and how far this run has got |
| `state`, `open` | `tableAlterStateLookup` of this run, and the tables whose writers it has open |
| `counted` | the tables whose `cnt.txt` this run has written |
| `ddl`, `dat`, `cnt` | the files `<state>.ddl`, `<state>.dat` and `cnt.txt` on disk |
| `stem` | what `path::stem()` makes of each table's path |
| `works` | `Worker::works`: directory and `stateCount` |
| `current`, `at`, `version` | the work, its state, and how many ALTERs its table went through |
| `read` | history: the rows each work took in, and the table's version then |

`Deal` is `EventDealer` one event at a time. `Forget` closes the writers of all
databases, and a row of another database is refused until its table's next
statement (`WriteRow`). `CountTable` is one turn of `closeAll`'s first loop and
`CloseAll` the rest of it; a table that was dropped by DROP TABLE is an
exception there. After any exception (`Thrown`) the files that are open keep
what was written of them. `Mark` comes after all this as a step of its own, so
that `Crash` finds the process at any point up to it: in the log, between two
counts, in the midst of one, or before the mark. A death puts `dealt`, `state`,
`open` and `counted` back to the start; log, files and counts stay, and the
next run deals with the same events again, and with new ones behind them. So a
`cnt.txt` may be of a run that died, for a table that the longer log drops.

`LoadWorks` reads the count of source 0; where there is none the count is any
value of `Garbage`, as an `int` nobody has set. An ALTER has no content: what
counts is how many of them a table went through; one that `DDLCompatWriter`
throws for leaves an empty file, at which `Trace` fails. Names do not change
here, and no row is overtaken: the rows `EventDealer` calls astray are left to
it.

### RowText

One row on its whole way: `Convert` and `ParseOneRow` write the line,
`ParseChar` is one turn of `parseEscaped`'s loop (`i`, `cur` and `vec` are its
`i`, `curPos` and result), `Widened` is a later ADD COLUMN, `Dumped` and
`QuotedToStream` are `dumpToFile`, `NullPut` is `pushFromFile`'s textual
replacement, and the target's reading of the VALUES list, which is MySQL's, is
modelled from how the code quotes. Characters that no encoding treats
specially are one character, "x"; the seven of `_NUll_&` are one, `Marker`.
Both encoders put a backslash before one character (`Escaped`), a double quote
in one (`Convert`), an apostrophe in the other (`QuotedToStream`).

### GtidIntervals

`pc` says whether the constructor reads, or `add` searches or inserts. `l`,
`p`, `r`, `v` and `uuid` are the variables of `add` and `findInterval`;
positions are counted from 1. `Probe` is one turn of the search, `EndAdd` is
the rest of `add` with `joinAdjacentIntervals`. `given`, `repeated` and
`touching` are history. `Package` is `getCommandPackage` without the bytes.

### Pipeline

Each of `bin`, `dat` and `csv` is absent, cut, whole, or (a `result.csv` from
an incomplete split) short. `finished` is the set of marks, 2 standing for
`evokeFetchAll`. `lingering` says that a splitter that failed left threads in
the JVM, for which `DestroyJVM` waits for ever. `step`, `sent` and `held` are a
Pusher's progress and its connection; `Connecting` is the time between
`poolMutex.unlock()` and the end of `driver->connect`. `main`'s objects are
destroyed one after another (`Destructors`): `~Worker` joins the pool
(`JoinPushers`), then `~Module` deletes the `SQLPool` (`DeletePool`), with
steps of the Pushers in between. `Crash` is any death,
uncaught exceptions included: what is on disk and on the target stays and the
program starts again. The reliability of the disk after a power failure is not
modelled.

## 3. Runs

| Run | Instance | Shows |
|---|---|---|
| `table_alters` | tables with one key, none, two, without `updated_at`, of two columns; ALTERs of `v` and `updated_at`; a key on `v` to add; 2 rows, 4 columns | the structural invariants at every step of every call, and that no row is lost but to a newer one of its key |
| `table_last_write` | 3 rows, 3 columns, values 0 and 1, two sources, tables without a key of three columns and of two, and one without `updated_at`; ALTERs of `v` and of `updated_at`; the hash is the digit sum, so that keys collide. DEFAULTs are left to `row_text` and to the proof, which has any | `UniqueTable` implements `LastWriteWins` |
| `work_states` | 3 states, 3 rows, two sources; tables with one key, none, two, one column, no `updated_at` | `CsvIsLastLogged` through ALTERs, dump included; the SubWorker ends |
| `schema_trace` | four CREATEs, 5 columns, each statement with and without backquotes, at each position, with one item or two, keys with and without names, inside ALTER or as statements apart | the columns and keys of the table are the source's and the process goes on, or a statement had one of the named forms |
| `split_all` | two databases of one table each, statements of ten forms, 6 events and faults together, at most three statements and two faults | refinement of `Splitter` up to the first row astray, order, accounting of lost rows, no thread left, termination |
| `two_sources` | two tables of two databases, with names that collide or not, 5 events; one table, 8 events; one death at any step up to the mark | what is read of the files, at which version, in which order |
| `row_text` | three columns, all texts of one special character and seven pairs, three DEFAULTs, complete and incomplete row images | which values arrive |
| `gtid_adds` | two servers, seven texts, four calls, transactions 1 to 7 | the lists stand for what was given; the search; inclusion |
| `pipeline` | tables of two, one and no batches, two threads, two faults (deaths or refusals) | marks, the target's content, the connection pool, the end |
| `drop_key_column` | violation | finding 1 |
| `several_keys` | violation | finding 2 |
| `gtid_contained` | violation | finding 3 |

**Bounds.** Two sources are the code's own number. Two rows are enough for a
key to be contested; the third lets the winner be contested again, in another
order, and lets a slot freed by one replacement be passed by another row. Two
values give equal and different keys and dates. A fourth column lets a dropped
column come back as a new physical one; the fifth of `schema_trace` makes room
for a second item. After `MaxMet` + 1 of the forms the writer mishandles a log
of `schema_trace` ends: one lets every statement follow it, two meet.

In the splitter, 2 threads, queues of 2 and 1, and batches of 2 make every
queue full and every batch cross a statement within 6 events; the code's 4,
40, 20 and 40 only make that rarer. `ResizeAt = {2}` stands for the 13th key
of a `HashMap`. The forms are CREATE, ALTER (quiet or not, changing the name or
not), one the writer throws for, RENAME, DROP TABLE, DROP DATABASE and one Druid
refuses (each of the two quiet or not); what the run leaves out is a quiet
RENAME or DROP TABLE, which does nothing to the writers in either form, and the
other combinations, which the proofs have. `MaxEvents` bounds events and faults
together, so that logs without a fault are the longest, and `MaxQueries` the
statements in a log; two faults (`MaxFaults`) let both barriers of one statement
give up, or one give up while a row fails.

In `two_sources`, a table needs eight events to be created, filled, altered or
dropped with its database and created again at one source while the other has
it, which logs about one table have (`MCMaxEvents`); so do an old count, a drop,
a new table and what its count would hide. Five are enough for two tables to get
in each other's way, and for DROP DATABASE to close the writer of the other. One
death is enough: what a second run finds is the files of any prefix of the log,
and the counts of any part of its tables, and so does a third. `Garbage` is less
than, equal to and more than the number of states. `Width` 3 of `row_text` has a
first, a middle and a last column; the decoder's state is its position and
column, and pairs cover each case in which a character bears on the next one.
Seven transactions let two additions close a gap and join three intervals.

In `pipeline` two faults allow a death during the recovery from another, or a
refusal before or after a death; tables of two, one and no batches are cut
before, between and after them; the third table waits for a thread.

`MaxRows`, `MaxCols`, `MaxMet`, `MaxEvents`, `MaxQueries`, `MaxFaults`,
`MaxCrashes`, `Top` and `MaxCalls` are the only bounds on behaviour.

**Deadlock** is not checked: every one of these programs stops. That they stop
only where they should is what `WorkEnds`, `Terminates`, `Ends`, `AddEnds`,
`FailsUncounted`, `EndsForAReason` and `RefusedForAReason` say.

**Fairness.** SubWorker is one sequential loop: weak fairness of its next step
says that the loop runs on. The splitter's main thread, its executor and its
back-writer, and each Pusher, are threads of a JVM or of a `thread_pool`,
scheduled by the system whenever they can run: weak fairness each. No thread
waits for a lock that another one takes again and again, so strong fairness is
not needed. A call of `GtidSet.add`, once begun, runs on. Nothing is assumed of
deaths, of refusals, of hours that pass, or of the log's length but the bounds.
`TwoSources`, `SchemaTrace` and `RowText` have no liveness property and no
fairness.

### Findings

1. `UniqueIndex::deleteCol` (`table.cpp:332`) recomputes an index it has just
   left without columns: every row then has the same hash, and all but one are
   dropped before `dropColumn` deletes the index. `design.txt:33` has it
   recompute only an index that was not deleted.
2. `Table::insertRows` (`table.cpp:78`) throws on a table with several unique
   keys; `design.txt:15` and `:44` describe a list of them, each of which a row
   is checked against.
3. The constructor of `UUIDSet` (`GtidSet.java:219`) joins intervals around the
   first one only, so a text of three intervals without gaps stays a list of
   two that touch, and `isContainedWithin` denies inclusions that hold;
   `GtidSet.java:305-306` promises the answer for every set. No server writes
   such a text, and the program calls neither with one.

### What the properties except

Some properties name what keeps them from holding without condition. These are
things the code does today; no document promises otherwise, so they are
exceptions and not findings. Without any one of them TLC finds the property
violated, but for the statements of several items in `KeysFollow`: the item that
is left out only adds a column in `SchemaTrace`, and could add or drop a key.

- `RowsAccounted`, `SequentialSplit`: a statement that is no barrier, on the
  row's table or DROP DATABASE of any database, overtook the row (`Overtaken`);
  DROP DATABASE of another database had closed its writer (`WriterClosed`); a
  `HashMap` was rehashed under the back-writer (`Rehashed`); there was no writer
  for its table's name, after a RENAME or a quiet DROP DATABASE (`Nameless`), or
  for that of a row in front of it in its batch (`LostWith`); the row could not
  be parsed (`unparsed`), or a barrier gave up while it was in flight
  (`overrun`).
- `NothingLingers`: a statement that is no barrier and for which Druid or
  `DDLCompatWriter` throws.
- `EveryRowRead`, `ReadAtItsVersion`, `NoneComesBack`, `ReadInOrder`: DROP
  TABLE, which the splitter does not handle (`DroppedAlone`); a table whose
  count the run that came to the mark did not write, be it that nobody wrote
  one or that a run did that died after `closeAll` (`Counts`); a source 1 with
  other statements, more states or fewer. `EveryRowRead` also: a writer that
  DROP DATABASE of another database closed (`Refused`), a splitter that threw
  (`ThrewAt`), names that collide in `stem()`.
- `FailsUncounted`: a table without any count; a statement on it that could not
  be written down (`fails`).
- `ColumnsFollow`, `KeysFollow`, `EndsForAReason`: statements with several
  items, FIRST, moves by CHANGE, keys at their column, prefix keys, backquotes
  in ALTERs and key names, unique keys without a name, CREATE INDEX and DROP
  INDEX as statements of their own, second keys, statements not handled.
- `ArrivesAsWritten`, `NeverOutside`, `RefusedForAReason`: a backslash or a
  line break in a value, the text of the NULL marker, a value that the table
  keeps as the text of a DEFAULT standing for something else (a NULL is kept as
  the marker), a column added late without DEFAULT.
- `MarkedIsWhole`, `TargetIsWhole`: a splitter whose exception was described
  and forgotten (`swallowed`), a statement the target refused (`refused`).
- `Ends`: the hang in `~JVMConn` after a splitter failed (`lingering`).
  `NothingLingers` says after which statement a splitter leaves threads.

## 4. Proofs

Each theorem holds for every value of the constants that satisfies the module's
assumptions, bounds included; TLC evaluates those assumptions on each run.

**UniqueTable** (`UniqueTableProofs`), for any columns, keys, values, hash
function and CREATE statements:

| Theorem | States |
|---|---|
| `TypeCorrect` | `Spec => []TypeOK` |
| `NoUseAfterDelete` | `Spec => []SlotsExact` |
| `OneRowPerKey` | `Spec => []HashExact` |
| `RowsCoverTheColumns` | `Spec => []DataAligned` |
| `SeveralKeysHoldNoRow` | `Spec => []OneIndexWithRows` |
| `TempCoversTheRow` | `Spec => []TempIsWholeRow` |

Of these, the second to the fifth are not inductive alone. That a replacement overwrites the
right slot (`SlotsExact`) needs the index entry to be the row of that slot
(`HashExact`); that the key of a row can be computed at all needs its data to
reach every column (`DataAligned`); that one index is enough to find every
holder of a row needs that there is no second one once there are rows
(`OneIndexWithRows`). Their conjunction with `TypeOK` is `IndInv`, and
`NextKeepsIndInv` has one step per action. During `reCompute` the invariant
speaks of the slots the scan has passed (`Visited`); `PassSafe` shows that a
scan step extends it by one slot, and `TakeOver` that a replacement, in a scan
or an insert, keeps it. `SequenceFacts` has the lemmas on `Append`,
`RemoveAt`, `InsertAt` and `Range` they rest on. `TempCoversTheRow` has an
invariant of its own, `TempInv`: `TempFits` says what the temporary index
covers in the midst of `dropColumn` too, and `ColumnsOnce`, that no column of
the table is listed twice, keeps a column that was dropped out of it.

**Last write wins** (`UniqueTableProofs`), under the same assumptions:

| Theorem | States |
|---|---|
| `NewestRowsSurvive` | `Spec => []NewestSurvives` |
| `TableIsLastWriteWins` | `Spec => LastWriteWins` |

`NewestSurvives` rests on `IndInv` and on `OrderInv`, which adds to it that the
rows of a source have stamps in the order they were read (`StampsRise`), that
every row that competed has a date (`Dated`) and that no two rows of the table
have one key between calls (`KeysApart`). From the first of these two rows are never
equal, so `Supersedes` is a strict total order on what was offered, and a row
that loses to a row that loses is superseded by the winner. While `reCompute`
runs, a row it has not reached is its own representative. For the refinement,
`Judged` says of each step that `covered` maps to an `Offer`, a `Regroup`, a
`Redate` or is left as it is; that `table` is `Newest` of it is `NewestSurvives`
with `KeysApart`. The mapping is the one TLC checks.

**SubWorker** (`RebuildProofs`), under the same assumptions and for any
number of states:

| Theorem | States |
|---|---|
| `ResultIsLastLogged` | `WorkSpec => []CsvIsLastLogged` |

As long as the table is built, `WorkSpec`'s steps are `Spec`'s or leave the
table alone, and `IndInv /\ OrderInv` carries over; with rising stamps "newest"
is "last in the logs" (`NewestIsLast`). The sort moves rows between slots
without a regard for the index, so from there on `HashExact` is lost; `Dumpable`
is what remains (no row twice in the slots, `LastLogged`), and each slot gives
one line of `result.csv`.

**EventDealer** (`EventDealerProofs`), for any number of threads, batches,
queue lengths, events and faults:

| Theorem | States |
|---|---|
| `TypeAndPlace` | `Spec => [](TypeInv /\ PlaceInv)`: types, and that a row that is written goes to the newest file of its table |
| `NoExecutorLeftBehind` | `Spec => []NothingLingers` |
| `RowsInOrderOfTheLog` | `Spec => []WrittenInOrder` |
| `EveryRowAccounted` | `Spec => []RowsAccounted` |
| `SplitsLikeTheSequentialOne` | `Spec => SequentialSplit` |

`LiveInv` follows the executors through the phases of `closeAll`: which of them
may still have threads at which `pc`. `OrderInv` says that what waits to be
written is in the order of the log, in each `backWriteExecutor`'s queue
(`Queue`, its batches end to end) and in `procResult` behind it, and above what
the files have; only rows that a barrier left behind (`overrun`) are out of
order, and no row is in two places (`Numbered`). `Accounted` counts: the state
of a table and whether its writer is there and open are those that the
statements dealt with give (`StatesInv`, `WritersInv`), a row is waiting, in the
file of the state it was logged under, or lost for one of the named reasons
(`SettledInv`), and a row that waits was read since the last barrier, with only
quiet statements behind it, or was left behind (`FlightInv`). A row of a name
without a writer takes the rest of its batch along; that those rows were read
shortly after it, with no barrier in between, is `BatchInv`: a batch has
neighbours among the rows, `BatchSize` at most. That no other reason exists is
the content of the theorem; the proof has a step for each way in which a row
stops waiting.

For the refinement of `Splitter`, `SplitFiles` is read with what each table is
still owed (`Owed`, its rows in flight, in order). `DealRows` puts a row at the
end of what its table is owed and is `Splitter`'s write; `WriteNext` moves the
first of it from the owed to the file, which changes nothing
(`WriteNextSplits`, with `ThreeInARow` for the list that is cut in two). That
nothing is owed to a table when its file is opened, or to any when a database is
dropped, is what the barriers are for (`OpeningOwesNothing`); where the
statement is none, a row still owed is astray. That every row that waits will go
where the newest file of its table is, is in `Straight`. `NoneAstray'` in the
property makes the step's end the point up to which all went well; `overrun`,
`unparsed` and the log only grow, so it went well before too.

**TwoSources** (`TwoSourcesProofs`), for any tables, databases and names that
`stem()` may make, any logs a server can have, and any number of deaths:

| Theorem | States |
|---|---|
| `FilesAreOfTheLog` | `Spec => [](TypeInv /\ FilesInv)`: what the files have |
| `CountedWorksSucceed` | `Spec => []FailsUncounted` |
| `RowsMeetTheirVersion` | `Spec => []ReadAtItsVersion` |
| `DroppedRowsStayDropped` | `Spec => []NoneComesBack` |
| `RowsComeInOrder` | `Spec => []ReadInOrder` |
| `AllRowsAreRead` | `Spec => []EveryRowRead` |

`FilesInv` is where the argument lies. For each source and table, `Files` says
of the files up to the table's state what the log up to the event dealt with
last makes of them: one file per statement, in the log's order; each row between
the statement of its file and the next; no statement missing since the table was
created, and no row that was not refused, unless a DROP TABLE came in between.
`Well` adds that the table's writer is open or rows are refused, and that files
of later states, which other runs left, are of statements on the table too: all
that an old count relies on. So a death is a step to no events and no states
(`NoneDealt`). `Well` is stated of a log and two lists of files, so that each
kind of event has a lemma about lists (`WellOpened`, `WellWritten`,
`WellRefused`, `WellForgotten`, `WellAside`, `FileCut` for an exception) and the
actions only apply them. That each row finds a file of its table needs
`LegalInv`: a server carries out nothing on a table it does not have.

The end of a splitter is followed by three invariants more. `DealtInv`: a source
that is over was dealt with to its end. `ThrowInv`: an exception has a cause in
the log. `CountInv`: a `cnt.txt`, whoever wrote it, never says more files than
there are, which is why a SubWorker with an old count finds its statements
(`FailsUncounted`); those of this run are of its states, and all of them are
written unless it threw. The five together are `SplitInv`.

From there on the files stand still (`FinalFiles`). `WorksInv` has the works'
directories and counts. `ProgressInv` ties a SubWorker's version to the
statement of the file it is at; that it equals the version the log gives a row
of that file is `VersionInFile`, since no statement lies between the two. For
source 1 the statements of source 0 are carried out: `AlikeVersions` shows that
with the same statements (`Same`, a bijection in order) the i-th file has the
same version at both. `ReadInv` says which file each row came from, `WholeInv`
that no row of a file that is past is missing.

**SchemaTrace** (`RebuildProofs`), for any names, quotes, schemas and
sequences of statements:

| Theorem | States |
|---|---|
| `TableFollowsColumns` | `TraceSpec => []ColumnsFollow` |
| `TableFollowsKeys` | `TraceSpec => []KeysFollow` |
| `OnlyOdditiesEnd` | `TraceSpec => []EndsForAReason` |

The three rest on one invariant, `TraceInv`, since a name that is found keeps
the process alive and the process that is alive keeps the names. The properties
speak of the time between two calls; `TraceInv` speaks of the middle of a
DROP COLUMN too, when the source has dropped the column and the table has it
still (`Left`, `Leaving`) and the indexes up to `pos` have been swept
(`IndexInv`). `ColumnsFollow` says nothing once a column was moved, yet the
names have to be the source's from there on, or a later statement that finds
no column would end the process without a reason: so `NamesKept` asks for the
same names in any order where `OrderKept` asks for the same list. `KeysKept`
has one direction of the correspondence (`TableKeys \subseteq keys`) where a
key was written at its column, which the writer leaves out, and both where none
was; of neither after the other oddities of keys (`KeyOddities`: without a name,
apart, in backquotes). Keys are compared as kinds and sets of columns, not by
name. That `updated_at` is always found is `UpdatedAtInv`; it rests on
`UpdatedAtAssumption`, which the code takes for granted of every table
(`design.txt:9`, `table.cpp:32`). Each statement has a lemma that gives the
table's columns and indexes after it, and the recomputation that follows
changes neither.

**Pipeline** (`PipelineProofs`), for any finite set of tables, any number of
threads, of batches per table and of faults:

| Theorem | States |
|---|---|
| `PipelineTypes` | `Spec => []TypeOK` |
| `MarksHold` | `Spec => []MarkedIsWhole` |
| `ConnectionsNotShared` | `Spec => []OneUserPerConnection` |
| `FewConnections` | `Spec => []ConnectionsBounded` |
| `PoolOutlivesPushers` | `Spec => []WorkerFinalizesFirst` |
| `EndsWithWholeTables` | `Spec => []TargetIsWhole` |

`IndInv` is `TypeOK /\ MarkInv /\ WorkInv /\ PoolInv /\ CountInv`. `MarkInv`
adds what the files are between fetch and mark, and `Phase`, without which
`source` could leave its range. `WorkInv` has each table in one place only:
to do, current, posted or pushed, and no Pusher queued or running once the join
is over (`Quiet`), which is what `PoolOutlivesPushers` needs of the order of the
destructors. `PoolInv` says where a connection can be.
The bound on connections is a count: each one made is held, or free, or
was kept by a finished Pusher, and one is made only while none is free or
while another thread holds what was (`CountInv`); `NoneFree` is the step in
which a Pusher finds none. For `EndsWithWholeTables`, `FilledInv` says, of a run
in which no exception was swallowed, that each table is to do, current or with
a Pusher (`Placed`), that a table with a Pusher has a whole `result.csv`
(`Written`, for which the marks have to come in order, `MarksInOrder`, so that
the work starts on whole files), and that the target has exactly the batches
its Pusher has sent or had a statement refused (`Pushed`).

**GtidIntervals** (`GtidProofs`), for any texts in order and any number of
servers and calls:

| Theorem | States |
|---|---|
| `GtidTypes` | `Spec => []TypeOK` |
| `NothingForgotten` | `Spec => []TellsWhatWasGiven` |
| `IntervalsInOrder` | `Spec => []ListInOrder` |
| `SearchFinds` | `Spec => []PlaceIsRight` |
| `AddAnswers` | `Spec => AddTellsNew` |
| `ContainmentIsSubset` | `Spec => []ContainedIsSubset` |

`PlaceIsRight` speaks of the end of the search; `Searching`, the loop's
invariant (all before `l` is below the transaction, all from `r` on above, and
`p` is next to where they meet), makes it inductive. With the place right,
`PlacedFacts` (a new interval) and `GrownFacts` (one that grows by one) say
that the list has one member more and stays in order but perhaps for a gap at
that place, and `AdjacentKeeps` that joining there restores the gap and
changes no member. `ContainmentIsSubset` follows from `ListInOrder`: between
two intervals that are apart there is a number in neither, so an interval that
is covered is covered by one (`Contained`).

**RowText** (`RowTextProofs`), for any number of columns above two, any texts
and any DEFAULT clauses, where its ten named characters differ from one another:

| Theorem | States |
|---|---|
| `DecodesInside` | `Spec => []NeverOutside` |
| `RefusedOnlyForAReason` | `Spec => []RefusedForAReason` |
| `RowArrives` | `Spec => []ArrivesAsWritten` |

A text is read character by character, so the invariants say, at each turn of
the two loops, that what has been read of a column and what is still ahead in
the line make the text of that column: there is a `w` such that `vec[cur] \o w`
is that text, and the line from `i` on is `w` with its escapes, the closing
quote, and the columns after it (`Parsing` for `parseEscaped`, `InText` for the
target; `AtValue` and `AtComma` stand between two values). A character read
takes the first of `w` (`ReadEscaped`, `OneOver`). The line lacks the comma
after the last column; `Ahead` puts it back, so that the last column is no case
of its own. `DecodeInv` is that for every row without a backslash and a line
break, which is enough for `DecodesInside`; `ArrivalInv` goes on to the target
and needs the marker to be alone in its text (`Unmarked`), for only then is
`replace_all` without effect inside of a value (`QuotedFacts`). Both start from
`GivenInv`, that the row and its event do not change. That what was read is the
row as it was written (`GotIsWritten`) takes the exceptions of
`ArrivesAsWritten`; that the INSERT is read to its end does not.

**Only model-checked:** the three violations, which are about instances, and
liveness (`WorkEnds`, `Terminates`, `Ends`, `AddEnds`): neither fairness nor
ENABLED is in the prover's reach. Induction is: the theorems of `NaturalsInduction` cannot be used, since they take the formula as
a parameter, but where the proofs need what a recursive function computes
(`FlattenSeq`, in `SequenceFacts`), they take the least number at which the
claim fails.

## 5. Not modelled

- `FinalTableFineTuner`: a function on Druid's syntax tree that removes the
  keys that are not unique from the target's table and returns an empty text.
- Row deletes: `RowParser` parses a deleted row and writes nothing; a row
  deleted at the source stays in the target.
- Tables created before the position the log starts from, and statements whose
  table name is qualified with another database than the session's: every
  table of the models is created in the log, in its own database.
- Column types and the order `std::sort` establishes.
- The MySQL protocol, the JVM and the file system as such; `Logger`'s readable
  logs, which nothing calls; `Timed`, `UniformLog`, `ColorMod`; `Semaphore`,
  which nothing uses; `src/deprecated`, which is not built.
- Third-party code. It is nearly all of the repository, so the share of lines
  the models cover is small however much of the program they cover.

## 6. Plan

Done: all components that keep state; proofs about the table, the SubWorker,
the schema's way to the table, the text of a row, the splitter and its files,
the GTID sets and the pipeline: each invariant that a run checks is a theorem,
and both refinements are. Left:

1. A run of `SchemaTrace` with rows, in which a value is followed from its
   column at the source to its column in `result.csv`.
