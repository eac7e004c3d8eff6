---------------------------- MODULE EventDealer ----------------------------
(***************************************************************************)
(* Splitting the log of one source into files (EventDealer.java, driven by *)
(* CanalSplitter.doSplit).                                                 *)
(*                                                                         *)
(* Three parties run concurrently.  The main thread deals with one event   *)
(* after another: a row event becomes a task of `executor', whose futures  *)
(* it collects in procResult; a statement changes the tables' writers.     *)
(* The executor's threads turn row events into text.  The thread of        *)
(* backWriteExecutor takes one batch of futures after another, waits for   *)
(* each and writes its text through the table's writer.  Most statements   *)
(* are a barrier: main first waits for both executors to run dry.          *)
(*                                                                         *)
(* A barrier waits an hour and then goes on: the executor it gave up on    *)
(* finishes its tasks beside the one that replaces it, and so does the     *)
(* back-writer.                                                            *)
(*                                                                         *)
(* Some statements make the splitter throw: then doSplit ends without      *)
(* closeAll.  The source starts empty, and the log is all that happened.   *)
(*                                                                         *)
(* A row is its place in the log.  A definition under "Wrong:" is a        *)
(* plausible mistake in the one after it, which no specification uses.     *)
(***************************************************************************)
EXTENDS Integers, FiniteSets, SequencesExt

CONSTANTS
  Table,
  Database,
  DbOf,        \* the database of each table
  Statement,   \* the statements the log may hold
  Threads,     \* threads of executor
  FirstLimit,  \* length of its queue, before and
  LaterLimit,  \* after the first barrier
  BackLimit,   \* length of the queue of backWriteExecutor
  BatchSize,   \* futures that make a batch
  ResizeAt,    \* sizes at which a HashMap outgrows its buckets: 13, 25, 49...
  MaxFaults,   \* bound on the hours that pass and the rows not parsed
  MaxQueries,  \* bound on the statements in the log
  MaxEvents    \* bound on the length of the log and the faults together

(* CREATE TABLE, IF NOT EXISTS or not; ALTER TABLE, one that renames the   *)
(* table or one ("fails") that DDLCompatWriter throws an exception for: an *)
(* unnamed ADD UNIQUE, another constraint without columns, no item at all; *)
(* DROP TABLE, RENAME TABLE and others of no effect on the writers; DROP   *)
(* DATABASE; and what Druid cannot parse.                                  *)
Kind == {"create", "alter", "fails", "dropTable", "rename", "other", "dropDb", "unread"}

ASSUME EventDealerAssumption ==
  /\ DbOf \in [Table -> Database]
  /\ Statement \subseteq [kind : Kind, quiet : BOOLEAN]
  /\ {Threads, FirstLimit, LaterLimit, BackLimit, BatchSize} \subseteq Nat \ {0}
  /\ ResizeAt \subseteq Nat
  /\ {MaxEvents, MaxQueries, MaxFaults} \subseteq Nat

Absent == -1

VARIABLES
  pc,          \* what the main thread does
  after,       \* what it does once procResult is handed over
  log,         \* history: the events it has read
  exists,      \* history: the tables the source has then
  executors,   \* the tasks not finished, oldest first, of each executor; the
               \* last one is the current one
  limit,       \* length of the queue of executor
  procResult,  \* EventDealer.procResult
  backs,       \* the batches of each backWriteExecutor, the first one in progress
  live,        \* whose current executor has threads and is not shut down
  state,       \* tableAlterStateLookup
  writer,      \* tableWriterLookup
  files,       \* what was passed to the writer of <state>.dat, by table and state
  known,       \* tables of the SchemaRepository
  hours,       \* barriers given up
  unparsed,    \* rows whose task ended with an exception
  overrun      \* history: rows in flight when a barrier was given up

queues == <<executors, limit, procResult, backs, live>>
tables == <<state, writer, files, known>>
faults == <<hours, unparsed, overrun>>
vars   == <<pc, after, log, exists, queues, tables, faults>>

Init ==
  /\ pc = "deal" /\ after = "deal"
  /\ log = <<>> /\ exists = {}
  /\ executors = << <<>> >> /\ limit = FirstLimit
  /\ procResult = <<>> /\ backs = << <<>> >> /\ live = {}
  /\ state = [t \in Table |-> Absent]
  /\ writer = [t \in Table |-> "none"]
  /\ files = [t \in Table |-> <<>>]
  /\ known = {}
  /\ hours = 0 /\ unparsed = {} /\ overrun = {}

(* One more task for the current executor.                                 *)
Submitted(pool, task) == [pool EXCEPT ![Len(pool)] = Append(@, task)]

(* Hours and exceptions so far.                                           *)
Faults == hours + Cardinality(unparsed)

-----------------------------------------------------------------------------
(* The main thread reads an event.  LimitedQueue makes submit wait while   *)
(* the queue is full.                                                      *)

BatchFull(results) == Len(results) >= BatchSize

DealRows(t) ==
  /\ pc = "deal" /\ Len(log) + Faults < MaxEvents
  /\ t \in exists
  /\ Len(Last(executors)) < limit + Threads
  /\ log' = Append(log, [kind |-> "rows", table |-> t, to |-> t, quiet |-> TRUE])
  /\ executors' = Submitted(executors, Len(log')) /\ live' = live \cup {"executor"}
  /\ procResult' = Append(procResult, Len(log'))
  /\ pc' = IF BatchFull(procResult') THEN "flush" ELSE "deal"
  /\ after' = "deal"
  /\ UNCHANGED <<exists, limit, backs, tables, faults>>

(* Wrong: a statement that changes a table does not wait for its rows.     *)
BarrierBeforeDrops(event) == ~event.quiet /\ event.kind # "alter"

(* A statement is a barrier unless its text contains "create": that makes  *)
(* CREATE TABLE quiet, and the statements of every other kind that name,   *)
(* say, created_at or a table of that name, or have it in a comment.       *)
Barrier(event) == ~event.quiet

(* Statements of table t, called `to' from now on.                         *)
Legal(kind, t, to) ==
  /\ kind \in {"alter", "fails", "dropTable", "rename"} => t \in exists
  /\ IF kind = "rename" \/ (kind = "alter" /\ t # to) THEN to \notin exists ELSE to = t

(* The tables the source has after a statement.                            *)
ExistAfter(kind, t, to) ==
  CASE kind \in {"create", "alter", "rename"} -> (exists \ {t}) \cup {to}
    [] kind = "dropTable" -> exists \ {t}
    [] kind = "dropDb" -> {u \in exists : DbOf[u] # DbOf[t]}
    [] OTHER -> exists

Queries == {i \in DOMAIN log : log[i].kind # "rows"}

DealQuery(kind, t, to, quiet) ==
  /\ pc = "deal" /\ Len(log) + Faults < MaxEvents /\ Cardinality(Queries) < MaxQueries
  /\ Legal(kind, t, to)
  /\ log' = Append(log, [kind |-> kind, table |-> t, to |-> to, quiet |-> quiet])
  /\ exists' = ExistAfter(kind, t, to)
  /\ pc' = IF Barrier(Last(log')) THEN "flush" ELSE "query"
  /\ after' = "query"
  /\ UNCHANGED <<queues, tables, faults>>

(* CanalSplitter has no more events: waitIt, then closeAll.                *)
DealEnd ==
  /\ pc = "deal"
  /\ pc' = "flush" /\ after' = "close"
  /\ UNCHANGED <<log, exists, queues, tables, faults>>

(* writeBack, which waits while the back-writer's queue is full.           *)
WriteBack ==
  /\ pc = "flush" /\ Len(Last(backs)) < BackLimit + 1
  /\ backs' = Submitted(backs, procResult) /\ procResult' = <<>>
  /\ live' = live \cup {"back"}
  /\ pc' = IF after = "deal" THEN "deal" ELSE "tasks"
  /\ UNCHANGED <<after, log, exists, executors, limit, tables, faults>>

(* Wrong: awaitTermination without the shutdown before it.                 *)
NotShutDown(executor) == live

(* shutdown: the threads end with the last task.                           *)
ShutDown(executor) == live \ {executor}

(* awaitTermination gives up after 60 minutes; nobody looks at its result. *)
Replaced(pool) == IF Last(pool) = <<>> THEN pool ELSE Append(pool, <<>>)

HourPasses == Faults < MaxFaults /\ Len(log) + Faults < MaxEvents

Await(pool) ==
  \/ Last(pool) = <<>> /\ UNCHANGED hours
  \/ Last(pool) # <<>> /\ HourPasses /\ hours' = hours + 1

(* shutdown and awaitTermination of executor, then of backWriteExecutor.   *)
AwaitTasks ==
  /\ pc = "tasks" /\ Await(executors)
  /\ executors' = Replaced(executors) /\ limit' = LaterLimit
  /\ live' = ShutDown("executor")
  /\ pc' = "batches"
  /\ UNCHANGED <<after, log, exists, procResult, backs, tables, unparsed, overrun>>

(* The rows not yet written, those handed over first in front.             *)
InFlight(pool) == FlattenSeq(FlattenSeq(pool)) \o procResult

AwaitBatches ==
  /\ pc = "batches" /\ Await(backs)
  /\ backs' = Replaced(backs) /\ live' = ShutDown("back")
  /\ overrun' = overrun \cup Range(InFlight(backs))
  /\ pc' = after
  /\ UNCHANGED <<after, log, exists, executors, limit, procResult, tables, unparsed>>

-----------------------------------------------------------------------------
(* The main thread carries out a statement (dealEventData).                *)

InQuery(kinds) == pc = "query" /\ Last(log).kind \in kinds

(* What the repository may know after a statement.  Whether it follows a   *)
(* change of a name is left to Druid.                                      *)
Learnt(event) ==
  LET t == event.table
  IN  CASE event.kind = "create" -> {known \cup {t}}
        [] event.kind = "dropTable" -> {known \ {t}}
        [] t # event.to /\ t \in known -> {known, (known \ {t}) \cup {event.to}}
        [] OTHER -> {known}

(* updateTableWriterAndDdlSql: the writer of the old state is closed...    *)
CloseWriter ==
  LET t == Last(log).table
  IN  /\ InQuery({"create", "alter", "fails"})
      /\ known' \in Learnt(Last(log))
      /\ state' = [state EXCEPT ![t] = @ + 1]
      /\ writer' = [writer EXCEPT ![t] = IF state[t] = Absent THEN @ ELSE "closed"]
      /\ pc' = "open"
      /\ UNCHANGED <<after, log, exists, queues, files, faults>>

(* What follows once the new writer is in its place: writeDDLCompat, whose *)
(* exception leaves doSplit.                                               *)
WriteDDLCompat == IF Last(log).kind = "fails" THEN "aborted" ELSE "deal"

(* ...and one on an empty file of the new state put in its place.  A new   *)
(* key may make the HashMap rehash.  Files of later states, from before a  *)
(* DROP DATABASE, stay on disk but are forgotten here: cnt.txt hides them. *)
OpenWriter ==
  LET t == Last(log).table
      keys == {u \in Table : writer[u] # "none"}
  IN  /\ pc = "open"
      /\ writer' = [writer EXCEPT ![t] = "open"]
      /\ files' = [files EXCEPT ![t] = Append(SubSeq(@, 1, state[t]), <<>>)]
      /\ pc' = IF t \notin keys /\ Cardinality(keys) + 1 \in ResizeAt
               THEN "resize" ELSE WriteDDLCompat
      /\ UNCHANGED <<after, log, exists, queues, state, known, faults>>

Resized ==
  /\ pc = "resize" /\ pc' = WriteDDLCompat
  /\ UNCHANGED <<after, log, exists, queues, tables, faults>>

(* "Not handled query!": only the repository learns of it.                 *)
NotHandled ==
  /\ InQuery({"dropTable", "rename", "other"})
  /\ known' \in Learnt(Last(log))
  /\ pc' = "deal"
  /\ UNCHANGED <<after, log, exists, queues, state, writer, files, faults>>

(* dropTableWriterAndDdlSql closes one writer after another, those of all  *)
(* databases...                                                            *)
DropDatabase ==
  /\ InQuery({"dropDb"})
  /\ pc' = "drop"
  /\ UNCHANGED <<after, log, exists, queues, tables, faults>>

CloseOne(t) ==
  /\ pc = "drop" /\ writer[t] = "open"
  /\ writer' = [writer EXCEPT ![t] = "closed"]
  /\ UNCHANGED <<pc, after, log, exists, queues, state, files, known, faults>>

(* ...and forgets those of the database.                                   *)
Forget ==
  LET Dropped(t) == DbOf[t] = DbOf[Last(log).table]
  IN  /\ pc = "drop" /\ \A t \in Table : writer[t] # "open"
      /\ writer' = [t \in Table |-> IF Dropped(t) THEN "none" ELSE writer[t]]
      /\ state' = [t \in Table |-> IF Dropped(t) THEN Absent ELSE state[t]]
      /\ pc' = "deal"
      /\ UNCHANGED <<after, log, exists, queues, files, known, faults>>

(* Druid cannot parse the statement: its exception leaves doSplit, and     *)
(* what the executors were left with goes on.                              *)
Unread ==
  /\ InQuery({"unread"})
  /\ pc' = "aborted"
  /\ UNCHANGED <<after, log, exists, queues, tables, faults>>

(* closeAll: writes finalTable.sql for each table, then closes the writers.*)
(* A table the repository does not have is a NullPointerException, and the *)
(* writers stay open: of what they hold, only a prefix is on disk.         *)
CloseAll ==
  /\ pc = "close"
  /\ \/ /\ \A t \in Table : state[t] # Absent => t \in known
        /\ pc' = "done"
        /\ writer' = [t \in Table |-> IF writer[t] = "none" THEN "none" ELSE "closed"]
     \/ /\ \E t \in Table : state[t] # Absent /\ t \notin known
        /\ pc' = "aborted" /\ UNCHANGED writer
  /\ UNCHANGED <<after, log, exists, queues, state, files, known, faults>>

Deal ==
  \/ \E t \in Table : DealRows(t)
  \/ \E s \in Statement, t, to \in Table : DealQuery(s.kind, t, to, s.quiet)
  \/ DealEnd

Main ==
  \/ Deal \/ WriteBack \/ AwaitTasks \/ AwaitBatches
  \/ CloseWriter \/ OpenWriter \/ Resized \/ NotHandled \/ Unread \/ CloseAll
  \/ DropDatabase \/ (\E t \in Table : CloseOne(t)) \/ Forget

-----------------------------------------------------------------------------
(* The executors: their threads hold the oldest tasks, and finish in any   *)
(* order, with a text or with an exception.                                *)

(* Wrong: a pool without core threads starts one when its queue is full.   *)
RunningOnceFull(i) == i <= Threads /\ Len(Last(executors)) > limit

Running(i) == i <= Threads

FinishTask ==
  /\ \E e \in DOMAIN executors : \E i \in DOMAIN executors[e] :
       /\ Running(i)
       /\ executors' = [executors EXCEPT ![e] = RemoveAt(@, i)]
       /\ \/ UNCHANGED unparsed
          \/ HourPasses /\ unparsed' = unparsed \cup {executors[e][i]}
  /\ UNCHANGED <<pc, after, log, exists, limit, procResult, backs, live, tables, hours, overrun>>

Done(row) == \A e \in DOMAIN executors : ~Contains(executors[e], row)

(* Wrong: the futures in the order in which they complete.                 *)
FirstDone(batch) ==
  IF \E i \in DOMAIN batch : Done(batch[i])
  THEN CHOOSE i \in DOMAIN batch : Done(batch[i]) /\ \A j \in 1..(i-1) : ~Done(batch[j])
  ELSE 1

(* The future the back-writer waits for.                                   *)
NextFuture(batch) == 1

(* Wrong: the exception of a task that failed ends the batch as well.      *)
RestOfNothing(batch, i) == <<>>

(* What is left of a batch once its i-th future was dealt with.            *)
RestOf(batch, i) == RemoveAt(batch, i)

(* The exception ends the back-writer's task; nobody asks for its future.  *)
LostBatch(bs) == Tail(bs)

WriteNext(b) ==
  /\ backs[b] # <<>> /\ Head(backs[b]) # <<>>
  /\ LET batch == Head(backs[b])
         i   == NextFuture(batch)
         row == batch[i]
         t   == log[row].table
         rest == [backs EXCEPT ![b][1] = RestOf(batch, i)]
     IN  /\ Done(row)
         /\ \/ /\ row \notin unparsed /\ writer[t] = "open"
               /\ files' = [files EXCEPT ![t][state[t] + 1] = Append(@, row)]
               /\ backs' = rest
            \/ /\ row \in unparsed \/ writer[t] = "closed"    \* caught
               /\ UNCHANGED files /\ backs' = rest
            \/ /\ row \notin unparsed
               /\ writer[t] = "none" \/ pc = "resize"   \* NullPointerException
               /\ UNCHANGED files /\ backs' = [backs EXCEPT ![b] = LostBatch(@)]
  /\ UNCHANGED <<pc, after, log, exists, executors, limit, procResult, live, state, writer, known, faults>>

NextBatch(b) ==
  /\ backs[b] # <<>> /\ Head(backs[b]) = <<>>
  /\ backs' = [backs EXCEPT ![b] = Tail(@)]
  /\ UNCHANGED <<pc, after, log, exists, executors, limit, procResult, live, tables, faults>>

BackWrite == \E b \in DOMAIN backs : WriteNext(b) \/ NextBatch(b)

-----------------------------------------------------------------------------
Next == Main \/ FinishTask \/ BackWrite

(* Threads of a JVM: each goes on while it can.  No event is owed: the log *)
(* is finite, and its end is always possible.                              *)
Fairness == WF_vars(Main) /\ WF_vars(FinishTask) /\ WF_vars(BackWrite)

Spec == Init /\ [][Next]_vars /\ Fairness

-----------------------------------------------------------------------------
(* What holds of the splitter.                                             *)

Rows == {i \in DOMAIN log : log[i].kind = "rows"}

(* Whatever the statements and the faults, the rows of a table are written *)
(* at most once, and in the order of the log, within a file and from file  *)
(* to file: one back-writer takes the futures in the order of their        *)
(* submission.  Only rows a barrier left behind fall out of that order.    *)
WrittenInOrder ==
  \A t \in Table :
    LET written == FlattenSeq(files[t])
    IN  \A i, j \in DOMAIN written : i < j =>
          /\ written[i] # written[j]
          /\ {written[i], written[j]} \cap overrun = {} => written[i] < written[j]

(* No thread of an executor is left behind to keep the JVM from ending     *)
(* (JVMConn::~JVMConn waits for all of them), unless the last statement    *)
(* was no barrier and Druid or DDLCompatWriter threw an exception for it.  *)
NothingLingers ==
  pc \in {"done", "aborted"} /\ live # {} =>
    Last(log).quiet /\ Last(log).kind \in {"unread", "fails"}

(* The rows of a table among others.                                       *)
RowsOf(t, rows) ==
  FlattenSeq([k \in DOMAIN rows |-> IF log[rows[k]].table = t THEN <<rows[k]>> ELSE <<>>])

(* What the sequential splitter would have written by now: the rows that   *)
(* wait in batches or in procResult are still to reach the newest files.   *)
SplitFiles ==
  [t \in Table |->
    IF state[t] = Absent THEN <<>>
    ELSE IF pc = "open" /\ t = Last(log).table THEN SubSeq(files[t], 1, state[t])
    ELSE Append(Front(files[t]), Last(files[t]) \o RowsOf(t, InFlight(backs)))]

Split == INSTANCE Splitter WITH length <- Len(log), files <- SplitFiles

(* The ways a row of a table that survives can be lost or misplaced.       *)
Changes(t, i) == log[i].table = t /\ log[i].kind \in {"create", "alter", "fails"}
DropsDb(d, i) == log[i].kind = "dropDb" /\ DbOf[log[i].table] = d

(* The row may still be in flight when the i-th event is dealt with.       *)
Near(row, i) == row < i /\ \A j \in (row + 1)..(i - 1) : log[j].quiet

(* A statement that is no barrier changed its table, or dropped a database *)
(* and closed every writer, while it may have been in flight.              *)
Overtaken(row) == \E i \in DOMAIN log :
  /\ Near(row, i) /\ log[i].quiet
  /\ Changes(log[row].table, i) \/ log[i].kind = "dropDb"

(* DROP DATABASE of another database had closed the writer for good.       *)
WriterClosed(row) == \E i \in 1..(row - 1) :
  /\ log[i].kind = "dropDb" /\ ~DropsDb(DbOf[log[row].table], i)
  /\ \A j \in (i + 1)..(row - 1) : ~Changes(log[row].table, j)

(* The statements that opened the files its table had after n events.      *)
Changed(t, n) ==
  {i \in 1..n : Changes(t, i) /\ \A k \in (i + 1)..n : ~DropsDb(DbOf[t], k)}

Keys(n) == {t \in Table : Changed(t, n) # {}}

Rehashed(row) == \E i \in DOMAIN log :
  /\ Near(row, i) /\ log[i].quiet /\ Changes(log[i].table, i)
  /\ Cardinality(Keys(i)) \in ResizeAt /\ Keys(i) # Keys(i - 1)

(* The file a row belongs to, counted from 1.                              *)
FileOf(row) == Cardinality(Changed(log[row].table, row - 1))

(* Its table had no writer, since the splitter does not follow changes of  *)
(* names, or lost it to a DROP DATABASE that is no barrier.                *)
Nameless(row) ==
  \/ FileOf(row) = 0
  \/ \E i \in DOMAIN log :
       Near(row, i) /\ log[i].quiet /\ DropsDb(DbOf[log[row].table], i)

(* Such a row takes those behind it in its batch along.                    *)
LostWith(row) == \E r \in 1..(row - 1) :
  /\ log[r].kind = "rows" /\ Nameless(r) /\ \A j \in r..row : log[j].quiet
  /\ Cardinality({j \in r..row : log[j].kind = "rows"}) <= BatchSize

(* What keeps a row from where it belongs.                                 *)
Astray(row) ==
  \/ Overtaken(row) \/ WriterClosed(row) \/ Rehashed(row)
  \/ Nameless(row) \/ LostWith(row)
  \/ row \in unparsed \/ row \in overrun

NoneAstray == \A row \in Rows : ~Astray(row)

(* The code implements the sequential splitter, step by step, whatever the *)
(* log, until one of the named causes leads a row astray.                  *)
SequentialSplit == Split!Init /\ [][NoneAstray' => Split!Next]_<<Len(log), SplitFiles>>

(* Once the splitter is done, every row of a table that was not dropped    *)
(* with its database is in the file of its state, unless                   *)
(*   - a statement that is no barrier, on its table or DROP DATABASE of    *)
(*     any database, overtook it,                                          *)
(*   - DROP DATABASE of another database had closed its writer,            *)
(*   - a HashMap rehashed under the back-writer,                           *)
(*   - there was no writer for its table's name, or for that of a row in   *)
(*     front of it in its batch,                                           *)
(*   - it could not be parsed, or a barrier left it behind.                *)
RowsAccounted ==
  pc = "done" =>
    \A row \in Rows :
      LET t == log[row].table
      IN  \/ \E i \in (row + 1)..Len(log) : DropsDb(DbOf[t], i)
          \/ Astray(row)
          \/ Contains(files[t][FileOf(row)], row)

(* The split comes to an end: neither the full queues nor the barriers can *)
(* leave the threads waiting for each other.                               *)
Terminates == <>(pc \in {"done", "aborted"})
=============================================================================
