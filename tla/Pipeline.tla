------------------------------ MODULE Pipeline ------------------------------
(***************************************************************************)
(* The whole program (main.cpp): the logs of both sources are fetched and  *)
(* split (ExternalFetcher), each table is rebuilt by a SubWorker on the    *)
(* main thread, and its result is pushed to the target by a Pusher on the  *)
(* threads of pusherPool, over connections from SQLPool.  The process may  *)
(* die at any time and be started again; the Logger's marks keep it from   *)
(* fetching and splitting a source twice.                                  *)
(*                                                                         *)
(* How a log is split and a table rebuilt is in EventDealer and SubWorker; *)
(* here a file is absent, cut short, or whole.  A definition under         *)
(* "Wrong:" is a plausible mistake in the one after it, which no           *)
(* specification uses.                                                     *)
(***************************************************************************)
EXTENDS Integers, FiniteSets, SequencesExt

CONSTANTS
  Table,
  Threads,     \* Config::pusher_threads
  BatchCount,  \* for each table, the batches of push_split_threshold rows that
               \* its result.csv makes
  MaxFaults    \* bound on the deaths of the process and the statements the
               \* target refuses

ASSUME PipelineAssumption ==
  /\ IsFiniteSet(Table)
  /\ Threads \in Nat \ {0} /\ BatchCount \in [Table -> Nat] /\ MaxFaults \in Nat

Source == {0, 1}

VARIABLES
  \* on disk
  finished,   \* the FINISHED marks
  bin,        \* the fetched log of each source
  dat,        \* the split log of each source
  csv,        \* result.csv of each table
  \* on the target
  target,     \* for each table, whether it exists and the batches it has
  \* the main thread
  pc, source,
  lingering,  \* whether threads of a splitter that failed live on in the JVM
  todo,       \* tables of WorkLoader not begun
  current,    \* table the SubWorker is on
  \* the pushers
  posted,     \* tables posted to pusherPool and not begun
  step,       \* where each table's Pusher stands
  sent,       \* batches it has sent
  sqlPool,    \* whether Module::sqlPool exists
  opened,     \* connections made, numbered from 1
  free,       \* SQLPool::availConnection
  held,       \* connection of each Pusher's SQLInstance, Connecting, or 0
  \* history
  swallowed,  \* sources whose split ended with an exception only described
  refused,    \* tables of which the target refused a statement
  crashes, refusals

disk    == <<finished, bin, dat, csv>>
main    == <<pc, source, lingering, todo, current>>
pool    == <<sqlPool, opened, free, held>>
pushers == <<posted, step, sent, pool>>
faults  == <<swallowed, refused, crashes, refusals>>
vars    == <<disk, target, main, pushers, faults>>

NoTable == [made |-> FALSE, from |-> "absent", rows |-> <<>>]

Fresh ==
  /\ pc' = "start" /\ source' = 0 /\ lingering' = FALSE /\ todo' = {} /\ current' = {}
  /\ posted' = <<>>
  /\ step' = [t \in Table |-> "idle"] /\ sent' = [t \in Table |-> 0]
  /\ sqlPool' = TRUE /\ opened' = 0 /\ free' = {} /\ held' = [t \in Table |-> 0]

Init ==
  /\ finished = {} /\ bin = [s \in Source |-> "absent"] /\ dat = [s \in Source |-> "absent"]
  /\ csv = [t \in Table |-> "absent"] /\ target = [t \in Table |-> NoTable]
  /\ pc = "start" /\ source = 0 /\ lingering = FALSE /\ todo = {} /\ current = {}
  /\ posted = <<>> /\ step = [t \in Table |-> "idle"] /\ sent = [t \in Table |-> 0]
  /\ sqlPool = TRUE /\ opened = 0 /\ free = {} /\ held = [t \in Table |-> 0]
  /\ swallowed = {} /\ refused = {} /\ crashes = 0 /\ refusals = 0

-----------------------------------------------------------------------------
(* ExternalFetcher.  A mark stands for source 0, source 1 or, 2, both.    *)
Both == 2

EvokeFetchAll ==
  /\ pc = "start"
  /\ pc' = IF Both \in finished THEN "jvm" ELSE "source"
  /\ UNCHANGED <<disk, target, source, lingering, todo, current, pushers, faults>>

(* evokeFetch skips a source with a mark; opening a file empties it.       *)
SkipSource ==
  /\ pc = "source" /\ source \in finished
  /\ source' = source + 1
  /\ UNCHANGED <<disk, target, pc, lingering, todo, current, pushers, faults>>

BeginFetch ==
  /\ pc = "source" /\ source \in Source \ finished
  /\ bin' = [bin EXCEPT ![source] = "cut"] /\ pc' = "fetch"
  /\ UNCHANGED <<finished, dat, csv, target, source, lingering, todo, current, pushers, faults>>

(* Wrong: the source is marked once its log is fetched.                    *)
MarkedEarly == finished \cup {source}

MarksAfterFetch == finished

(* dumpEventToFile returns, and the splitter opens the files it writes.    *)
EndFetch ==
  /\ pc = "fetch"
  /\ bin' = [bin EXCEPT ![source] = "whole"] /\ dat' = [dat EXCEPT ![source] = "cut"]
  /\ finished' = MarksAfterFetch
  /\ pc' = "split"
  /\ UNCHANGED <<csv, target, source, lingering, todo, current, pushers, faults>>

(* canalSplitOne returns.  An exception of its is described and forgotten, *)
(* and may leave the threads of its executors behind (EventDealer).        *)
EndSplit ==
  /\ pc = "split"
  /\ \/ /\ dat' = [dat EXCEPT ![source] = "whole"] /\ swallowed' = swallowed \ {source}
        /\ UNCHANGED lingering
     \/ /\ UNCHANGED dat /\ swallowed' = swallowed \cup {source}
        /\ lingering' \in {lingering, TRUE}
  /\ pc' = "mark"
  /\ UNCHANGED <<finished, bin, csv, target, source, todo, current, pushers, refused, crashes,
                 refusals>>

Mark ==
  /\ pc = "mark"
  /\ finished' = finished \cup {source} /\ source' = source + 1 /\ pc' = "source"
  /\ UNCHANGED <<bin, dat, csv, target, lingering, todo, current, pushers, faults>>

MarkBoth ==
  /\ pc = "source" /\ source = Both
  /\ finished' = finished \cup {Both} /\ pc' = "jvm"
  /\ UNCHANGED <<bin, dat, csv, target, source, lingering, todo, current, pushers, faults>>

(* ~JVMConn at the end of ExternalFetcher's life: DestroyJavaVM waits for  *)
(* every thread of the JVM but daemons.                                    *)
JvmEnds == ~lingering

DestroyJVM ==
  /\ pc = "jvm" /\ JvmEnds
  /\ pc' = "load"
  /\ UNCHANGED <<disk, target, source, lingering, todo, current, pushers, faults>>

Fetch ==
  \/ EvokeFetchAll \/ SkipSource \/ BeginFetch \/ EndFetch \/ EndSplit \/ Mark \/ MarkBoth
  \/ DestroyJVM

-----------------------------------------------------------------------------
(* WorkLoader and Worker.  A table has a directory once a splitter made    *)
(* one.                                                                    *)
LoadWorks ==
  /\ pc = "load"
  /\ \E ts \in SUBSET Table :
       /\ "whole" \in {dat[0], dat[1]} => ts = Table
       /\ todo' = ts
  /\ pc' = "work"
  /\ UNCHANGED <<disk, target, source, lingering, current, pushers, faults>>

(* A SubWorker opens result.csv for the table it rebuilds...               *)
BeginTable(t) ==
  /\ pc = "work" /\ t \in todo
  /\ todo' = todo \ {t} /\ current' = {t}
  /\ csv' = [csv EXCEPT ![t] = "cut"] /\ pc' = "dump"
  /\ UNCHANGED <<finished, bin, dat, target, source, lingering, pushers, faults>>

(* ...and posts a Pusher when it is written.                               *)
EndTable(t) ==
  /\ pc = "dump" /\ t \in current
  /\ current' = {} /\ pc' = "work"
  /\ csv' = [csv EXCEPT ![t] = IF dat = [s \in Source |-> "whole"] THEN "whole" ELSE "short"]
  /\ posted' = Append(posted, t) /\ step' = [step EXCEPT ![t] = "posted"]
  /\ UNCHANGED <<finished, bin, dat, target, source, lingering, todo, sent, pool, faults>>

(* Wrong: ~Module runs first, and ~Worker after it.                        *)
ModuleFirst == <<"delete", "join">>

(* main's block ends with ~Worker, main itself with ~Module.               *)
Destructors == <<"join", "delete">>

Then(destructor) == IF destructor = Head(Destructors) THEN Last(Destructors) ELSE "exit"

EndWork ==
  /\ pc = "work" /\ todo = {}
  /\ pc' = Head(Destructors)
  /\ UNCHANGED <<disk, target, source, lingering, todo, current, pushers, faults>>

(* Wrong: the wait is for every connection.                                *)
AllReturned == (\A t \in Table : step[t] \in {"idle", "done"}) /\ Cardinality(free) = opened

Joined == \A t \in Table : step[t] \in {"idle", "done"}

(* ~Worker joins pusherPool.                                               *)
JoinPushers ==
  /\ pc = "join" /\ Joined
  /\ pc' = Then("join")
  /\ UNCHANGED <<disk, target, source, lingering, todo, current, pushers, faults>>

(* ~Module deletes the SQLPool, and with it the connections that are free. *)
DeletePool ==
  /\ pc = "delete"
  /\ pc' = Then("delete") /\ sqlPool' = FALSE /\ free' = {}
  /\ UNCHANGED <<disk, target, source, lingering, todo, current, posted, step, sent, opened, held,
                 faults>>

Work ==
  \/ LoadWorks \/ (\E t \in Table : BeginTable(t) \/ EndTable(t))
  \/ EndWork \/ JoinPushers \/ DeletePool

-----------------------------------------------------------------------------
(* Pusher::push on a thread of pusherPool.                                 *)
Steps == {"schema", "create", "fill"}

Connecting == -1

BeginPush ==
  /\ posted # <<>> /\ Cardinality({t \in Table : step[t] \in Steps}) < Threads
  /\ step' = [step EXCEPT ![Head(posted)] = "schema"] /\ posted' = Tail(posted)
  /\ UNCHANGED <<disk, target, main, sent, pool, faults>>

(* Wrong: the connection stays in the list.                                *)
NotPopped(c) == free

Popped(c) == free \ {c}

(* getSQLInstance, under poolMutex: a free connection, or the resolve to   *)
(* make one.                                                               *)
GetInstance(t) ==
  /\ step[t] \in Steps /\ held[t] = 0
  /\ \/ free = {} /\ held' = [held EXCEPT ![t] = Connecting] /\ UNCHANGED free
     \/ \E c \in free : held' = [held EXCEPT ![t] = c] /\ free' = Popped(c)
  /\ UNCHANGED <<disk, target, main, posted, step, sent, sqlPool, opened, faults>>

(* driver->connect, with the mutex unlocked: a connection may have become  *)
(* free meanwhile.                                                         *)
Connect(t) ==
  /\ held[t] = Connecting
  /\ opened' = opened + 1 /\ held' = [held EXCEPT ![t] = opened']
  /\ UNCHANGED <<disk, target, main, posted, step, sent, sqlPool, free, faults>>

(* Wrong: the instance is never deleted.                                   *)
NotReturned(c) == free

(* ~SQLInstance.                                                           *)
Returned(c) == free \cup {c}

Delete(t) ==
  /\ free' = Returned(held[t]) /\ held' = [held EXCEPT ![t] = 0]
  /\ UNCHANGED <<sqlPool, opened>>

(* createDB and setSchema.                                                 *)
CreateSchema(t) ==
  /\ step[t] = "schema" /\ held[t] > 0
  /\ step' = [step EXCEPT ![t] = "create"] /\ Delete(t)
  /\ UNCHANGED <<disk, target, main, posted, sent, faults>>

(* A statement the target refuses is logged, and no more.                  *)
Refuse(t) ==
  /\ crashes + refusals < MaxFaults
  /\ refusals' = refusals + 1 /\ refused' = refused \cup {t}
  /\ UNCHANGED <<swallowed, crashes>>

(* Wrong: the table of an earlier run is kept.                             *)
KeptTable(t) == [target[t] EXCEPT !.made = TRUE]

(* DROP TABLE IF EXISTS, and the statement of finalTable.sql.              *)
NewTable(t) == [made |-> TRUE, from |-> csv[t], rows |-> <<>>]

CreateFinalTable(t) ==
  /\ step[t] = "create" /\ held[t] > 0
  /\ \/ target' = [target EXCEPT ![t] = NewTable(t)] /\ UNCHANGED faults
     \/ target' = [target EXCEPT ![t] = NoTable] /\ Refuse(t)
  /\ step' = [step EXCEPT ![t] = "fill"] /\ Delete(t)
  /\ UNCHANGED <<disk, main, posted, sent>>

(* Wrong: a last, empty batch.                                             *)
MoreOrEmpty(t) == sent[t] <= BatchCount[t]

More(t) == sent[t] < BatchCount[t]

(* pushFromFile: one batch is one INSERT and a commit.                     *)
FlushSQL(t) ==
  /\ step[t] = "fill" /\ held[t] > 0 /\ More(t)
  /\ sent' = [sent EXCEPT ![t] = @ + 1]
  /\ \/ /\ target[t].made
        /\ target' = [target EXCEPT ![t].rows = Append(@, sent'[t])] /\ UNCHANGED faults
     \/ target[t].made /\ UNCHANGED target /\ Refuse(t)
     \/ ~target[t].made /\ UNCHANGED <<target, faults>>
  /\ UNCHANGED <<disk, main, posted, step, pool>>

(* The instance of pushFromFile is never deleted.                          *)
EndPush(t) ==
  /\ step[t] = "fill" /\ held[t] > 0 /\ ~More(t)
  /\ step' = [step EXCEPT ![t] = "done"]
  /\ UNCHANGED <<disk, target, main, posted, sent, pool, faults>>

PushStep(t) ==
  \/ GetInstance(t) \/ Connect(t) \/ CreateSchema(t) \/ CreateFinalTable(t)
  \/ FlushSQL(t) \/ EndPush(t)

Push == BeginPush \/ \E t \in Table : PushStep(t)

-----------------------------------------------------------------------------
(* The process dies, of an uncaught exception or from outside, and is run  *)
(* again.  What was committed, marked or written stays.                    *)
Crash ==
  /\ crashes + refusals < MaxFaults /\ pc # "exit"
  /\ crashes' = crashes + 1 /\ refused' = {}
  /\ Fresh
  /\ UNCHANGED <<disk, target, swallowed, refusals>>

Next == Fetch \/ Work \/ Push \/ Crash

(* The main thread and the threads of the pool go on while they can; that  *)
(* no statement waits for ever is up to the target.                        *)
Fairness ==
  /\ WF_vars(Fetch \/ Work)
  /\ WF_vars(BeginPush)
  /\ \A t \in Table : WF_vars(PushStep(t))

Spec == Init /\ [][Next]_vars /\ Fairness

-----------------------------------------------------------------------------
(* What holds of the program.                                              *)

Extent == {"absent", "cut", "short", "whole"}

TypeOK ==
  /\ finished \subseteq Source \cup {Both} /\ swallowed \subseteq Source /\ refused \subseteq Table
  /\ bin \in [Source -> Extent] /\ dat \in [Source -> Extent] /\ csv \in [Table -> Extent]
  /\ target \in [Table -> [made : BOOLEAN, from : Extent, rows : Seq(Nat)]]
  /\ pc \in {"start", "source", "fetch", "split", "mark", "jvm", "load", "work", "dump",
             "join", "delete", "exit"}
  /\ source \in 0..Both /\ lingering \in BOOLEAN /\ todo \subseteq Table /\ current \subseteq Table
  /\ posted \in Seq(Table)
  /\ step \in [Table -> {"idle", "posted", "done"} \cup Steps]
  /\ sent \in [Table -> Nat] /\ \A t \in Table : sent[t] <= BatchCount[t]
  /\ sqlPool \in BOOLEAN /\ opened \in Nat /\ free \subseteq 1..opened /\ held \in [Table -> {Connecting} \cup 0..opened]
  /\ crashes \in Nat /\ refusals \in Nat /\ crashes + refusals <= MaxFaults

(* A mark means what find_log takes it for: that source's files are whole, *)
(* whenever the process dies; but for an exception of the splitter.        *)
MarkedIsWhole ==
  \A s \in finished \cap Source : s \in swallowed \/ (bin[s] = "whole" /\ dat[s] = "whole")

(* When the program ends, after whatever deaths, each table of the target  *)
(* has the rows of both sources once; but for what was only logged.        *)
TargetIsWhole ==
  pc = "exit" =>
    \/ swallowed # {}
    \/ \A t \in Table \ refused :
         target[t] = [made |-> TRUE, from |-> "whole", rows |-> [b \in 1..BatchCount[t] |-> b]]

(* A connection serves one Pusher at a time.                               *)
OneUserPerConnection ==
  \A t \in Table : held[t] > 0 =>
    /\ held[t] \notin free
    /\ \A u \in Table : held[u] = held[t] => u = t

(* A Pusher that is done has kept one connection, and no other is lost:    *)
(* the target sees one more for each table, however many threads push.     *)
ConnectionsBounded ==
  opened <= Cardinality({t \in Table : step[t] = "done"}) + Threads

(* "Worker should finalize first" (main.cpp:17): once the SQLPool is       *)
(* deleted no Pusher is queued or runs, so that none asks it for a         *)
(* connection or gives one back; whatever the threads of pusherPool were   *)
(* at when the destructors began.                                          *)
WorkerFinalizesFirst ==
  ~sqlPool => posted = <<>> /\ \A t \in Table : step[t] \notin Steps

(* The program ends if it does not die for ever; or it hangs in ~JVMConn,  *)
(* and then only because a splitter failed and left threads behind.        *)
Ends == <>(pc = "exit" \/ (pc = "jvm" /\ lingering))
=============================================================================
