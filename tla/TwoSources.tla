----------------------------- MODULE TwoSources -----------------------------
(***************************************************************************)
(* The files of two sources, from the logs to the tables: each source is   *)
(* split in turn into <table>/<source>/<state>.dat and .ddl (EventDealer), *)
(* WorkLoader makes works of the directories, and each SubWorker carries   *)
(* out the statements of source 0 with the rows of both.                   *)
(*                                                                         *)
(* The process may die until a source is marked FINISHED and be run again, *)
(* on what is left on disk: the log, longer by now or not, is dealt with   *)
(* from its start.  A splitter that throws is marked like one that does    *)
(* not (callMethod only prints the exception).                             *)
(*                                                                         *)
(* A splitter deals with an event before the next, which EventDealer shows *)
(* of it but for the rows it calls astray.  Names do not change here.      *)
(* What statements and rows do to a table is in UniqueTable.  An ALTER has *)
(* no content: the i-th one of a table is the same at both sources.        *)
(*                                                                         *)
(* A definition under "Wrong:" is a plausible mistake in the one after it, *)
(* which no specification uses.                                            *)
(***************************************************************************)
EXTENDS Integers, FiniteSets, SequencesExt

CONSTANTS
  Table,
  Database,
  DbOf,      \* the database of each table
  Stems,     \* what stem() may make of the tables' names
  Garbage,   \* what an int may hold that nobody has set
  MaxEvents, \* bound on the events of both logs, by names and tables they are about
  MaxCrashes \* bound on the deaths while splitting

ASSUME TwoSourcesAssumption ==
  /\ DbOf \in [Table -> Database]
  /\ Stems \subseteq [Table -> Table]
  /\ Garbage \subseteq Int
  /\ MaxEvents \in [Stems -> [SUBSET Table -> Nat]] /\ MaxCrashes \in Nat

Source == {0, 1}

(* No value in a lookup; no number in a file, or no file.                  *)
Absent == -1

(* What Druid cannot parse, and an ALTER that DDLCompatWriter cannot write *)
(* down.                                                                   *)
Throwing == {"unread", "fails"}

(* What the splitter opens a file for.                                     *)
Opening == {"create", "again", "alter", "fails"}

Kind == {"create", "again", "alter", "rows", "dropTable", "dropDb"} \cup Throwing

VARIABLES
  stem,     \* what stem() makes of each table's path
  pc,
  source,   \* the source that is split, and then read
  log,      \* the events of each source; a row or a statement is its place
  dealt,    \* how many of them the last run has dealt with
  state,    \* tableAlterStateLookup of that run
  open,     \* the tables whose writers it has open
  counted,  \* those whose count it has written
  ddl, dat, \* the files of each source and table, by state
  cnt,      \* cnt.txt of each source and table
  works,    \* the directory of each work, and its stateCount
  current,  \* the work a SubWorker is on
  at,       \* its state
  version,  \* the ALTERs its table went through, Absent for no table
  read,     \* history: the rows each work took in, and the table's version then
  crashes

splitter  == <<dealt, state, open, counted>>
splitting == <<log, splitter, ddl, dat, cnt>>
working   == <<works, current, at, version, read>>
vars == <<stem, pc, source, splitting, working, crashes>>

Nothing == [t \in Table |-> Absent]

Init ==
  /\ stem \in Stems
  /\ pc = "split" /\ source = 0
  /\ log = [s \in Source |-> <<>>]
  /\ dealt = [s \in Source |-> 0] /\ state = [s \in Source |-> Nothing]
  /\ open = [s \in Source |-> {}] /\ counted = open
  /\ ddl = [s \in Source |-> [t \in Table |-> <<>>]] /\ dat = ddl
  /\ cnt = [s \in Source |-> Nothing]
  /\ works = <<>> /\ current = {} /\ at = 0 /\ version = Absent
  /\ read = [n \in Table |-> <<>>] /\ crashes = 0

-----------------------------------------------------------------------------
(* What a source had on a table, up to a place in its log.                 *)

Touches(e, t) == e.table = t \/ (e.kind = "dropDb" /\ DbOf[e.table] = DbOf[t])

(* Where the table was last created or dropped.                            *)
Begun(s, t, place) ==
  LET ends == {p \in 1..place : Touches(log[s][p], t)
                                /\ log[s][p].kind \in {"create", "dropTable", "dropDb"}}
  IN  IF ends = {} THEN 0 ELSE Max(ends)

Exists(s, t, place) ==
  LET p == Begun(s, t, place) IN p > 0 /\ log[s][p].kind = "create"

VersionAt(s, t, place) ==
  Cardinality({p \in Begun(s, t, place)+1 .. place :
                 log[s][p].table = t /\ log[s][p].kind = "alter"})

(* The rows of the table as it is now.                                     *)
Living(s, t) ==
  {p \in Begun(s, t, Len(log[s]))+1 .. Len(log[s]) :
     log[s][p].table = t /\ log[s][p].kind = "rows"}

Gone(s, t) == ~Exists(s, t, Len(log[s]))

-----------------------------------------------------------------------------
(* EventDealer, one event at a time.                                       *)

Legal(e) ==
  LET has(t) == Exists(source, t, Len(log[source]))
  IN  CASE e.kind = "create" -> ~has(e.table)
        [] e.kind = "dropDb" -> \E t \in Table : DbOf[t] = DbOf[e.table] /\ has(t)
        [] e.kind = "unread" -> TRUE
        [] OTHER -> has(e.table)

(* Wrong: a file that was there keeps what it had.                         *)
OpenedAtEnd(files, n, new) == IF n < Len(files) THEN files ELSE Append(files, new)

(* A file of state n that was there before is emptied.                     *)
Opened(files, n, new) ==
  IF n < Len(files) THEN [files EXCEPT ![n + 1] = new] ELSE Append(files, new)

(* CREATE TABLE, also if the table exists ("again"), and ALTER TABLE.      *)
UpdateTableWriter(t, place) ==
  /\ state' = [state EXCEPT ![source][t] = @ + 1]
  /\ open' = [open EXCEPT ![source] = @ \cup {t}]
  /\ ddl' = [ddl EXCEPT ![source][t] = Opened(@, state'[source][t], place)]
  /\ dat' = [dat EXCEPT ![source][t] = Opened(@, state'[source][t], <<>>)]

(* Wrong: only the writers are dropped.                                    *)
StateKept(t) == state[source][t]

StateDropped(t) == Absent

(* DROP DATABASE closes the writers of all databases; files stay.          *)
Forget(d) ==
  /\ state' = [state EXCEPT ![source] =
                 [t \in Table |-> IF DbOf[t] = d THEN StateDropped(t) ELSE @[t]]]
  /\ open' = [open EXCEPT ![source] = {}]
  /\ UNCHANGED <<ddl, dat>>

(* A row its table's writer takes; the exception of a closed one is caught.*)
WriteRow(t, place) ==
  /\ dat' = IF t \in open[source]
            THEN [dat EXCEPT ![source][t][state[source][t] + 1] = Append(@, place)]
            ELSE dat
  /\ UNCHANGED <<state, open, ddl>>

(* DROP TABLE is not handled.                                              *)
DealWith(e, place) ==
  \/ e.kind \in Opening /\ UpdateTableWriter(e.table, place)
  \/ e.kind = "dropDb" /\ Forget(DbOf[e.table])
  \/ e.kind \in {"dropTable", "unread"} /\ UNCHANGED <<state, open, ddl, dat>>
  \/ e.kind = "rows" /\ WriteRow(e.table, place)

About(logs) == UNION {{e.table : e \in Range(logs[s])} : s \in Source}

(* An event that is in the log from an earlier run, or a new one.          *)
Deal ==
  LET place == dealt[source] + 1
  IN  /\ pc = "split" /\ dealt' = [dealt EXCEPT ![source] = place]
      /\ \/ place <= Len(log[source]) /\ UNCHANGED log
         \/ /\ place = Len(log[source]) + 1
            /\ \E e \in [kind : Kind, table : Table] :
                 Legal(e) /\ log' = [log EXCEPT ![source] = Append(@, e)]
            /\ Len(log'[0]) + Len(log'[1]) <= MaxEvents[stem][About(log')]
      /\ DealWith(log'[source][place], place)
      /\ pc' = IF log'[source][place].kind \in Throwing THEN "thrown" ELSE "split"
      /\ UNCHANGED <<stem, source, counted, cnt, working, crashes>>

(* waitIt, then closeAll.                                                  *)
EndOfLog ==
  /\ pc = "split" /\ dealt[source] = Len(log[source])
  /\ pc' = "count"
  /\ UNCHANGED <<stem, source, splitting, working, crashes>>

Kept == {t \in Table : state[source][t] # Absent}

(* Wrong: the number of the last state is written.                         *)
LastState(n) == n

Counted(n) == n + 1

(* closeAll's first loop.                                                  *)
CountTable(t) ==
  /\ pc = "count" /\ t \in Kept \ counted[source]
  /\ cnt' = [cnt EXCEPT ![source][t] = Counted(state[source][t])]
  /\ counted' = [counted EXCEPT ![source] = @ \cup {t}]
  /\ UNCHANGED <<stem, pc, source, log, dealt, state, open, ddl, dat, working, crashes>>

(* The others.  A table that was dropped by DROP TABLE is a                *)
(* NullPointerException.                                                   *)
CloseAll ==
  /\ pc = "count" /\ Kept \subseteq counted[source]
  /\ pc' = IF \E t \in Kept : Gone(source, t) THEN "thrown" ELSE "mark"
  /\ UNCHANGED <<stem, source, splitting, working, crashes>>

(* An exception leaves the open files as far as they were written; here    *)
(* nothing of them was, or all.                                            *)
Thrown ==
  /\ pc = "thrown" /\ pc' = "mark"
  /\ \/ UNCHANGED dat
     \/ dat' = [dat EXCEPT ![source] =
                   [t \in Table |-> IF t \in open[source]
                                    THEN [@[t] EXCEPT ![state[source][t] + 1] = <<>>]
                                    ELSE @[t]]]
  /\ UNCHANGED <<stem, source, log, splitter, ddl, cnt, working, crashes>>

(* evokeFetch marks the source, and goes on to the next.                   *)
Mark ==
  /\ pc = "mark"
  /\ IF source = 0 THEN source' = 1 /\ pc' = "split" ELSE source' = 0 /\ pc' = "load"
  /\ UNCHANGED <<stem, splitting, working, crashes>>

(* The process dies; a source that is marked is not split again.  What was *)
(* in a buffer is lost, but the next run writes every file it opens anew.  *)
(* The count that closeAll was about to write may be lost as well.         *)
Crash ==
  /\ pc \in {"split", "count", "thrown", "mark"} /\ crashes < MaxCrashes
  /\ pc' = "split" /\ crashes' = crashes + 1
  /\ dealt' = [dealt EXCEPT ![source] = 0]
  /\ state' = [state EXCEPT ![source] = Nothing]
  /\ open' = [open EXCEPT ![source] = {}]
  /\ counted' = [counted EXCEPT ![source] = {}]
  /\ \/ UNCHANGED cnt
     \/ /\ pc = "count"
        /\ \E t \in Kept \ counted[source] : cnt' = [cnt EXCEPT ![source][t] = Absent]
  /\ UNCHANGED <<stem, source, log, ddl, dat, working>>

-----------------------------------------------------------------------------
(* WorkLoader.                                                             *)

Directory(t) == \E s \in Source : ddl[s][t] # <<>>

(* Wrong: the larger count counts.                                         *)
EitherCount(t) == Max({cnt[0][t], cnt[1][t]})

(* loadTable reads the count of source 0.                                  *)
CountOf(t) == cnt[0][t]

(* directory_iterator has no order: of the directories that make the same  *)
(* name the last one stays.                                                *)
LoadWorks ==
  /\ pc = "load"
  /\ \E last \in [{stem[t] : t \in {u \in Table : Directory(u)}} -> Table],
        unset \in Garbage :
       /\ \A n \in DOMAIN last : Directory(last[n]) /\ stem[last[n]] = n
       /\ works' = [n \in DOMAIN last |->
                      [dir |-> last[n],
                       count |-> IF CountOf(last[n]) = Absent THEN unset ELSE CountOf(last[n])]]
  /\ pc' = "work"
  /\ UNCHANGED <<stem, source, splitting, current, at, version, read, crashes>>

-----------------------------------------------------------------------------
(* Worker and SubWorker.                                                   *)

BeginWork(n) ==
  /\ pc = "work" /\ current = {} /\ n \in DOMAIN works
  /\ current' = {n} /\ at' = 0 /\ version' = Absent
  /\ pc' = "state"
  /\ UNCHANGED <<stem, source, splitting, works, read, crashes>>

Dir(n) == works[n].dir

(* Statement::getStatement throws when there is no file, or an empty one;  *)
(* Trace refuses a second CREATE.                                          *)
Trace(n) ==
  LET kind == log[0][ddl[0][Dir(n)][at + 1]].kind
      there == at < Len(ddl[0][Dir(n)]) /\ kind # "fails"
  IN  /\ pc = "state" /\ n \in current /\ at < works[n].count
      /\ \/ ~there /\ pc' = "failed" /\ UNCHANGED <<source, version>>
         \/ /\ there
            /\ version' = CASE kind = "alter" -> version + 1
                             [] kind # "alter" /\ at = 0 -> 0
                             [] OTHER -> version
            /\ pc' = "rows" /\ source' = 0
      /\ UNCHANGED <<stem, splitting, works, current, at, read, crashes>>

(* The rows of one source; a file that is not there has none.              *)
InsertRows(n) ==
  LET files == dat[source][Dir(n)]
      places == IF at < Len(files) THEN files[at + 1] ELSE <<>>
  IN  /\ pc = "rows" /\ n \in current
      /\ read' = [read EXCEPT ![n] = @ \o
                    [k \in DOMAIN places |-> [table |-> Dir(n), source |-> source,
                                             place |-> places[k], version |-> version]]]
      /\ IF source = 0 THEN source' = 1 /\ UNCHANGED <<pc, at>>
         ELSE source' = 0 /\ pc' = "state" /\ at' = at + 1
      /\ UNCHANGED <<stem, splitting, works, current, version, crashes>>

(* optimizeTableForDump takes a table for granted.                         *)
EndWork(n) ==
  /\ pc = "state" /\ n \in current /\ at >= works[n].count
  /\ IF version = Absent THEN pc' = "failed" /\ UNCHANGED <<works, current>>
     ELSE pc' = "work" /\ current' = {} /\ works' = [m \in DOMAIN works \ {n} |-> works[m]]
  /\ UNCHANGED <<stem, source, splitting, at, version, read, crashes>>

Done ==
  /\ pc = "work" /\ DOMAIN works = {}
  /\ pc' = "done"
  /\ UNCHANGED <<stem, source, splitting, working, crashes>>

Next ==
  \/ Deal \/ EndOfLog \/ (\E t \in Table : CountTable(t)) \/ CloseAll \/ Thrown \/ Mark
  \/ Crash \/ LoadWorks
  \/ \E n \in Table : BeginWork(n) \/ Trace(n) \/ InsertRows(n) \/ EndWork(n)
  \/ Done

Spec == Init /\ [][Next]_vars

-----------------------------------------------------------------------------
(* What holds of the files.                                                *)

(* What the log may hold that the files do not bear: a table that is       *)
(* dropped by DROP TABLE.                                                  *)
DroppedAlone(s, t) == \E p \in DOMAIN log[s] : log[s][p] = [kind |-> "dropTable", table |-> t]

(* A statement the splitter throws an exception for.                       *)
ThrewAt(s, p) == log[s][p].kind \in Throwing

(* The states of the table that the run which came to the mark counted: no *)
(* more than a cnt.txt of a run before it says.                            *)
Count(s, t) == IF t \in counted[s] THEN cnt[s][t] ELSE Absent

(* Whether source 0 has the table at the end: else nobody wrote the count, *)
(* or a run that died between closeAll and the mark, before the table was  *)
(* dropped.                                                                *)
Counts(t) == Count(0, t) # Absent

(* The statements of a source that bear on the table, by their places.     *)
Statements(s, t) == {p \in DOMAIN log[s] : Touches(log[s][p], t) /\ log[s][p].kind # "rows"}

(* Both sources had the same statements on the table, in the same order.   *)
Same(t) ==
  \E h \in Bijection(Statements(1, t), Statements(0, t)) :
    \A p, q \in Statements(1, t) : /\ log[0][h[p]].kind = log[1][p].kind
                                   /\ p < q => h[p] < h[q]

(* A row is taken in by a table that went through the same ALTERs as the   *)
(* row's own when it was logged, so that its values are of the table's     *)
(* columns: although only the statements of source 0 are read, and files   *)
(* of other runs and dropped databases lie about.                          *)
ReadAtItsVersion ==
  \A n \in Table : \A k \in DOMAIN read[n] :
    LET r == read[n][k]
    IN  \/ r.version = VersionAt(r.source, r.table, r.place)
        \/ ~Counts(r.table) \/ DroppedAlone(0, r.table)
        \/ r.source = 1 /\ ~Same(r.table)

(* DROP DATABASE of another database had closed the writer, and no         *)
(* statement of the table opened one since.                                *)
Refused(s, t, place) ==
  \E p \in 1..place :
    /\ log[s][p].kind = "dropDb" /\ DbOf[log[s][p].table] # DbOf[t]
    /\ \A q \in p..place : log[s][q].table = t => log[s][q].kind \notin Opening

(* Every row that a table of a source has at the end is read for it.  Lost *)
(* are those that were refused, those of a table that source 0 lacks, of   *)
(* states source 0 did not come to, of a table whose name is made of two   *)
(* directories, and of a splitter that threw an exception.                 *)
EveryRowRead ==
  pc = "done" =>
    \A s \in Source, t \in Table :
      \/ \A p \in Living(s, t) :
           \/ Refused(s, t, p)
           \/ \E k \in DOMAIN read[stem[t]] :
                LET r == read[stem[t]][k] IN r.table = t /\ r.source = s /\ r.place = p
      \/ Count(s, t) > Count(0, t)
      \/ \E u \in Table \ {t} : stem[u] = stem[t] /\ Directory(u)
      \/ \E u \in Table : DroppedAlone(s, u)
      \/ \E p \in DOMAIN log[s] : ThrewAt(s, p)

(* No row comes back from a table that was dropped: but by DROP TABLE, or  *)
(* when source 1 leaves files of states it did not come to again.          *)
NoneComesBack ==
  \A n \in Table : \A k \in DOMAIN read[n] :
    LET r == read[n][k]
    IN  \/ r.place \in Living(r.source, r.table)
        \/ ~Counts(r.table) \/ DroppedAlone(r.source, r.table)
        \/ Count(r.source, r.table) < Count(0, r.table)

(* A work takes in the rows of a source once, in the order of its log: the *)
(* stamps SubWorker counts depend on it.  A second run of the splitter     *)
(* leaves none twice.                                                      *)
ReadInOrder ==
  \A n \in Table : \A j, k \in DOMAIN read[n] : j < k =>
    LET q == read[n][j] r == read[n][k]
    IN  \/ q.source # r.source \/ q.place < r.place
        \/ ~Counts(r.table) \/ Count(r.source, r.table) < Count(0, r.table)

(* A SubWorker finds each statement and has a table at the end, whatever   *)
(* happened at the sources, if there is a count, be it of a run that died: *)
(* unless a statement on the table could not be written down.              *)
FailsUncounted ==
  pc = "failed" => \A n \in current :
    cnt[0][Dir(n)] = Absent \/ [kind |-> "fails", table |-> Dir(n)] \in Range(log[0])
=============================================================================
