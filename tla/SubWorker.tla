----------------------------- MODULE SubWorker -----------------------------
(***************************************************************************)
(* The rebuilding of one table (SubWorker::work): for each state of the    *)
(* table, the statement that leads to it and then the rows that source 0   *)
(* and source 1 wrote in it; at last the rows are sorted and written to    *)
(* result.csv, and a Pusher is posted.                                     *)
(*                                                                         *)
(* UniqueTable has the table and every call on it; this module has their   *)
(* order.  A row's place in heap is its place in what is read.             *)
(***************************************************************************)
EXTENDS UniqueTable

CONSTANT StateCount   \* WorkDescriptor::stateCount, from source 0's cnt.txt

ASSUME SubWorkerAssumption == Source = {0, 1} /\ StateCount \in Nat \ {0}

VARIABLES
  state,   \* the state being rebuilt
  turn,    \* what comes next
  csv      \* the rows written to result.csv

progress == <<state, turn, csv>>
workVars == <<vars, progress>>

WorkInit == Init /\ state = 0 /\ turn = "ddl" /\ csv = <<>>

GoTo(t) == turn' = t /\ UNCHANGED <<state, csv>>

-----------------------------------------------------------------------------
(* SubWorker::Trace.  The log starts with the table's CREATE TABLE.        *)
TraceCreate == state = 0 /\ \E s \in Creates : CreateTable(s)

(* Another CREATE TABLE is refused; AlterNothingStatement changes nothing. *)
TraceNothing == state > 0 /\ pc = "call" /\ UNCHANGED vars

TraceAlter == state > 0 /\ Alter

Trace == turn = "ddl" /\ (TraceCreate \/ TraceNothing \/ TraceAlter) /\ GoTo("first")

(* What a statement began runs to its end before a file is read.           *)
Finish == Recompute /\ UNCHANGED progress

-----------------------------------------------------------------------------
(* DATParser::parseData and Table::insertRows for one source; a source     *)
(* without a file for the state has no rows.  EscapedResolver divides by   *)
(* the number of columns less one.                                         *)
SourceOf(t) == IF t = "first" THEN 0 ELSE 1

ReadRow ==
  /\ turn \in {"first", "second"}
  /\ \/ Len(colDes) > 1 /\ \E vals \in [InTable -> Value] : InsertRow(SourceOf(turn), vals)
     \/ Len(colDes) = 1 /\ pc = "call" /\ Fail
  /\ UNCHANGED progress

Refuse == turn \in {"first", "second"} /\ InsertRefused /\ UNCHANGED progress

(* Wrong: stamp declared in the loop over the states.                      *)
StampsAnew == [s \in Source |-> 0]

(* stamp[] counts on from state to state.                                  *)
StampsKept == stamp

EndOfFile ==
  /\ turn \in {"first", "second"} /\ pc = "call"
  /\ OneIndex
  /\ \/ turn = "first" /\ GoTo("second") /\ UNCHANGED stamp
     \/ /\ turn = "second" /\ state + 1 < StateCount
        /\ state' = state + 1 /\ turn' = "ddl" /\ stamp' = StampsKept
        /\ UNCHANGED csv
     \/ turn = "second" /\ state + 1 = StateCount /\ GoTo("sort") /\ UNCHANGED stamp
  /\ UNCHANGED <<schema, store, indexs, ctl, covered>>

-----------------------------------------------------------------------------
(* Table::optimizeTableForDump: std::sort moves the rows, the empty slots  *)
(* to the front; by which columns is left open, and so is whether it sorts *)
(* at all (a key of two columns of other types).  idxInsideTable and the   *)
(* index stay as they were.  lexical_cast<float> may throw.                *)
EmptyFirst(rs) == \A i, j \in DOMAIN rs : i < j /\ rs[j] = Null => rs[i] = Null

Sort ==
  /\ turn = "sort" /\ pc = "call"
  /\ \/ /\ \/ UNCHANGED rows
           \/ \E p \in Bijection(DOMAIN rows, DOMAIN rows) :
                /\ rows' = [i \in DOMAIN rows |-> rows[p[i]]]
                /\ EmptyFirst(rows')
        /\ UNCHANGED <<schema, heap, freed, indexs, stamp, ctl, covered>>
        /\ GoTo("dump")
     \/ (\E k \in DOMAIN indexs : Cardinality(indexs[k].cols) = 2) /\ Fail /\ UNCHANGED progress

(* Table::dumpToFile writes a line per slot, and none for an empty one.    *)
Dumped(rs) == FlattenSeq([i \in DOMAIN rs |-> IF rs[i] = Null THEN <<>> ELSE << rs[i] >>])

Dump ==
  /\ turn = "dump" /\ pc = "call"
  /\ csv' = Dumped(rows) /\ turn' = "done"
  /\ UNCHANGED <<vars, state>>

WorkNext == Trace \/ Finish \/ ReadRow \/ Refuse \/ EndOfFile \/ Sort \/ Dump

(* SubWorker::work is a sequential program: it goes on while it can.       *)
WorkSpec == WorkInit /\ [][WorkNext]_workVars /\ WF_workVars(WorkNext)

-----------------------------------------------------------------------------
(* What holds of the rebuilding.                                           *)

(* The order the log has: what was read from the same source later counts  *)
(* more, through every state of the table.                                 *)
DateOf(r) == VersionOf(heap[r]).upd

LoggedAfter(s, r) ==
  \/ DateOf(s) > DateOf(r)
  \/ DateOf(s) = DateOf(r) /\ heap[s].source < heap[r].source
  \/ DateOf(s) = DateOf(r) /\ heap[s].source = heap[r].source /\ s > r

(* result.csv has, for each key, the row logged last of those offered      *)
(* since the key was last changed, once, and no deleted row.  The order is *)
(* that of the log itself, not that of the stamps the code compares.       *)
CsvIsLastLogged ==
  turn = "done" =>
    /\ Range(csv) \cap freed = {}
    /\ \A i, j \in DOMAIN csv : Bucket(csv[i], KeyCols) = Bucket(csv[j], KeyCols) => i = j
    /\ \A r \in covered : \E s \in Range(csv) :
         Bucket(s, KeyCols) = Bucket(r, KeyCols) /\ (s = r \/ LoggedAfter(s, r))

(* The rebuilding ends, with a result or with an uncaught exception; the   *)
(* walk of dropColumn over indexs, too, whether it erases the index it is  *)
(* at, because no column is left in it, or goes on to the next.            *)
WorkEnds == <>(turn = "done" \/ pc = "failed")
=============================================================================
