---------------------------- MODULE RebuildProofs ----------------------------
(***************************************************************************)
(* Proofs about the rebuilding of a table, on top of those about the table *)
(* itself.  First SubWorker's: it writes, for each key, the row that the   *)
(* logs have last; UniqueTable's order of rows, carried through the states *)
(* of the table, the sort and the dump.  Then SchemaTrace's: the table     *)
(* keeps the columns and the keys of the source, for every schema and      *)
(* every sequence of statements, and only what EndsForAReason names ends   *)
(* the process.                                                            *)
(***************************************************************************)
EXTENDS SubWorker, SchemaTrace, UniqueTableProofs

USE DEF Null

-----------------------------------------------------------------------------
(* What the table says of the logs.  Rows of one source are read in the    *)
(* order of its log, so that the stamps the code compares are as good as   *)
(* places in the log, as long as none starts anew.                         *)

LastLogged ==
  \A r \in covered : \E s \in Live :
    Bucket(s, KeyCols) = Bucket(r, KeyCols) /\ (s = r \/ LoggedAfter(s, r))

LEMMA NewestIsLast == IndInv /\ OrderInv => LastLogged
<1> SUFFICES ASSUME IndInv, OrderInv, NEW r \in covered
             PROVE  \E s \in Live :
                      Bucket(s, KeyCols) = Bucket(r, KeyCols) /\ (s = r \/ LoggedAfter(s, r))
  BY DEF LastLogged
<1>1. PICK s \in Live : Bucket(s, KeyCols) = Bucket(r, KeyCols) /\ (s = r \/ Beats(s, r))
  BY DEF OrderInv, NewestSurvives
<1>2. r \in RowIds /\ s \in RowIds /\ s \in covered /\ RowIds \subseteq Nat
  BY StoreFacts DEF IndInv, OrderInv, LiveCovered, RowIds
<1>3. VersionOf(heap[r]) \in Version /\ VersionOf(heap[s]) \in Version
  BY <1>2, CoveredVersions DEF OrderInv
<1>4. heap[r].source = heap[s].source /\ heap[s].stamp > heap[r].stamp => s > r
  <2>1. heap[r].stamp \in Nat /\ heap[s].stamp \in Nat
    BY <1>3 DEF Version, VersionOf
  <2>2. s < r /\ heap[s].source = heap[r].source => heap[s].stamp < heap[r].stamp
    BY <1>2 DEF OrderInv, StampsRise
  <2> QED
    BY <1>2, <2>1, <2>2
<1>5. CASE Beats(s, r)
  <2> DEFINE a == VersionOf(heap[s])
             b == VersionOf(heap[r])
  <2>1. \/ b.upd < a.upd
        \/ b.upd = a.upd /\ a.source < b.source
        \/ b.upd = a.upd /\ a.source = b.source /\ a.stamp > b.stamp
    BY <1>5 DEF Beats, Supersedes
  <2>2. /\ a.source = heap[s].source /\ b.source = heap[r].source
        /\ a.stamp = heap[s].stamp /\ b.stamp = heap[r].stamp
        /\ a.upd = DateOf(s) /\ b.upd = DateOf(r)
    BY DEF VersionOf, DateOf
  <2>3. a.upd \in Nat /\ b.upd \in Nat
    BY <1>3 DEF Version
  <2> HIDE DEF a, b
  <2>4. LoggedAfter(s, r)
    BY <1>4, <2>1, <2>2, <2>3 DEF LoggedAfter
  <2> QED
    BY <1>1, <2>4
<1> QED
  BY <1>1, <1>5

-----------------------------------------------------------------------------
(* What is left of the table's invariant once the rows have been moved:    *)
(* the slots do not say any more where idxInsideTable says the row is.     *)

SlotsOnce == \A i, j \in DOMAIN rows : rows[i] = rows[j] /\ rows[i] # Null => i = j

Dumpable ==
  /\ pc = "call" /\ rows \in Seq(Nat)
  /\ SlotsOnce /\ Live \cap freed = {}
  /\ Apart /\ LastLogged

WorkInv ==
  /\ turn \in {"ddl", "first", "second", "sort", "dump", "done"}
  /\ turn \in {"ddl", "first", "second", "sort"} => IndInv /\ OrderInv
  /\ turn \in {"dump", "done"} => Dumpable
  /\ turn = "done" => csv = Dumped(rows)

LEMMA BeforeTheSort == IndInv /\ OrderInv /\ pc = "call" => Dumpable
<1> SUFFICES ASSUME IndInv, OrderInv, pc = "call" PROVE Dumpable
  OBVIOUS
<1>1. rows \in Seq(Nat)
  <2>1. /\ rows \in Seq(RowIds \cup {Null}) /\ RowIds \subseteq Nat /\ Len(rows) \in Nat
        /\ DOMAIN rows = 1..Len(rows)
    BY StoreFacts DEF IndInv, RowIds
  <2>2. \A i \in 1..Len(rows) : rows[i] \in RowIds \cup {Null}
    BY <2>1
  <2>3. \A i \in 1..Len(rows) : rows[i] \in Nat
    <3>1. RowIds \cup {Null} \subseteq Nat
      BY <2>1
    <3> QED
      BY <2>2, <3>1
  <2>4. rows \in [1..Len(rows) -> Nat]
    BY <2>1, <2>3
  <2> QED
    BY <2>1, <2>4, FunctionIsSeq
<1>2. SlotsOnce
  BY DEF IndInv, SafeInv, SlotsExact, SlotsOnce
<1>3. Live \cap freed = {}
  BY DEF IndInv, SafeInv, SlotsExact, Live, Range
<1>4. Apart
  BY IndexedApart DEF IndInv, TypeOK, CtlType
<1> QED
  BY <1>1, <1>2, <1>3, <1>4, NewestIsLast DEF Dumpable

(* What is written depends on which rows the slots hold, not on where.     *)
LEMMA DumpableKept ==
  ASSUME Dumpable, rows' \in Seq(Nat), SlotsOnce', Live' = Live,
         UNCHANGED <<heap, freed, indexs, updCol, covered, pc>>
  PROVE  Dumpable'
<1>1. KeyCols' = KeyCols
  BY DEF KeyCols
<1>2. \A r : Bucket(r, KeyCols)' = Bucket(r, KeyCols)
  BY <1>1 DEF Bucket, KeyOf
<1>3. \A r, s : LoggedAfter(s, r)' <=> LoggedAfter(s, r)
  BY DEF LoggedAfter, DateOf, VersionOf
<1>4. Apart'
  BY <1>2 DEF Dumpable, Apart
<1>5. LastLogged'
  BY <1>2, <1>3 DEF Dumpable, LastLogged
<1> QED
  BY <1>4, <1>5 DEF Dumpable

LEMMA DumpableStays == Dumpable /\ UNCHANGED vars => Dumpable'
<1> SUFFICES ASSUME Dumpable, UNCHANGED vars PROVE Dumpable'
  OBVIOUS
<1>1. UNCHANGED <<heap, freed, rows, indexs, updCol, covered, pc>>
  BY DEF vars, schema, store, ctl
<1>2. rows' \in Seq(Nat) /\ SlotsOnce' /\ Live' = Live
  BY <1>1 DEF Dumpable, SlotsOnce, Live
<1> QED
  BY <1>1, <1>2, DumpableKept

(* Whatever order the sort establishes, the slots hold the same rows.      *)
LEMMA MovedSlots ==
  ASSUME rows \in Seq(Nat), SlotsOnce, NEW p \in Bijection(DOMAIN rows, DOMAIN rows),
         rows' = [i \in DOMAIN rows |-> rows[p[i]]]
  PROVE  rows' \in Seq(Nat) /\ SlotsOnce' /\ Live' = Live
<1> DEFINE D == DOMAIN rows
<1>1. /\ D = 1..Len(rows) /\ Len(rows) \in Nat /\ \A i \in D : rows[i] \in Nat
      /\ p \in [D -> D] /\ \A w \in D : \E v \in D : p[v] = w
      /\ \A i, j \in D : p[i] = p[j] => i = j
  BY DEF Bijection, Injection, Surjection, IsInjective
<1>2. rows' \in Seq(Nat) /\ DOMAIN rows' = D
  <2>1. rows' \in [1..Len(rows) -> Nat]
    BY <1>1
  <2>2. rows' \in Seq(Nat) /\ Len(rows') = Len(rows)
    BY <1>1, <2>1, FunctionIsSeq
  <2> QED
    BY <1>1, <2>2
<1>3. \A i \in D : rows'[i] = rows[p[i]] /\ p[i] \in D
  BY <1>1
<1>4. SlotsOnce'
  <2>1. ASSUME NEW i \in D, NEW j \in D, rows'[i] = rows'[j], rows'[i] # Null
        PROVE  i = j
    <3>1. rows[p[i]] = rows[p[j]] /\ rows[p[i]] # Null /\ p[i] \in D /\ p[j] \in D
      BY <1>3, <2>1
    <3>2. p[i] = p[j]
      BY <3>1 DEF SlotsOnce
    <3> QED
      BY <1>1, <3>2
  <2> QED
    BY <1>2, <2>1 DEF SlotsOnce
<1>5. Live' = Live
  <2>1. Range(rows') \subseteq Range(rows)
    BY <1>2, <1>3 DEF Range
  <2>2. Range(rows) \subseteq Range(rows')
    BY <1>1, <1>2, <1>3 DEF Range
  <2> QED
    BY <2>1, <2>2 DEF Live
<1> QED
  BY <1>2, <1>4, <1>5

(* The lines are the rows of the table, one line each.                     *)
LEMMA DumpedLines ==
  ASSUME rows \in Seq(Nat), SlotsOnce
  PROVE  Dumped(rows) \in Seq(Nat) /\ Range(Dumped(rows)) = Live /\ Once(Dumped(rows))
<1> DEFINE lines == [i \in DOMAIN rows |-> IF rows[i] = Null THEN <<>> ELSE << rows[i] >>]
<1>1. /\ DOMAIN rows = 1..Len(rows) /\ Len(rows) \in Nat
      /\ \A i \in 1..Len(rows) : rows[i] \in Nat
  OBVIOUS
<1>2. lines \in Seq(Seq(Nat)) /\ Len(lines) = Len(rows)
  <2>1. \A i \in 1..Len(rows) : lines[i] \in Seq(Nat)
    BY <1>1
  <2>2. lines \in [1..Len(rows) -> Seq(Nat)]
    BY <1>1, <2>1
  <2> QED
    BY <1>1, <2>2, FunctionIsSeq
<1>3. \A i \in 1..Len(rows) : /\ rows[i] = Null => lines[i] = <<>>
                              /\ rows[i] # Null => lines[i] = << rows[i] >>
  BY <1>1
<1>4. \A x : Range(<<x>>) = {x} /\ Once(<<x>>)
  BY DEF Range, Once
<1>5. Range(<<>>) = {} /\ Once(<<>>)
  BY DEF Range, Once
<1>6. Dumped(rows) = FlattenSeq(lines)
  BY DEF Dumped
<1> HIDE DEF lines
<1>10. \A x : \A i \in 1..Len(rows) : x \in Range(lines[i]) <=> rows[i] = x /\ rows[i] # Null
  <2>1. SUFFICES ASSUME NEW x, NEW i \in 1..Len(rows)
                 PROVE  x \in Range(lines[i]) <=> rows[i] = x /\ rows[i] # Null
    OBVIOUS
  <2>2. CASE rows[i] = Null
    BY <1>3, <1>5, <2>2
  <2>3. CASE rows[i] # Null
    <3>1. Range(lines[i]) = {rows[i]}
      BY <1>3, <1>4, <2>3
    <3> QED
      BY <2>3, <3>1
  <2> QED
    BY <2>2, <2>3
<1>7. Range(FlattenSeq(lines)) = UNION {Range(lines[i]) : i \in 1..Len(lines)}
  BY <1>2, FlattenRange
<1>8. Range(FlattenSeq(lines)) = Live
  <2>1. \A x : x \in Live <=> \E i \in 1..Len(rows) : rows[i] = x /\ rows[i] # Null
    BY <1>1 DEF Live, Range
  <2>2. \A x : x \in Range(FlattenSeq(lines)) <=> \E i \in 1..Len(rows) : x \in Range(lines[i])
    BY <1>2, <1>7
  <2>3. \A x : x \in Range(FlattenSeq(lines)) <=> x \in Live
    BY <1>10, <2>1, <2>2
  <2> QED
    BY <2>3
<1>9. Once(FlattenSeq(lines))
  <2>1. \A i \in 1..Len(lines) : Once(lines[i])
    BY <1>2, <1>3, <1>4, <1>5
  <2>2. ASSUME NEW i \in 1..Len(lines), NEW j \in 1..Len(lines), i # j
        PROVE  Range(lines[i]) \cap Range(lines[j]) = {}
    <3>1. rows[i] = rows[j] /\ rows[i] # Null => i = j
      BY <1>1, <1>2 DEF SlotsOnce
    <3>2. ASSUME NEW x \in Range(lines[i]), x \in Range(lines[j])
          PROVE  FALSE
      <4>1. rows[i] = x /\ rows[j] = x /\ rows[i] # Null
        BY <1>2, <1>10, <3>2
      <4> QED
        BY <2>2, <3>1, <4>1
    <3> QED
      BY <3>2
  <2> QED
    BY <1>2, <2>1, <2>2, FlattenOnce
<1>11. FlattenSeq(lines) \in Seq(Nat)
  BY <1>2, FlattenType
<1> QED
  BY <1>6, <1>8, <1>9, <1>11

-----------------------------------------------------------------------------
(* The steps of work().                                                    *)

(* Until the sort, a step is a call of the table, or an exception.         *)
LEMMA TableStep ==
  ASSUME IndInv, OrderInv, [Next]_vars \/ Fail
  PROVE  IndInv' /\ OrderInv'
<1>1. CASE [Next]_vars
  BY <1>1, NextKeepsIndInv, NextKeepsOrder
<1>2. CASE Fail
  <2>1. IndInv'
    BY <1>2, FailType, FailSafe DEF IndInv
  <2> QED
    BY <1>2, <2>1, FailOrder
<1> QED
  BY <1>1, <1>2

Building == turn \in {"ddl", "first", "second", "sort"}

LEMMA BuildingStep ==
  ASSUME WorkInv, Building, Building', [Next]_vars \/ Fail
  PROVE  WorkInv'
<1>1. IndInv' /\ OrderInv'
  BY TableStep DEF WorkInv, Building
<1> QED
  BY <1>1 DEF WorkInv, Building

LEMMA TraceStep == WorkInv /\ Trace => WorkInv'
<1> SUFFICES ASSUME WorkInv, Trace PROVE WorkInv'
  OBVIOUS
<1>1. Building /\ Building'
  BY DEF Trace, GoTo, Building
<1>2. [Next]_vars
  BY DEF Trace, TraceCreate, TraceNothing, TraceAlter, Next
<1> QED
  BY <1>1, <1>2, BuildingStep

LEMMA FinishStep == WorkInv /\ Finish => WorkInv'
<1> SUFFICES ASSUME WorkInv, Finish PROVE WorkInv'
  OBVIOUS
<1>1. pc # "call"
  BY DEF Finish, Recompute, DropFromIndex, DropFinish, ScanRow, ScanDone
<1>2. Building /\ Building'
  BY <1>1 DEF WorkInv, Building, Dumpable, Finish, progress
<1>3. [Next]_vars
  BY DEF Finish, Next
<1> QED
  BY <1>2, <1>3, BuildingStep

LEMMA ReadRowStep == WorkInv /\ (ReadRow \/ Refuse) => WorkInv'
<1> SUFFICES ASSUME WorkInv, ReadRow \/ Refuse PROVE WorkInv'
  OBVIOUS
<1>1. Building /\ Building'
  BY DEF ReadRow, Refuse, Building, progress
<1>2. SourceOf(turn) \in Source
  BY SubWorkerAssumption DEF SourceOf
<1>3. [Next]_vars \/ Fail
  BY <1>2 DEF ReadRow, Refuse, Next, Insert
<1> QED
  BY <1>1, <1>3, BuildingStep

LEMMA EndOfFileStep == WorkInv /\ EndOfFile => WorkInv'
<1> SUFFICES ASSUME WorkInv, EndOfFile PROVE WorkInv'
  OBVIOUS
<1>1. Building /\ Building'
  BY DEF EndOfFile, GoTo, Building
<1>2. UNCHANGED vars
  BY DEF EndOfFile, StampsKept, vars
<1> QED
  BY <1>1, <1>2, BuildingStep

LEMMA SortStep == WorkInv /\ Sort => WorkInv'
<1> SUFFICES ASSUME WorkInv, Sort PROVE WorkInv'
  OBVIOUS
<1>1. CASE Fail /\ UNCHANGED progress
  <2>1. Building /\ Building'
    BY <1>1 DEF Sort, progress, Building
  <2> QED
    BY <1>1, <2>1, BuildingStep
<1>2. CASE /\ UNCHANGED rows \/ \E p \in Bijection(DOMAIN rows, DOMAIN rows) :
                                  rows' = [i \in DOMAIN rows |-> rows[p[i]]]
           /\ UNCHANGED <<schema, heap, freed, indexs, stamp, ctl, covered>>
           /\ GoTo("dump")
  <2>1. Dumpable /\ turn' = "dump"
    BY <1>2, BeforeTheSort DEF WorkInv, Sort, GoTo
  <2>2. rows' \in Seq(Nat) /\ SlotsOnce' /\ Live' = Live
    <3>1. CASE UNCHANGED rows
      BY <2>1, <3>1 DEF Dumpable, SlotsOnce, Live
    <3> QED
      BY <1>2, <2>1, <3>1, MovedSlots DEF Dumpable
  <2>3. UNCHANGED <<heap, freed, indexs, updCol, covered, pc>>
    BY <1>2 DEF schema, ctl
  <2>4. Dumpable'
    BY <2>1, <2>2, <2>3, DumpableKept
  <2> QED
    BY <2>1, <2>4 DEF WorkInv
<1> QED
  BY <1>1, <1>2 DEF Sort

LEMMA DumpStep == WorkInv /\ Dump => WorkInv'
<1> SUFFICES ASSUME WorkInv, Dump PROVE WorkInv'
  OBVIOUS
<1>1. turn' = "done" /\ csv' = Dumped(rows) /\ UNCHANGED vars /\ Dumpable
  BY DEF Dump, WorkInv
<1>2. Dumpable' /\ rows' = rows
  BY <1>1, DumpableStays DEF vars, store
<1> QED
  BY <1>1, <1>2 DEF WorkInv

LEMMA WorkStutters == WorkInv /\ UNCHANGED workVars => WorkInv'
<1> SUFFICES ASSUME WorkInv, UNCHANGED workVars PROVE WorkInv'
  OBVIOUS
<1>1. UNCHANGED vars /\ UNCHANGED <<turn, csv>>
  BY DEF workVars, progress
<1>2. CASE Building
  <2>1. Building'
    BY <1>1, <1>2 DEF Building
  <2> QED
    BY <1>1, <1>2, <2>1, BuildingStep
<1>3. CASE ~Building
  <2>1. Dumpable' /\ rows' = rows
    BY <1>1, <1>3, DumpableStays DEF WorkInv, Building, vars, store
  <2> QED
    BY <1>1, <1>3, <2>1 DEF WorkInv, Building
<1> QED
  BY <1>2, <1>3

-----------------------------------------------------------------------------
(* The theorem.                                                            *)

LEMMA DumpIsLastLogged == WorkInv => CsvIsLastLogged
<1> SUFFICES ASSUME WorkInv, turn = "done"
             PROVE  /\ Range(csv) \cap freed = {}
                    /\ \A i, j \in DOMAIN csv :
                         Bucket(csv[i], KeyCols) = Bucket(csv[j], KeyCols) => i = j
                    /\ \A r \in covered : \E s \in Range(csv) :
                         Bucket(s, KeyCols) = Bucket(r, KeyCols) /\ (s = r \/ LoggedAfter(s, r))
  BY DEF CsvIsLastLogged
<1>1. Dumpable /\ csv = Dumped(rows)
  BY DEF WorkInv
<1>2. csv \in Seq(Nat) /\ Range(csv) = Live /\ Once(csv)
  BY <1>1, DumpedLines DEF Dumpable
<1>3. DOMAIN csv = 1..Len(csv)
  BY <1>2
<1>4. ASSUME NEW i \in DOMAIN csv, NEW j \in DOMAIN csv,
             Bucket(csv[i], KeyCols) = Bucket(csv[j], KeyCols)
      PROVE  i = j
  <2>1. csv[i] \in Live /\ csv[j] \in Live
    BY <1>2 DEF Range
  <2>2. csv[i] = csv[j]
    BY <1>1, <1>4, <2>1 DEF Dumpable, Apart
  <2> QED
    BY <1>2, <1>3, <2>2 DEF Once
<1> QED
  BY <1>1, <1>2, <1>4 DEF Dumpable, LastLogged

(* result.csv has, for each key, the row the logs have last of those       *)
(* offered since the key was changed, once, whatever the schema, the hash, *)
(* the states and ALTERs, and whichever way the sort moves the rows.       *)
THEOREM ResultIsLastLogged == WorkSpec => []CsvIsLastLogged
<1>1. WorkInit => WorkInv
  BY InitType, InitSafe, InitOrder DEF WorkInit, WorkInv, IndInv
<1>2. WorkInv /\ [WorkNext]_workVars => WorkInv'
  BY TraceStep, FinishStep, ReadRowStep, EndOfFileStep, SortStep, DumpStep, WorkStutters DEF WorkNext
<1> QED
  BY <1>1, <1>2, DumpIsLastLogged, PTL DEF WorkSpec

-----------------------------------------------------------------------------
(* The inductive invariant.  In the middle of a DROP COLUMN the source has *)
(* dropped the column and the table has not, or only from some indexes: so *)
(* each part speaks of what the table will have.                           *)

Leaving == IF dropping = 0 THEN {} ELSE {colDes[dropping]}
Left == IF dropping = 0 THEN colDes ELSE RemoveAt(colDes, dropping)

Follows(cs, ds, col) ==
  Len(cs) = Len(ds) /\ \A i \in 1..Len(ds) : cs[i] = Bare(col[ds[i]].name)

(* The columns have the names, each one of them.                           *)
SameNames(cs, C, col) ==
  /\ \A c \in C : col[c].name \in Range(cs)
  /\ \A nm \in Range(cs) : \E c \in C : col[c].name = nm
  /\ \A c, d \in C : col[c].name = col[d].name => c = d

(* An index that stays, and the key it is.                                 *)
Stays(ix, gone) == ~ix.isTemp /\ ix.cols \ gone # {}

KeyOfIndex(ix, gone, col) ==
  [name |-> ix.name, isPrimary |-> ix.isPrimary, names |-> {col[c].name : c \in ix.cols \ gone}]

TableKeys(ixs, gone, col) ==
  {KeyOfIndex(ixs[k], gone, col) : k \in {j \in DOMAIN ixs : Stays(ixs[j], gone)}}

NamesOnce(ks) == \A k, l \in ks : k.name = l.name => k = l

(* What a log may have had in it for its part to hold no longer.           *)
NotIn(things) == met \cap things = {}

KeyOddities == {"unnamed", "apart", "several", "quoted", "quotedKeys"}

USE DEF KeyOddities

SourceInv ==
  /\ cols \in Seq(SourceColumn) /\ IsInjective(cols)
  /\ keys \subseteq SourceKey /\ NamesOnce(keys)

(* An index without columns is only there to be swept, and those passed by *)
(* have lost the column.                                                   *)
IndexInv(k) ==
  /\ indexs[k].cols \subseteq InTable
  /\ indexs[k].isTemp => indexs[k].name = "___TEMP_PRIMARY" /\ ~indexs[k].isPrimary
  /\ ~indexs[k].isTemp => indexs[k].name \in KeyName \cup {""}
  /\ ~indexs[k].isTemp /\ indexs[k].cols = {} => pc = "scan" /\ dropping # 0 /\ k = pos
  /\ dropping # 0 /\ (k < pos \/ (k = pos /\ pc = "scan")) =>
       colDes[dropping] \notin indexs[k].cols

IndexsInv ==
  /\ \A k \in DOMAIN indexs : IndexInv(k)
  /\ NotIn({"unnamed"}) =>
       \A j, k \in DOMAIN indexs : indexs[j].name = indexs[k].name => j = k

UpdatedAtInv ==
  updCol \in Range(Left) /\ column[updCol].name = UpdName /\ UpdName \in DOMAIN Quote

Underway == pc \in {"call", "scan", "drop"}

OrderKept == NotIn({"first", "moved", "several"}) => Follows(cols, Left, column)

NamesKept == NotIn({"several", "quoted"}) => SameNames(cols, Range(Left), column)

KeysKept ==
  NotIn(KeyOddities) =>
    /\ TableKeys(indexs, Leaving, column) \subseteq keys
    /\ NotIn({"inline"}) => keys \subseteq TableKeys(indexs, Leaving, column)

TableInv == IndInv /\ TempInv /\ rows = <<>>

FlowsInv == SourceInv /\ IndexsInv /\ UpdatedAtInv /\ OrderKept /\ NamesKept /\ KeysKept

TraceInv == TableInv /\ (Underway => FlowsInv) /\ EndsForAReason

-----------------------------------------------------------------------------
(* Names, with and without backquotes.                                     *)

LEMMA BareNames ==
  \A nm \in DOMAIN Quote : Bare(nm) = nm /\ Bare(Quote[nm]) = nm
<1> SUFFICES ASSUME NEW nm \in DOMAIN Quote
             PROVE  Bare(nm) = nm /\ Bare(Quote[nm]) = nm
  OBVIOUS
<1>1. nm \notin Range(Quote) /\ Quote[nm] \in Range(Quote)
  BY TraceAssumption DEF TraceAssumption, Range
<1>2. \A n \in DOMAIN Quote : Quote[n] = Quote[nm] => n = nm
  BY TraceAssumption DEF TraceAssumption, IsInjective
<1> QED
  BY <1>1, <1>2 DEF Bare

LEMMA BareText ==
  ASSUME NEW nm \in DOMAIN Quote, NEW q
  PROVE  Bare(Text(nm, q)) = nm
BY BareNames DEF Text

(* A column that is not updated_at does not look like it.                  *)
LEMMA TextOfOther ==
  ASSUME UpdName \in DOMAIN Quote, NEW nm \in SourceNames, NEW q
  PROVE  Text(nm, q) # UpdName
<1>1. nm \in DOMAIN Quote /\ nm # UpdName
  BY TraceAssumption, UpdatedAtAssumption DEF TraceAssumption, UpdatedAtAssumption, SourceColumn
<1>2. Bare(Text(nm, q)) = nm /\ Bare(UpdName) = UpdName
  BY <1>1, BareText, BareNames
<1> QED
  BY <1>1, <1>2

LEMMA SourceColumns ==
  ASSUME NEW nm \in SourceColumn, NEW q
  PROVE  /\ nm \in DOMAIN Quote /\ nm # AtEnd /\ nm # InFront
         /\ Text(nm, q) \in Name
         /\ [name |-> Text(nm, q), def |-> -1] \in Column
BY DEF SourceColumn, Text, Column

LEMMA KeyTexts ==
  ASSUME NEW nm \in SourceKeyName \cup {""}, NEW q
  PROVE  /\ Text(nm, q) \in KeyName \cup {""}
         /\ nm = "" => Text(nm, q) = ""
         /\ \A n \in SourceKeyName \cup {""} : Text(n, q) = Text(nm, q) => n = nm
<1>1. "" \notin DOMAIN Quote /\ "" \notin KeyName
  BY TraceAssumption DEF TraceAssumption
<1>2. Text(nm, q) \in KeyName \cup {""} /\ (nm = "" => Text(nm, q) = "")
  BY <1>1 DEF Text, SourceKeyName
<1>3. ASSUME NEW n \in SourceKeyName \cup {""}, NEW m \in SourceKeyName, Text(n, q) = Text(m, q)
      PROVE  n = m
  <2>1. m \in DOMAIN Quote /\ Text(m, q) \in KeyName
    BY DEF SourceKeyName, Text
  <2>2. n # ""
    BY <1>1, <1>3, <2>1 DEF Text
  <2>3. n \in DOMAIN Quote
    BY <2>2 DEF SourceKeyName
  <2> QED
    BY <1>3, <2>1, <2>3, BareText
<1>4. ASSUME NEW n \in SourceKeyName \cup {""}, Text(n, q) = Text(nm, q) PROVE n = nm
  <2>1. CASE nm \in SourceKeyName
    BY <1>3, <1>4, <2>1
  <2>2. CASE n \in SourceKeyName
    BY <1>3, <1>4, <2>2
  <2> QED
    BY <2>1, <2>2
<1> QED
  BY <1>2, <1>4

LEMMA FoundAt ==
  ASSUME NEW text, Found(text)
  PROVE  At(text) \in DOMAIN colDes /\ column[colDes[At(text)]].name = text
BY DEF Found, At

-----------------------------------------------------------------------------
(* Lists of names.                                                         *)

LEMMA PlaceFound ==
  ASSUME NEW list, NEW nm \in Range(list)
  PROVE  PlaceIn(list, nm) \in DOMAIN list /\ list[PlaceIn(list, nm)] = nm
<1>1. \E i \in DOMAIN list : list[i] = nm
  BY DEF Range
<1> QED
  BY <1>1 DEF PlaceIn

LEMMA InsertAtRange ==
  ASSUME NEW S, NEW s \in Seq(S), NEW i \in 1..(Len(s) + 1), NEW x \in S
  PROVE  Range(InsertAt(s, i, x)) = Range(s) \cup {x}
<1> DEFINE t == InsertAt(s, i, x)
<1>1. /\ t \in Seq(S) /\ Len(t) = Len(s) + 1 /\ Len(s) \in Nat
      /\ \A j \in 1..(Len(s) + 1) :
           t[j] = IF j < i THEN s[j] ELSE IF j = i THEN x ELSE s[j - 1]
  BY InsertAtFacts
<1> HIDE DEF t
<1>2. DOMAIN t = 1..(Len(s) + 1) /\ DOMAIN s = 1..Len(s)
  BY <1>1
<1>3. ASSUME NEW j \in DOMAIN t PROVE t[j] \in Range(s) \cup {x}
  <2>1. CASE j < i
    BY <1>1, <1>2, <2>1 DEF Range
  <2>2. CASE j > i
    <3>1. j - 1 \in DOMAIN s /\ t[j] = s[j - 1]
      BY <1>1, <1>2, <2>2
    <3> QED
      BY <3>1 DEF Range
  <2> QED
    BY <1>1, <1>2, <2>1, <2>2
<1>4. ASSUME NEW j \in DOMAIN s PROVE s[j] \in Range(t)
  <2>1. CASE j < i
    <3>1. j \in DOMAIN t /\ t[j] = s[j]
      BY <1>1, <1>2, <2>1
    <3> QED
      BY <3>1 DEF Range
  <2>2. CASE j >= i
    <3>1. j + 1 \in DOMAIN t /\ t[j + 1] = s[j]
      BY <1>1, <1>2, <2>2
    <3> QED
      BY <3>1 DEF Range
  <2> QED
    BY <1>1, <1>2, <2>1, <2>2
<1>5. x \in Range(t)
  <2>1. i \in DOMAIN t /\ t[i] = x
    BY <1>1, <1>2
  <2> QED
    BY <2>1 DEF Range
<1> QED
  BY <1>3, <1>4, <1>5 DEF Range, t

(* A list of different names, with one more or one less.                   *)
LEMMA NamePlaced ==
  ASSUME NEW S, NEW s \in Seq(S), IsInjective(s), NEW nm \in S, nm \notin Range(s),
         NEW i \in 1..(Len(s) + 1)
  PROVE  /\ InsertAt(s, i, nm) \in Seq(S) /\ IsInjective(InsertAt(s, i, nm))
         /\ Range(InsertAt(s, i, nm)) = Range(s) \cup {nm}
<1>1. DOMAIN s = 1..Len(s)
  OBVIOUS
<1>2. \A j, k \in 1..Len(s) : s[j] = s[k] => j = k
  BY <1>1 DEF IsInjective
<1>3. \A j, k \in 1..Len(InsertAt(s, i, nm)) :
         InsertAt(s, i, nm)[j] = InsertAt(s, i, nm)[k] => j = k
  BY <1>2, InsertAtOnce
<1>4. InsertAt(s, i, nm) \in Seq(S)
  BY InsertAtFacts
<1>5. DOMAIN InsertAt(s, i, nm) = 1..Len(InsertAt(s, i, nm))
  BY <1>4
<1> QED
  BY <1>3, <1>4, <1>5, InsertAtRange DEF IsInjective

LEMMA NameRemoved ==
  ASSUME NEW S, NEW s \in Seq(S), IsInjective(s), NEW i \in 1..Len(s)
  PROVE  /\ RemoveAt(s, i) \in Seq(S) /\ IsInjective(RemoveAt(s, i))
         /\ Range(RemoveAt(s, i)) = Range(s) \ {s[i]}
<1>1. DOMAIN s = 1..Len(s)
  OBVIOUS
<1>2. \A j, k \in 1..Len(s) : s[j] = s[k] => j = k
  BY <1>1 DEF IsInjective
<1>3. /\ \A j, k \in 1..Len(RemoveAt(s, i)) : RemoveAt(s, i)[j] = RemoveAt(s, i)[k] => j = k
      /\ Range(RemoveAt(s, i)) = Range(s) \ {s[i]}
  BY <1>2, RemoveAtOnce
<1>4. RemoveAt(s, i) \in Seq(S)
  BY RemoveAtFacts
<1>5. DOMAIN RemoveAt(s, i) = 1..Len(RemoveAt(s, i))
  BY <1>4
<1> QED
  BY <1>3, <1>4, <1>5 DEF IsInjective

LEMMA WithoutFacts ==
  ASSUME NEW S, NEW s \in Seq(S), IsInjective(s), NEW nm \in Range(s)
  PROVE  /\ Without(s, nm) \in Seq(S) /\ IsInjective(Without(s, nm))
         /\ Range(Without(s, nm)) = Range(s) \ {nm}
         /\ \A i \in 1..Len(s) : s[i] = nm => Without(s, nm) = RemoveAt(s, i)
<1> DEFINE i == PlaceIn(s, nm)
<1>1. DOMAIN s = 1..Len(s)
  OBVIOUS
<1>2. i \in 1..Len(s) /\ s[i] = nm
  BY <1>1, PlaceFound
<1>3. \A j \in 1..Len(s) : s[j] = nm => j = i
  BY <1>1, <1>2 DEF IsInjective
<1> HIDE DEF i
<1>4. Without(s, nm) = RemoveAt(s, i)
  BY DEF Without, i
<1> QED
  BY <1>2, <1>3, <1>4, NameRemoved

LEMMA PlacedFacts ==
  ASSUME NEW s \in Seq(SourceColumn), IsInjective(s), NEW nm \in SourceColumn,
         nm \notin Range(s), NEW where \in {AtEnd, InFront} \cup Range(s)
  PROVE  /\ Placed(s, nm, where) \in Seq(SourceColumn) /\ IsInjective(Placed(s, nm, where))
         /\ Range(Placed(s, nm, where)) = Range(s) \cup {nm}
         /\ where = AtEnd => Placed(s, nm, where) = InsertAt(s, Len(s) + 1, nm)
         /\ \A i \in 1..Len(s) : s[i] = where => Placed(s, nm, where) = InsertAt(s, i + 1, nm)
<1>0. AtEnd # InFront
  BY DEF AtEnd, InFront
<1>1. DOMAIN s = 1..Len(s) /\ Len(s) \in Nat /\ AtEnd # InFront
  BY <1>0
<1>2. PICK p \in 1..(Len(s) + 1) :
        /\ Placed(s, nm, where) = InsertAt(s, p, nm)
        /\ where = AtEnd => p = Len(s) + 1
        /\ \A i \in 1..Len(s) : s[i] = where => p = i + 1
  <2>0. \A i \in 1..Len(s) : s[i] # AtEnd /\ s[i] # InFront
    BY SourceColumns, ElementOfSeq
  <2>1. CASE where = InFront
    <3>1. Placed(s, nm, where) = InsertAt(s, 1, nm)
      BY <2>1 DEF Placed
    <3> QED
      BY <1>1, <2>0, <2>1, <3>1
  <2>2. CASE where = AtEnd
    <3>1. Placed(s, nm, where) = InsertAt(s, Len(s) + 1, nm)
      BY <1>1, <2>2 DEF Placed
    <3> QED
      BY <1>1, <2>0, <2>2, <3>1
  <2>3. CASE where \in Range(s)
    <3> DEFINE i == PlaceIn(s, where)
    <3>1. i \in 1..Len(s) /\ s[i] = where
      BY <1>1, <2>3, PlaceFound
    <3>2. Placed(s, nm, where) = InsertAt(s, 1 + i, nm)
      BY <2>0, <3>1 DEF Placed
    <3> HIDE DEF i
    <3>3. \A j \in 1..Len(s) : s[j] = where => j = i
      BY <1>1, <3>1 DEF IsInjective
    <3>4. 1 + i = i + 1 /\ i + 1 \in 1..(Len(s) + 1) /\ where # AtEnd
      BY <1>1, <2>0, <3>1
    <3> QED
      BY <3>2, <3>3, <3>4
  <2> QED
    BY <2>1, <2>2, <2>3
<1> QED
  BY <1>2, NamePlaced

-----------------------------------------------------------------------------
(* The columns of the table and those of the source, changed alike.        *)

LEMMA FollowsRemoved ==
  ASSUME NEW S, NEW cs \in Seq(S), NEW T, NEW ds \in Seq(T), NEW col, Follows(cs, ds, col),
         NEW i \in 1..Len(ds)
  PROVE  Follows(RemoveAt(cs, i), RemoveAt(ds, i), col)
<1> DEFINE a == RemoveAt(cs, i)
           b == RemoveAt(ds, i)
<1>1. Len(cs) = Len(ds) /\ \A j \in 1..Len(ds) : cs[j] = Bare(col[ds[j]].name)
  BY DEF Follows
<1>2. Len(a) = Len(ds) - 1 /\ \A j \in 1..(Len(ds) - 1) : a[j] = IF j < i THEN cs[j] ELSE cs[j + 1]
  <2>1. i \in 1..Len(cs)
    BY <1>1
  <2>2. /\ Len(a) = Len(cs) - 1
        /\ \A j \in 1..(Len(cs) - 1) : a[j] = IF j < i THEN cs[j] ELSE cs[j + 1]
    BY <2>1, RemoveAtFacts
  <2> QED
    BY <1>1, <2>2
<1>3. Len(b) = Len(ds) - 1 /\ \A j \in 1..(Len(ds) - 1) : b[j] = IF j < i THEN ds[j] ELSE ds[j + 1]
  BY RemoveAtFacts
<1> HIDE DEF a, b
<1>4. ASSUME NEW j \in 1..(Len(ds) - 1) PROVE a[j] = Bare(col[b[j]].name)
  <2>1. CASE j < i
    <3>1. a[j] = cs[j] /\ b[j] = ds[j] /\ j \in 1..Len(ds)
      BY <1>2, <1>3, <2>1
    <3> QED
      BY <1>1, <3>1
  <2>2. CASE ~(j < i)
    <3>1. a[j] = cs[j + 1] /\ b[j] = ds[j + 1] /\ j + 1 \in 1..Len(ds)
      BY <1>2, <1>3, <2>2
    <3> QED
      BY <1>1, <3>1
  <2> QED
    BY <2>1, <2>2
<1> QED
  BY <1>2, <1>3, <1>4 DEF Follows, a, b

LEMMA FollowsInserted ==
  ASSUME NEW S, NEW cs \in Seq(S), NEW T, NEW ds \in Seq(T), NEW col, Follows(cs, ds, col),
         NEW i \in 1..(Len(ds) + 1), NEW d \in T, NEW nm \in S, NEW col2,
         \A j \in 1..Len(ds) : col2[ds[j]] = col[ds[j]], Bare(col2[d].name) = nm
  PROVE  Follows(InsertAt(cs, i, nm), InsertAt(ds, i, d), col2)
<1> DEFINE a == InsertAt(cs, i, nm)
           b == InsertAt(ds, i, d)
<1>1. Len(cs) = Len(ds) /\ \A j \in 1..Len(ds) : cs[j] = Bare(col2[ds[j]].name)
  BY DEF Follows
<1>2. /\ Len(a) = Len(cs) + 1
      /\ \A j \in 1..(Len(cs) + 1) : a[j] = IF j < i THEN cs[j] ELSE IF j = i THEN nm ELSE cs[j - 1]
  <2>1. i \in 1..(Len(cs) + 1)
    BY <1>1
  <2>2. a \in Seq(S)
    BY <2>1, InsertAtFacts
  <2>3. Len(a) = Len(cs) + 1
    BY <2>1, InsertAtFacts
  <2>4. ASSUME NEW j \in 1..(Len(cs) + 1)
        PROVE  a[j] = IF j < i THEN cs[j] ELSE IF j = i THEN nm ELSE cs[j - 1]
    BY <2>1, InsertAtFacts
  <2> QED
    BY <2>3, <2>4
<1>3. /\ Len(b) = Len(ds) + 1
      /\ \A j \in 1..(Len(ds) + 1) : b[j] = IF j < i THEN ds[j] ELSE IF j = i THEN d ELSE ds[j - 1]
      /\ Len(ds) \in Nat /\ Len(cs) = Len(ds)
  BY <1>1, InsertAtFacts
<1> HIDE DEF a, b
<1>4. ASSUME NEW j \in 1..(Len(ds) + 1) PROVE a[j] = Bare(col2[b[j]].name)
  <2>1. CASE j < i
    <3>1. a[j] = cs[j] /\ b[j] = ds[j] /\ j \in 1..Len(ds)
      BY <1>2, <1>3, <2>1
    <3> QED
      BY <1>1, <3>1
  <2>2. CASE j = i
    <3>1. a[j] = nm /\ b[j] = d
      BY <1>2, <1>3, <2>2
    <3> QED
      BY <3>1
  <2>3. CASE j > i
    <3>1. a[j] = cs[j - 1] /\ b[j] = ds[j - 1] /\ j - 1 \in 1..Len(ds)
      BY <1>2, <1>3, <2>3
    <3> QED
      BY <1>1, <3>1
  <2> QED
    BY <2>1, <2>2, <2>3
<1> QED
  BY <1>2, <1>3, <1>4 DEF Follows, a, b

(* A new column, a column less, and one that gets another name.            *)
LEMMA SameNamesGrown ==
  ASSUME NEW cs, NEW C, NEW col, SameNames(cs, C, col), NEW d, NEW col2,
         \A c \in C : col2[c] = col[c], col2[d].name \notin Range(cs),
         NEW cs2, Range(cs2) = Range(cs) \cup {col2[d].name}
  PROVE  SameNames(cs2, C \cup {d}, col2)
<1>1. \A c \in C : col2[c].name \in Range(cs)
  BY DEF SameNames
<1>2. \A c \in C \cup {d} : col2[c].name \in Range(cs2)
  BY <1>1
<1>3. \A nm \in Range(cs2) : \E c \in C \cup {d} : col2[c].name = nm
  BY DEF SameNames
<1>4. \A c, e \in C \cup {d} : col2[c].name = col2[e].name => c = e
  BY <1>1 DEF SameNames
<1> QED
  BY <1>2, <1>3, <1>4 DEF SameNames

LEMMA SameNamesShrunk ==
  ASSUME NEW cs, NEW C, NEW col, SameNames(cs, C, col), NEW d \in C,
         NEW cs2, Range(cs2) = Range(cs) \ {col[d].name}
  PROVE  SameNames(cs2, C \ {d}, col)
BY DEF SameNames

LEMMA SameNamesRenamed ==
  ASSUME NEW cs, NEW C, NEW col, SameNames(cs, C, col), NEW d \in C, NEW col2,
         \A c \in C \ {d} : col2[c] = col[c], col2[d].name \notin Range(cs) \ {col[d].name},
         NEW cs2, Range(cs2) = (Range(cs) \ {col[d].name}) \cup {col2[d].name}
  PROVE  SameNames(cs2, C, col2)
<1>1. \A c \in C \ {d} : col2[c].name \in Range(cs) \ {col[d].name}
  BY DEF SameNames
<1>2. \A c \in C : col2[c].name \in Range(cs2)
  BY <1>1
<1>3. \A nm \in Range(cs2) : \E c \in C : col2[c].name = nm
  BY DEF SameNames
<1>4. \A c, e \in C : col2[c].name = col2[e].name => c = e
  BY <1>1 DEF SameNames
<1> QED
  BY <1>2, <1>3, <1>4 DEF SameNames

-----------------------------------------------------------------------------
(* The indexes and the keys.                                               *)

LEMMA RemoveAtMembers ==
  ASSUME NEW S, NEW s \in Seq(S), NEW i \in 1..Len(s)
  PROVE  /\ DOMAIN RemoveAt(s, i) = 1..(Len(s) - 1)
         /\ \A l \in DOMAIN RemoveAt(s, i) : \E k \in DOMAIN s :
              /\ k # i /\ RemoveAt(s, i)[l] = s[k]
              /\ IF l < i THEN k = l ELSE k = l + 1
         /\ \A k \in DOMAIN s : k # i =>
              \E l \in DOMAIN RemoveAt(s, i) : RemoveAt(s, i)[l] = s[k]
<1> DEFINE t == RemoveAt(s, i)
<1>0. /\ t \in Seq(S) /\ Len(t) = Len(s) - 1
      /\ \A j \in 1..(Len(s) - 1) : t[j] = IF j < i THEN s[j] ELSE s[j + 1]
  BY RemoveAtFacts
<1> HIDE DEF t
<1>1. /\ t \in Seq(S) /\ Len(t) = Len(s) - 1 /\ Len(s) \in Nat
      /\ \A j \in 1..(Len(s) - 1) : t[j] = IF j < i THEN s[j] ELSE s[j + 1]
  BY <1>0
<1>2. DOMAIN t = 1..(Len(s) - 1) /\ DOMAIN s = 1..Len(s)
  BY <1>1
<1>3. ASSUME NEW l \in DOMAIN t
      PROVE  \E k \in DOMAIN s : k # i /\ t[l] = s[k] /\ IF l < i THEN k = l ELSE k = l + 1
  <2>1. CASE l < i
    <3>1. l \in DOMAIN s /\ l # i /\ t[l] = s[l]
      BY <1>1, <1>2, <2>1
    <3> QED
      BY <2>1, <3>1
  <2>2. CASE ~(l < i)
    <3>1. l + 1 \in DOMAIN s /\ l + 1 # i /\ t[l] = s[l + 1]
      BY <1>1, <1>2, <2>2
    <3> QED
      BY <2>2, <3>1
  <2> QED
    BY <2>1, <2>2
<1>4. ASSUME NEW k \in DOMAIN s, k # i PROVE \E l \in DOMAIN t : t[l] = s[k]
  <2>1. CASE k < i
    <3>1. k \in DOMAIN t /\ t[k] = s[k]
      BY <1>1, <1>2, <2>1
    <3> QED
      BY <3>1
  <2>2. CASE k > i
    <3>1. k - 1 \in DOMAIN t /\ t[k - 1] = s[k] 
      BY <1>1, <1>2, <2>2
    <3> QED
      BY <3>1
  <2> QED
    BY <1>1, <1>2, <1>4, <2>1, <2>2
<1> QED
  BY <1>2, <1>3, <1>4 DEF t

LEMMA TableKeysMember ==
  ASSUME NEW ixs, NEW gone, NEW col
  PROVE  /\ \A k \in DOMAIN ixs : Stays(ixs[k], gone) =>
              KeyOfIndex(ixs[k], gone, col) \in TableKeys(ixs, gone, col)
         /\ \A key \in TableKeys(ixs, gone, col) : \E k \in DOMAIN ixs :
              Stays(ixs[k], gone) /\ key = KeyOfIndex(ixs[k], gone, col)
BY DEF TableKeys

(* Index by index the same keys.                                           *)
LEMMA TableKeysSame ==
  ASSUME NEW ixs, NEW gone, NEW col, NEW ixs2, NEW gone2, NEW col2,
         DOMAIN ixs2 = DOMAIN ixs,
         \A k \in DOMAIN ixs : Stays(ixs2[k], gone2) <=> Stays(ixs[k], gone),
         \A k \in DOMAIN ixs : Stays(ixs[k], gone) =>
           KeyOfIndex(ixs2[k], gone2, col2) = KeyOfIndex(ixs[k], gone, col)
  PROVE  TableKeys(ixs2, gone2, col2) = TableKeys(ixs, gone, col)
<1>1. ASSUME NEW key \in TableKeys(ixs2, gone2, col2) PROVE key \in TableKeys(ixs, gone, col)
  <2>1. PICK k \in DOMAIN ixs2 : Stays(ixs2[k], gone2) /\ key = KeyOfIndex(ixs2[k], gone2, col2)
    BY TableKeysMember
  <2> QED
    BY <2>1, TableKeysMember
<1>2. ASSUME NEW key \in TableKeys(ixs, gone, col) PROVE key \in TableKeys(ixs2, gone2, col2)
  <2>1. PICK k \in DOMAIN ixs : Stays(ixs[k], gone) /\ key = KeyOfIndex(ixs[k], gone, col)
    BY TableKeysMember
  <2>2. Stays(ixs2[k], gone2) /\ key = KeyOfIndex(ixs2[k], gone2, col2)
    BY <2>1
  <2> QED
    BY <2>2, TableKeysMember
<1> QED
  BY <1>1, <1>2

LEMMA TableKeysSingle ==
  ASSUME NEW ix, NEW gone, NEW col
  PROVE  TableKeys(<<ix>>, gone, col) =
           IF Stays(ix, gone) THEN {KeyOfIndex(ix, gone, col)} ELSE {}
<1>1. DOMAIN <<ix>> = {1} /\ <<ix>>[1] = ix
  OBVIOUS
<1> QED
  BY <1>1 DEF TableKeys

(* An index less.                                                          *)
LEMMA TableKeysRemoved ==
  ASSUME NEW T, NEW ixs \in Seq(T), NEW i \in 1..Len(ixs), NEW gone, NEW col,
         Stays(ixs[i], gone) => \A j, k \in DOMAIN ixs : ixs[j].name = ixs[k].name => j = k
  PROVE  TableKeys(RemoveAt(ixs, i), gone, col) =
           IF Stays(ixs[i], gone) THEN TableKeys(ixs, gone, col) \ {KeyOfIndex(ixs[i], gone, col)}
           ELSE TableKeys(ixs, gone, col)
<1> DEFINE ixs2 == RemoveAt(ixs, i)
<1>1. /\ \A l \in DOMAIN ixs2 : \E k \in DOMAIN ixs : k # i /\ ixs2[l] = ixs[k]
      /\ \A k \in DOMAIN ixs : k # i => \E l \in DOMAIN ixs2 : ixs2[l] = ixs[k]
      /\ i \in DOMAIN ixs
  BY RemoveAtMembers
<1> HIDE DEF ixs2
<1>2. Stays(ixs[i], gone) =>
        \A k \in DOMAIN ixs : k # i => KeyOfIndex(ixs[k], gone, col) # KeyOfIndex(ixs[i], gone, col)
  <2> SUFFICES ASSUME Stays(ixs[i], gone), NEW k \in DOMAIN ixs, k # i,
                      KeyOfIndex(ixs[k], gone, col) = KeyOfIndex(ixs[i], gone, col)
               PROVE  FALSE
    OBVIOUS
  <2>1. /\ KeyOfIndex(ixs[k], gone, col).name = ixs[k].name
        /\ KeyOfIndex(ixs[i], gone, col).name = ixs[i].name
    BY DEF KeyOfIndex
  <2> QED
    BY <1>1, <2>1
<1>3. ASSUME NEW key \in TableKeys(ixs2, gone, col)
      PROVE  key \in TableKeys(ixs, gone, col) /\ (Stays(ixs[i], gone) => key # KeyOfIndex(ixs[i], gone, col))
  <2>1. PICK l \in DOMAIN ixs2 : Stays(ixs2[l], gone) /\ key = KeyOfIndex(ixs2[l], gone, col)
    BY TableKeysMember
  <2>2. PICK k \in DOMAIN ixs : k # i /\ ixs2[l] = ixs[k]
    BY <1>1
  <2> QED
    BY <1>2, <2>1, <2>2, TableKeysMember
<1>4. ASSUME NEW key \in TableKeys(ixs, gone, col),
             Stays(ixs[i], gone) => key # KeyOfIndex(ixs[i], gone, col)
      PROVE  key \in TableKeys(ixs2, gone, col)
  <2>1. PICK k \in DOMAIN ixs : Stays(ixs[k], gone) /\ key = KeyOfIndex(ixs[k], gone, col)
    BY TableKeysMember
  <2>2. k # i
    BY <1>4, <2>1
  <2>3. PICK l \in DOMAIN ixs2 : ixs2[l] = ixs[k]
    BY <1>1, <2>2
  <2> QED
    BY <2>1, <2>3, TableKeysMember
<1> QED
  BY <1>3, <1>4 DEF ixs2

-----------------------------------------------------------------------------
(* The table keeps its own invariant, and gets no row.                     *)

LEMMA CreateTableTable ==
  ASSUME TableInv, NEW s, WellFormed(s), CreateTable(s)
  PROVE  TableInv'
<1>1. rows' = rows
  BY DEF CreateTable, Fail, store
<1> QED
  BY <1>1, CreateTableType, CreateTableSafe, CreateTableTemp DEF TableInv, IndInv

LEMMA AddColumnTable ==
  ASSUME TableInv, NEW c \in Column, NEW after \in DOMAIN colDes, AddColumn(c, after)
  PROVE  TableInv'
<1>1. rows' = rows
  BY DEF AddColumn, Fail, store
<1> QED
  BY <1>1, AddColumnType, AddColumnSafe, AddColumnTemp DEF TableInv, IndInv

LEMMA ChangeColumnTable ==
  ASSUME TableInv, NEW c \in Column, NEW i \in DOMAIN colDes, ChangeColumn(i, c)
  PROVE  TableInv'
<1>1. rows' = rows
  BY DEF ChangeColumn, store
<1>2. pc # "failed" /\ UNCHANGED <<colDes, updCol, indexs, pc, pos, dropping>>
  BY DEF ChangeColumn, ctl
<1>3. WholeRow' = WholeRow
  BY <1>2 DEF WholeRow, InTable
<1>4. TempInv'
  BY <1>2, <1>3, TempKept DEF TableInv
<1> QED
  BY <1>1, <1>4, ChangeColumnType, ChangeColumnSafe DEF TableInv, IndInv

LEMMA DropColumnTable ==
  ASSUME TableInv, NEW i \in DOMAIN colDes, DropColumn(i)
  PROVE  TableInv'
<1>1. rows' = rows
  BY DEF DropColumn, store
<1> QED
  BY <1>1, DropColumnType, DropColumnSafe, DropColumnTemp DEF TableInv, IndInv

LEMMA AddUniqueIndexTable ==
  ASSUME TableInv, NEW key \in AddedKey, AddUniqueIndex(key)
  PROVE  TableInv'
<1>1. rows' = rows
  BY DEF AddUniqueIndex, Fail, store
<1> QED
  BY <1>1, AddUniqueIndexType, AddUniqueIndexSafe, AddUniqueIndexTemp DEF TableInv, IndInv

LEMMA DropUniqueIndexTable ==
  ASSUME TableInv, NEW p, NEW nm, DropUniqueIndex(p, nm)
  PROVE  TableInv'
<1>1. rows' = rows
  BY DEF DropUniqueIndex, Fail, store
<1> QED
  BY <1>1, DropUniqueIndexType, DropUniqueIndexSafe, DropUniqueIndexTemp DEF TableInv, IndInv

LEMMA RecomputeTable ==
  ASSUME TableInv, Recompute
  PROVE  TableInv' /\ ~ScanRow
<1>1. ~ScanRow
  <2> SUFFICES ASSUME ScanRow PROVE FALSE
    OBVIOUS
  <2>1. at <= Len(rows) /\ at \in 1..(Len(rows) + 1) /\ Len(rows) = 0
    BY EmptySeq DEF ScanRow, TableInv, IndInv, TypeOK, CtlType
  <2> QED
    BY <2>1
<1>2. DropFromIndex \/ DropFinish \/ ScanDone
  BY <1>1 DEF Recompute
<1>3. rows' = rows
  BY <1>2 DEF DropFromIndex, DropFinish, ScanDone, Fail, store
<1> QED
  BY <1>1, <1>2, <1>3, DropFromIndexType, DropFromIndexSafe, DropFromIndexTemp,
     DropFinishType, DropFinishSafe, DropFinishTemp, ScanDoneType, ScanDoneSafe, ScanDoneTemp
     DEF TableInv, IndInv

LEMMA FailTable ==
  ASSUME TableInv, Fail
  PROVE  TableInv'
<1>1. rows' = rows
  BY DEF Fail, store
<1> QED
  BY <1>1, FailType, FailSafe, FailTemp DEF TableInv, IndInv

(* What a process that ends must have met.                                 *)
Reasons ==
  {"prefix", "several", "quoted", "quotedKeys", "unnamed", "apart", "second", "unhandled"}

LEMMA FailTrace ==
  ASSUME TableInv, Fail, met' \cap Reasons # {}
  PROVE  TraceInv'
<1>1. pc' = "failed"
  BY DEF Fail
<1> QED
  BY <1>1, FailTable DEF TraceInv, Underway, EndsForAReason, Reasons

(* Between two statements.                                                 *)
LEMMA AtRest ==
  ASSUME TraceInv, pc = "call"
  PROVE  /\ TypeOK /\ FlowsInv /\ Len(indexs) \in Nat \ {0}
         /\ dropping = 0 /\ at = 0 /\ Left = colDes /\ Leaving = {} /\ InTable = Range(Left)
         /\ colDes \in Seq(1..Len(column)) /\ Len(colDes) \in Nat \ {0}
         /\ DOMAIN colDes = 1..Len(colDes)
         /\ \A i, j \in 1..Len(colDes) : colDes[i] = colDes[j] => i = j
         /\ column \in Seq(Column) /\ Len(column) \in Nat
         /\ \A c \in InTable : c \in 1..Len(column)
<1>1. TypeOK /\ TableInv /\ FlowsInv
  BY DEF TraceInv, TableInv, IndInv, Underway
<1>2. dropping = 0 /\ at = 0 /\ indexs # <<>>
  BY <1>1 DEF TypeOK, CtlType
<1>3. Left = colDes /\ Leaving = {} /\ InTable = Range(Left)
  BY <1>2 DEF Left, Leaving, InTable
<1>4. /\ colDes \in Seq(1..Len(column)) /\ Len(colDes) \in Nat
      /\ DOMAIN colDes = 1..Len(colDes)
      /\ column \in Seq(Column) /\ Len(column) \in Nat
      /\ \A c \in InTable : c \in 1..Len(column)
  BY <1>1, SchemaFacts
<1>5. Len(colDes) # 0
  <2>1. \E i \in DOMAIN colDes : colDes[i] = updCol
    BY <1>1, <1>3 DEF FlowsInv, UpdatedAtInv, Range
  <2> QED
    BY <1>4, <2>1
<1>6. \A i, j \in 1..Len(colDes) : colDes[i] = colDes[j] => i = j
  BY <1>1, <1>4 DEF TableInv, TempInv, ColumnsOnce
<1>7. Len(indexs) \in Nat \ {0}
  BY <1>1, <1>2, IndexsFacts, EmptySeq
<1> QED
  BY <1>1, <1>2, <1>3, <1>4, <1>5, <1>6, <1>7

-----------------------------------------------------------------------------
(* CREATE TABLE.                                                           *)

(* The statement as the table reads it.                                    *)
Positions(s, key) == {i \in DOMAIN s.cols : s.cols[i] \in key.names}

TableKey(s, key, q, un) ==
  [name |-> KeyText(key, q, un), isPrimary |-> key.isPrimary, cols |-> Positions(s, key)]

Written(s, q, inline, un) ==
  [cols |-> [i \in DOMAIN s.cols |-> [name |-> Stripped(s.cols[i], q), def |-> -1]],
   keys |-> IF inline THEN <<>> ELSE [k \in DOMAIN s.keys |-> TableKey(s, s.keys[k], q, un)]]

LEMMA SourceStatement ==
  ASSUME NEW s \in SourceCreates
  PROVE  /\ s.cols \in Seq(SourceColumn) /\ Len(s.cols) \in Nat \ {0} /\ Len(s.cols) <= MaxCols
         /\ DOMAIN s.cols = 1..Len(s.cols) /\ IsInjective(s.cols)
         /\ \A i \in DOMAIN s.cols : s.cols[i] \in SourceColumn
         /\ s.keys \in Seq(SourceKey) /\ Len(s.keys) \in Nat /\ DOMAIN s.keys = 1..Len(s.keys)
         /\ \A k \in DOMAIN s.keys : s.keys[k] \in SourceKey /\ s.keys[k].names \subseteq Range(s.cols)
         /\ \A k, l \in DOMAIN s.keys : s.keys[k].name = s.keys[l].name => k = l
         /\ UpdName \in Range(s.cols)
<1>1. /\ s.cols \in Seq(SourceColumn) /\ s.cols # <<>> /\ Len(s.cols) <= MaxCols
      /\ IsInjective(s.cols) /\ s.keys \in Seq(SourceKey)
      /\ \A k \in DOMAIN s.keys : s.keys[k].names \subseteq Range(s.cols)
      /\ \A k, l \in DOMAIN s.keys : s.keys[k].name = s.keys[l].name => k = l
  BY SourceAssumption DEF SourceAssumption
<1>2. UpdName \in Range(s.cols)
  BY UpdatedAtAssumption DEF UpdatedAtAssumption
<1>3. Len(s.cols) # 0
  BY <1>1, EmptySeq
<1> QED
  BY <1>1, <1>2, <1>3

LEMMA KeyPositions ==
  ASSUME NEW s \in SourceCreates, NEW k \in DOMAIN s.keys
  PROVE  /\ Positions(s, s.keys[k]) \in (SUBSET (1..Len(s.cols))) \ {{}}
         /\ {s.cols[i] : i \in Positions(s, s.keys[k])} = s.keys[k].names
<1> DEFINE key == s.keys[k]
<1>1. /\ key.names \subseteq Range(s.cols) /\ key.names # {} /\ DOMAIN s.cols = 1..Len(s.cols)
  BY SourceStatement DEF SourceKey
<1>2. \A nm \in key.names : \E i \in DOMAIN s.cols : s.cols[i] = nm
  BY <1>1 DEF Range
<1>3. PICK nm : nm \in key.names
  BY <1>1
<1>4. PICK i \in DOMAIN s.cols : s.cols[i] = nm
  BY <1>2, <1>3
<1>5. i \in Positions(s, key)
  BY <1>3, <1>4 DEF Positions
<1> QED
  BY <1>1, <1>2, <1>5 DEF Positions

LEMMA WrittenIsWellFormed ==
  ASSUME NEW s \in SourceCreates, NEW q, NEW inline \in BOOLEAN, NEW un
  PROVE  WellFormed(Written(s, q, inline, un))
<1> DEFINE w == Written(s, q, inline, un)
           n == Len(s.cols)
<1>1. /\ n \in Nat \ {0} /\ n <= MaxCols /\ DOMAIN s.cols = 1..n
      /\ \A i \in 1..n : s.cols[i] \in SourceColumn
  BY SourceStatement
<1>2. /\ w.cols = [i \in 1..n |-> [name |-> s.cols[i], def |-> -1]]
      /\ w.keys = IF inline THEN <<>> ELSE [k \in DOMAIN s.keys |-> TableKey(s, s.keys[k], q, un)]
  BY <1>1 DEF Written, Stripped
<1> HIDE DEF w, n
<1>3. w.cols \in Seq(Column) /\ Len(w.cols) = n
  <2>1. \A i \in 1..n : [name |-> s.cols[i], def |-> -1] \in Column
    BY <1>1 DEF SourceColumn, Column
  <2>2. w.cols \in [1..n -> Column]
    BY <1>2, <2>1
  <2> QED
    BY <1>1, <2>2, FunctionIsSeq
<1>4. w.cols # <<>> /\ DOMAIN w.cols = 1..n
  BY <1>1, <1>3
<1>5. \A i, j \in DOMAIN w.cols : w.cols[i].name = w.cols[j].name => i = j
  <2>1. \A i \in 1..n : w.cols[i].name = s.cols[i]
    BY <1>2
  <2>2. \A i, j \in 1..n : s.cols[i] = s.cols[j] => i = j
    BY <1>1, SourceStatement DEF IsInjective
  <2> QED
    BY <1>4, <2>1, <2>2
<1>6. w.keys \in Seq(KeyClause(n))
  <2>1. CASE inline
    BY <1>2, <2>1, EmptySeq
  <2>2. CASE ~inline
    <3>1. ASSUME NEW k \in DOMAIN s.keys PROVE TableKey(s, s.keys[k], q, un) \in KeyClause(n)
      <4>1. s.keys[k].name \in SourceKeyName \cup {""} /\ s.keys[k].isPrimary \in BOOLEAN
        BY SourceStatement DEF SourceKey
      <4>2. Positions(s, s.keys[k]) \in (SUBSET (1..n)) \ {{}}
        BY KeyPositions DEF n
      <4> QED
        BY <4>1, <4>2, KeyTexts DEF TableKey, KeyText, KeyClause
    <3>2. w.keys \in [1..Len(s.keys) -> KeyClause(n)]
      BY <1>2, <2>2, <3>1, SourceStatement
    <3> QED
      BY <3>2, SourceStatement, FunctionIsSeq
  <2> QED
    BY <2>1, <2>2
<1> QED
  BY <1>1, <1>3, <1>4, <1>5, <1>6 DEF WellFormed, w

Indexes(s, q, un) ==
  [k \in DOMAIN s.keys |->
     Index(KeyText(s.keys[k], q, un), s.keys[k].isPrimary, Positions(s, s.keys[k]))]

(* The table after it.                                                     *)
LEMMA Created ==
  ASSUME TableInv, NEW s \in SourceCreates, NEW q, NEW inline \in BOOLEAN, NEW un,
         CreateTable(Written(s, q, inline, un)), inline => Len(s.keys) = 1
  PROVE  /\ TableInv' /\ pc' = "call" /\ dropping' = 0
         /\ column' = [i \in 1..Len(s.cols) |-> [name |-> s.cols[i], def |-> -1]]
         /\ colDes' = [i \in 1..Len(s.cols) |-> i]
         /\ updCol' \in 1..Len(s.cols) /\ s.cols[updCol'] = UpdName
         /\ \/ (inline \/ s.keys = <<>>) /\ indexs' = << TempIndex(colDes', updCol') >>
            \/ ~inline /\ indexs' = Indexes(s, q, un)
<1> DEFINE w == Written(s, q, inline, un)
           n == Len(s.cols)
           all == [i \in DOMAIN w.cols |-> i]
           upd == UpdColOf(w.cols)
<1>1. /\ n \in Nat \ {0} /\ DOMAIN s.cols = 1..n
  BY SourceStatement
<1>2. /\ w.cols = [i \in 1..n |-> [name |-> s.cols[i], def |-> -1]]
      /\ w.keys = IF inline THEN <<>> ELSE [k \in DOMAIN s.keys |-> TableKey(s, s.keys[k], q, un)]
  BY <1>1 DEF Written, Stripped
<1>3. WellFormed(w) /\ CreateTable(w)
  BY WrittenIsWellFormed
<1> HIDE DEF w, n
<1>4. DOMAIN w.cols = 1..n /\ \A i \in 1..n : w.cols[i].name = s.cols[i]
  BY <1>2
<1>5. upd \in 1..n /\ s.cols[upd] = UpdName
  <2>1. \E i \in 1..n : s.cols[i] = UpdName
    BY <1>1, SourceStatement DEF Range
  <2>2. upd \in DOMAIN w.cols /\ w.cols[upd].name = UpdName
    BY <1>4, <2>1 DEF UpdColOf
  <2> QED
    BY <1>4, <2>2
<1>6. all = [i \in 1..n |-> i] /\ ~NoTempIndex(all, upd)
  <2>1. all = [i \in 1..n |-> i]
    BY <1>4
  <2>2. all[upd] = upd /\ upd \in DOMAIN all
    BY <1>5, <2>1
  <2> HIDE DEF all
  <2> QED
    BY <2>1, <2>2 DEF NoTempIndex, Range
<1>7. /\ pc = "new" /\ column' = w.cols /\ colDes' = all /\ updCol' = upd /\ Return
      /\ indexs' = IF w.keys = <<>> THEN << TempIndex(all, upd) >>
                   ELSE [k \in DOMAIN w.keys |->
                          Index(w.keys[k].name, w.keys[k].isPrimary, w.keys[k].cols)]
  BY <1>3, <1>6 DEF CreateTable
<1>8. dropping = 0 /\ TableInv'
  BY <1>3, <1>7, CreateTableTable DEF TableInv, IndInv, TypeOK, CtlType
<1> HIDE DEF all, upd
<1>9. \/ (inline \/ s.keys = <<>>) /\ indexs' = << TempIndex(all, upd) >>
      \/ ~inline /\ indexs' = Indexes(s, q, un)
  <2>1. CASE inline \/ s.keys = <<>>
    <3>1. w.keys = <<>>
      BY <1>2, <2>1, SourceStatement
    <3> QED
      BY <1>7, <2>1, <3>1
  <2>2. CASE ~inline /\ s.keys # <<>>
    <3>1. w.keys = [k \in DOMAIN s.keys |-> TableKey(s, s.keys[k], q, un)]
      BY <1>2, <2>2
    <3>2. w.keys # <<>> /\ DOMAIN w.keys = DOMAIN s.keys
      <4>1. 1 \in DOMAIN s.keys
        BY <2>2, SourceStatement, EmptySeq
      <4> QED
        BY <3>1, <4>1
    <3>3. ASSUME NEW k \in DOMAIN s.keys
          PROVE  Index(w.keys[k].name, w.keys[k].isPrimary, w.keys[k].cols)
                   = Index(KeyText(s.keys[k], q, un), s.keys[k].isPrimary, Positions(s, s.keys[k]))
      <4>1. w.keys[k] = TableKey(s, s.keys[k], q, un)
        BY <3>1
      <4> QED
        BY <4>1 DEF TableKey
    <3>4. indexs' = [k \in DOMAIN s.keys |->
                       Index(w.keys[k].name, w.keys[k].isPrimary, w.keys[k].cols)]
      BY <1>7, <3>2
    <3> QED
      BY <2>2, <3>3, <3>4 DEF Indexes
  <2> QED
    BY <2>1, <2>2
<1> QED
  BY <1>2, <1>5, <1>6, <1>7, <1>8, <1>9 DEF Return, n

(* The indexes of the table after it, by what the statement says.          *)
IndexesOf(ixs, col, s, q, un) ==
  /\ DOMAIN ixs = DOMAIN s.keys
  /\ \A k \in DOMAIN s.keys :
       ixs[k] = Index(KeyText(s.keys[k], q, un), s.keys[k].isPrimary, Positions(s, s.keys[k]))
  /\ \A i \in 1..Len(s.cols) : col[i].name = s.cols[i]

AsStated(ixs, col, s, q, un) ==
  /\ \A k \in DOMAIN ixs : /\ ~ixs[k].isTemp /\ ixs[k].name \in KeyName \cup {""}
                           /\ ixs[k].cols \in (SUBSET (1..Len(s.cols))) \ {{}}
  /\ un = {} => \A j, k \in DOMAIN ixs : ixs[j].name = ixs[k].name => j = k
  /\ un = {} /\ (q => \A k \in DOMAIN s.keys : s.keys[k].name = "") =>
       TableKeys(ixs, {}, col) = Range(s.keys)

LEMMA CreatedIndexes ==
  ASSUME NEW s \in SourceCreates, NEW q, NEW un, NEW ixs, NEW col, IndexesOf(ixs, col, s, q, un)
  PROVE  AsStated(ixs, col, s, q, un)
<1>0. /\ \A nm \in SourceKeyName \cup {""} : Text(nm, q) \in KeyName \cup {""}
      /\ \A nm, n \in SourceKeyName \cup {""} : Text(n, q) = Text(nm, q) => n = nm
  BY KeyTexts
<1>1. /\ \A k \in DOMAIN s.keys : s.keys[k].name \in SourceKeyName \cup {""}
      /\ \A k \in DOMAIN s.keys : Positions(s, s.keys[k]) \in (SUBSET (1..Len(s.cols))) \ {{}}
      /\ \A k \in DOMAIN s.keys : {s.cols[i] : i \in Positions(s, s.keys[k])} = s.keys[k].names
  <2>1. \A k \in DOMAIN s.keys : s.keys[k].name \in SourceKeyName \cup {""}
    BY SourceStatement DEF SourceKey
  <2> QED
    BY <2>1, KeyPositions
<1>2. /\ DOMAIN ixs = DOMAIN s.keys
      /\ \A k \in DOMAIN ixs : /\ ixs[k].name = KeyText(s.keys[k], q, un) /\ ~ixs[k].isTemp
                               /\ ixs[k].isPrimary = s.keys[k].isPrimary
                               /\ ixs[k].cols = Positions(s, s.keys[k])
  <2>1. DOMAIN ixs = DOMAIN s.keys
    BY DEF IndexesOf
  <2>2. ASSUME NEW k \in DOMAIN ixs
        PROVE  /\ ixs[k].name = KeyText(s.keys[k], q, un) /\ ~ixs[k].isTemp
               /\ ixs[k].isPrimary = s.keys[k].isPrimary
               /\ ixs[k].cols = Positions(s, s.keys[k])
    <3>1. ixs[k] = Index(KeyText(s.keys[k], q, un), s.keys[k].isPrimary, Positions(s, s.keys[k]))
      BY <2>1 DEF IndexesOf
    <3> QED
      BY <3>1 DEF Index
  <2> QED
    BY <2>1, <2>2
<1>3. \A k \in DOMAIN ixs : ixs[k].name \in KeyName \cup {""}
  <2> SUFFICES ASSUME NEW k \in DOMAIN ixs PROVE ixs[k].name \in KeyName \cup {""}
    OBVIOUS
  <2>1. ixs[k].name = KeyText(s.keys[k], q, un) /\ s.keys[k].name \in SourceKeyName \cup {""}
    BY <1>1, <1>2
  <2> QED
    BY <1>0, <2>1 DEF KeyText
<1>4. ASSUME un = {} PROVE \A j, k \in DOMAIN ixs : ixs[j].name = ixs[k].name => j = k
  <2> SUFFICES ASSUME NEW j \in DOMAIN ixs, NEW k \in DOMAIN ixs, ixs[j].name = ixs[k].name
               PROVE  j = k
    OBVIOUS
  <2>1. Text(s.keys[j].name, q) = Text(s.keys[k].name, q)
    BY <1>2, <1>4 DEF KeyText
  <2>2. s.keys[j].name = s.keys[k].name
    BY <1>0, <1>1, <1>2, <2>1
  <2> QED
    BY <1>2, <2>2, SourceStatement
<1>5. ASSUME un = {}, q => \A k \in DOMAIN s.keys : s.keys[k].name = ""
      PROVE  TableKeys(ixs, {}, col) = Range(s.keys)
  <2>a. \A k \in DOMAIN s.keys : KeyText(s.keys[k], q, un) = Text(s.keys[k].name, q)
    BY <1>5 DEF KeyText
  <2>1. ASSUME NEW k \in DOMAIN ixs
        PROVE  Stays(ixs[k], {}) /\ KeyOfIndex(ixs[k], {}, col) = s.keys[k]
    <3>1. Stays(ixs[k], {})
      <4>1. ~ixs[k].isTemp /\ ixs[k].cols # {}
        BY <1>1, <1>2
      <4> QED
        BY <4>1 DEF Stays
    <3>2. ixs[k].name = s.keys[k].name
      <4>1. CASE q
        <5>1. s.keys[k].name = ""
          BY <1>2, <1>5, <4>1
        <5>2. Text(s.keys[k].name, q) = ""
          BY <1>1, <1>2, <5>1, KeyTexts
        <5> QED
          BY <1>2, <2>a, <5>1, <5>2
      <4>2. CASE ~q
        BY <1>2, <2>a, <4>2 DEF Text
      <4> QED
        BY <4>1, <4>2
    <3>3. {col[c].name : c \in ixs[k].cols \ {}} = s.keys[k].names
      <4>1. \A c \in 1..Len(s.cols) : col[c].name = s.cols[c]
        BY DEF IndexesOf
      <4>2. ixs[k].cols \ {} = Positions(s, s.keys[k])
        BY <1>2
      <4>3. {col[c].name : c \in Positions(s, s.keys[k])} = {s.cols[c] : c \in Positions(s, s.keys[k])}
        <5>1. \A c \in Positions(s, s.keys[k]) : col[c].name = s.cols[c]
          BY <1>1, <1>2, <4>1
        <5> QED
          BY <5>1
      <4> QED
        BY <1>1, <1>2, <4>2, <4>3
    <3>4. s.keys[k] \in [name : SourceKeyName \cup {""}, isPrimary : BOOLEAN,
                         names : (SUBSET SourceColumn) \ {{}}]
      BY <1>2, SourceStatement DEF SourceKey
    <3> QED
      BY <1>2, <3>1, <3>2, <3>3, <3>4 DEF KeyOfIndex
  <2>2. \A key \in TableKeys(ixs, {}, col) : \E k \in DOMAIN s.keys : key = s.keys[k]
    BY <1>2, <2>1, TableKeysMember
  <2>3. \A k \in DOMAIN s.keys : s.keys[k] \in TableKeys(ixs, {}, col)
    <3> SUFFICES ASSUME NEW k \in DOMAIN s.keys PROVE s.keys[k] \in TableKeys(ixs, {}, col)
      OBVIOUS
    <3>1. k \in DOMAIN ixs
      BY <1>2
    <3>2. Stays(ixs[k], {}) /\ KeyOfIndex(ixs[k], {}, col) = s.keys[k]
      BY <2>1, <3>1
    <3> QED
      BY <3>1, <3>2, TableKeysMember
  <2> QED
    BY <2>2, <2>3 DEF Range
<1>6. \A k \in DOMAIN ixs : ixs[k].cols \in (SUBSET (1..Len(s.cols))) \ {{}}
  BY <1>1, <1>2
<1> QED
  BY <1>2, <1>3, <1>4, <1>5, <1>6 DEF AsStated

LEMMA TempKeyless ==
  ASSUME NEW cd, NEW upd, NEW gone, NEW col
  PROVE  TableKeys(<<TempIndex(cd, upd)>>, gone, col) = {}
<1>1. ~Stays(TempIndex(cd, upd), gone)
  BY DEF Stays, TempIndex
<1> QED
  BY <1>1, TableKeysSingle

(* The temporary index alone.                                              *)
LEMMA TempAlone ==
  ASSUME indexs' = << TempIndex(colDes', updCol') >>, dropping' = 0
  PROVE  IndexsInv' /\ TableKeys(indexs', Leaving', column') = {}
<1> DEFINE ix == TempIndex(colDes', updCol')
<1>1. DOMAIN indexs' = {1} /\ indexs'[1] = ix
  OBVIOUS
<1>2. /\ ix.isTemp /\ ix.name = "___TEMP_PRIMARY" /\ ~ix.isPrimary
      /\ ix.cols \subseteq Range(colDes')
  BY DEF TempIndex
<1> HIDE DEF ix
<1>3. \A k \in DOMAIN indexs' : IndexInv(k)'
  BY <1>1, <1>2 DEF IndexInv, InTable
<1> QED
  BY <1>1, <1>3, TempKeyless DEF IndexsInv

LEMMA LogCreateStep ==
  ASSUME TraceInv, NEW s \in SourceCreates, NEW q \in BOOLEAN, NEW inline \in BOOLEAN,
         NEW prefix \in BOOLEAN, NEW unnamed, LogCreate(s, q, inline, prefix, unnamed)
  PROVE  TraceInv'
<1>1. /\ cols' = s.cols /\ keys' = Range(s.keys) /\ (inline => Len(s.keys) = 1)
      /\ met' = met \cup When(inline, "inline") \cup When(prefix, "prefix")
                    \cup When(unnamed # {}, "unnamed")
                    \cup When(q /\ \E k \in keys' : k.name # "", "quotedKeys")
      /\ IF prefix THEN Fail ELSE CreateTable(Written(s, q, inline, unnamed))
  BY DEF LogCreate, Met, Written, TableKey, Positions, UniqueKeys
<1>2. TableInv
  BY DEF TraceInv
<1>3. CASE prefix
  <2>1. "prefix" \in met'
    BY <1>1, <1>3 DEF When
  <2> QED
    BY <1>1, <1>2, <1>3, <2>1, FailTrace DEF Reasons
<1>4. CASE ~prefix
  <2> DEFINE n == Len(s.cols)
  <2>1. n \in Nat /\ DOMAIN s.cols = 1..n /\ s.cols \in Seq(SourceColumn) /\ IsInjective(s.cols)
        /\ \A i \in 1..n : s.cols[i] \in SourceColumn
    BY SourceStatement
  <2> HIDE DEF n
  <2>2. /\ TableInv' /\ pc' = "call" /\ dropping' = 0
        /\ column' = [i \in 1..n |-> [name |-> s.cols[i], def |-> -1]]
        /\ colDes' = [i \in 1..n |-> i]
        /\ updCol' \in 1..n /\ s.cols[updCol'] = UpdName
    BY <1>1, <1>2, <1>4, Created DEF n
  <2>3. \/ (inline \/ s.keys = <<>>) /\ indexs' = << TempIndex(colDes', updCol') >>
        \/ ~inline /\ indexs' = Indexes(s, q, unnamed)
    BY <1>1, <1>2, <1>4, Created
  <2>4. Left' = colDes' /\ Leaving' = {} /\ Range(colDes') = 1..n /\ InTable' = 1..n
    <3>1. Range(colDes') = 1..n
      BY <2>2 DEF Range
    <3> QED
      BY <2>2, <3>1 DEF Left, Leaving, InTable
  <2>5. SourceInv'
    <3>1. Range(s.keys) \subseteq SourceKey /\ NamesOnce(Range(s.keys))
      BY SourceStatement DEF Range, NamesOnce
    <3> QED
      BY <1>1, <2>1, <3>1 DEF SourceInv
  <2>6. /\ IndexsInv'
        /\ unnamed = {} /\ (q => \A k \in keys' : k.name = "") =>
             /\ TableKeys(indexs', Leaving', column') \subseteq keys'
             /\ ~inline => keys' \subseteq TableKeys(indexs', Leaving', column')
    <3>1. CASE (inline \/ s.keys = <<>>) /\ indexs' = << TempIndex(colDes', updCol') >>
      <4>1. IndexsInv' /\ TableKeys(indexs', Leaving', column') = {}
        BY <2>2, <3>1, TempAlone
      <4>2. s.keys = <<>> => keys' = {}
        BY <1>1 DEF Range
      <4> QED
        BY <3>1, <4>1, <4>2
    <3>2. CASE indexs' = Indexes(s, q, unnamed)
      <4>1. /\ \A k \in DOMAIN indexs' : /\ ~indexs'[k].isTemp
                                         /\ indexs'[k].name \in KeyName \cup {""}
                                         /\ indexs'[k].cols \in (SUBSET (1..n)) \ {{}}
            /\ unnamed = {} =>
                 \A j, k \in DOMAIN indexs' : indexs'[j].name = indexs'[k].name => j = k
            /\ unnamed = {} /\ (q => \A k \in DOMAIN s.keys : s.keys[k].name = "") =>
                 TableKeys(indexs', {}, column') = Range(s.keys)
        <5>1. /\ DOMAIN indexs' = DOMAIN s.keys
              /\ \A k \in DOMAIN s.keys : indexs'[k] =
                   Index(KeyText(s.keys[k], q, unnamed), s.keys[k].isPrimary, Positions(s, s.keys[k]))
          BY <3>2 DEF Indexes
        <5>2. \A i \in 1..n : column'[i].name = s.cols[i]
          BY <2>2
        <5>3. IndexesOf(indexs', column', s, q, unnamed)
          BY <5>1, <5>2 DEF IndexesOf, n
        <5>4. AsStated(indexs', column', s, q, unnamed)
          BY <5>3, CreatedIndexes
        <5> QED
          BY <5>4 DEF AsStated, n
      <4>2. \A k \in DOMAIN s.keys : s.keys[k] \in keys'
        BY <1>1 DEF Range
      <4>3. \A k \in DOMAIN indexs' : IndexInv(k)'
        BY <2>2, <2>4, <4>1 DEF IndexInv
      <4>4. NotIn({"unnamed"})' => unnamed = {}
        BY <1>1 DEF NotIn, When
      <4> QED
        BY <1>1, <2>4, <4>1, <4>2, <4>3, <4>4 DEF IndexsInv
    <3> QED
      BY <2>3, <3>1, <3>2
  <2>7. UpdatedAtInv'
    <3>1. UpdName \in DOMAIN Quote
      BY <2>1, <2>2 DEF SourceColumn
    <3> QED
      BY <2>2, <2>4, <3>1 DEF UpdatedAtInv
  <2>8. \A i \in 1..n : column'[i].name = s.cols[i] /\ Bare(s.cols[i]) = s.cols[i]
    <3>1. \A i \in 1..n : s.cols[i] \in DOMAIN Quote
      BY <2>1 DEF SourceColumn
    <3> QED
      BY <2>2, <3>1, BareNames
  <2>9. OrderKept'
    <3>1. Len(colDes') = n /\ \A i \in 1..n : colDes'[i] = i
      BY <2>1, <2>2
    <3>2. Follows(s.cols, colDes', column')
      BY <2>1, <2>8, <3>1 DEF Follows, n
    <3> QED
      BY <1>1, <2>4, <3>2 DEF OrderKept
  <2>10. NamesKept'
    <3>1. SameNames(s.cols, 1..n, column')
      BY <2>1, <2>8 DEF SameNames, Range, IsInjective
    <3> QED
      BY <1>1, <2>4, <3>1 DEF NamesKept
  <2>11. KeysKept'
    <3>1. NotIn(KeyOddities)' => (q => \A k \in keys' : k.name = "") /\ unnamed = {}
      BY <1>1 DEF NotIn, When
    <3>2. NotIn({"inline"})' => ~inline
      BY <1>1 DEF NotIn, When
    <3> QED
      BY <2>6, <3>1, <3>2 DEF KeysKept
  <2> QED
    BY <2>2, <2>5, <2>6, <2>7, <2>9, <2>10, <2>11 DEF TraceInv, FlowsInv, EndsForAReason
<1> QED
  BY <1>3, <1>4

-----------------------------------------------------------------------------
(* What the steps of a log have in common.                                 *)

LEMMA StatementCarriedOut ==
  ASSUME TableInv', FlowsInv', pc' # "failed"
  PROVE  TraceInv'
BY DEF TraceInv, EndsForAReason

LEMMA MetBefore ==
  ASSUME NEW more, met' = met \cup more, NEW things, met' \cap things = {}
  PROVE  NotIn(things)
BY DEF NotIn

LEMMA AnotherFacts ==
  ASSUME NEW list \in Seq(SourceColumn), IsInjective(list), NEW more,
         more = AtEnd \/ (more \in SourceColumn /\ more \notin Range(list))
  PROVE  /\ Another(list, more) \in Seq(SourceColumn) /\ IsInjective(Another(list, more))
         /\ more = AtEnd => Another(list, more) = list
<1>1. CASE more = AtEnd
  BY <1>1 DEF Another
<1>2. CASE more # AtEnd
  <2> DEFINE a == Append(list, more)
  <2>1. more \in SourceColumn /\ more \notin Range(list) /\ Another(list, more) = a
    BY <1>2 DEF Another
  <2>2. /\ a \in Seq(SourceColumn) /\ Len(a) = Len(list) + 1 /\ Len(list) \in Nat
        /\ \A i \in 1..Len(list) : a[i] = list[i]
        /\ a[Len(list) + 1] = more
    BY <2>1
  <2>3. DOMAIN a = 1..(Len(list) + 1) /\ DOMAIN list = 1..Len(list)
    BY <2>2
  <2>4. \A i \in 1..Len(list) : list[i] # more
    BY <2>1, <2>3 DEF Range
  <2>5. \A i, j \in 1..Len(list) : list[i] = list[j] => i = j
    BY <2>3 DEF IsInjective
  <2> HIDE DEF a
  <2>6. ASSUME NEW i \in 1..(Len(list) + 1), NEW j \in 1..(Len(list) + 1), a[i] = a[j]
        PROVE  i = j
    <3>1. CASE i <= Len(list) /\ j <= Len(list)
      BY <2>2, <2>5, <2>6, <3>1
    <3>2. CASE i = Len(list) + 1 /\ j <= Len(list)
      <4>1. a[i] = more /\ a[j] = list[j] /\ j \in 1..Len(list)
        BY <2>2, <3>2
      <4> QED
        BY <2>4, <2>6, <4>1
    <3>3. CASE j = Len(list) + 1 /\ i <= Len(list)
      <4>1. a[j] = more /\ a[i] = list[i] /\ i \in 1..Len(list)
        BY <2>2, <3>3
      <4> QED
        BY <2>4, <2>6, <4>1
    <3>4. CASE i = Len(list) + 1 /\ j = Len(list) + 1
      BY <3>4
    <3> QED
      BY <2>2, <3>1, <3>2, <3>3, <3>4
  <2> QED
    BY <1>2, <2>1, <2>2, <2>3, <2>6 DEF IsInjective
<1> QED
  BY <1>1, <1>2

(* A column found under one of its texts.                                  *)
LEMMA FoundColumn ==
  ASSUME TraceInv, pc = "call", NEW nm \in SourceColumn, NEW q, Found(Text(nm, q))
  PROVE  /\ At(Text(nm, q)) \in 1..Len(colDes)
         /\ colDes[At(Text(nm, q))] \in Range(Left)
         /\ column[colDes[At(Text(nm, q))]].name = Text(nm, q)
         /\ Bare(column[colDes[At(Text(nm, q))]].name) = nm
<1>1. At(Text(nm, q)) \in DOMAIN colDes /\ column[colDes[At(Text(nm, q))]].name = Text(nm, q)
  BY FoundAt
<1>2. DOMAIN colDes = 1..Len(colDes) /\ Left = colDes
  BY AtRest
<1>3. Bare(Text(nm, q)) = nm
  BY SourceColumns, BareText
<1> QED
  BY <1>1, <1>2, <1>3 DEF Range

(* A column of the source is found, unless backquotes or left out items    *)
(* have made its name another.                                             *)
LEMMA ColumnFound ==
  ASSUME TraceInv, pc = "call", NotIn({"several", "quoted"}), NEW nm \in Range(cols)
  PROVE  Found(nm)
<1>1. SameNames(cols, Range(Left), column) /\ Left = colDes
  BY AtRest DEF FlowsInv, NamesKept
<1>2. \E c \in Range(colDes) : column[c].name = nm
  BY <1>1 DEF SameNames
<1> QED
  BY <1>2 DEF Found, Range

(* Where the source has it, if the order is kept.                          *)
LEMMA PlaceFollowed ==
  ASSUME TraceInv, pc = "call", NotIn({"first", "moved", "several"}),
         NEW nm \in SourceColumn, NEW q, Found(Text(nm, q))
  PROVE  /\ At(Text(nm, q)) \in 1..Len(cols) /\ cols[At(Text(nm, q))] = nm
         /\ Len(cols) = Len(colDes)
<1>1. Follows(cols, colDes, column)
  BY AtRest DEF FlowsInv, OrderKept
<1>2. At(Text(nm, q)) \in 1..Len(colDes) /\ Bare(column[colDes[At(Text(nm, q))]].name) = nm
  BY FoundColumn
<1> QED
  BY <1>1, <1>2 DEF Follows

-----------------------------------------------------------------------------
(* DROP COLUMN.                                                            *)

LEMMA KeysWithout ==
  ASSUME NEW ks \in SUBSET SourceKey, NamesOnce(ks), NEW nm
  PROVE  WithoutColumn(ks, nm) \subseteq SourceKey /\ NamesOnce(WithoutColumn(ks, nm))
<1>1. ASSUME NEW key \in WithoutColumn(ks, nm)
      PROVE  \E k \in ks : key = [k EXCEPT !.names = @ \ {nm}] /\ key.names # {}
  BY DEF WithoutColumn
<1>2. ASSUME NEW k \in ks, [k EXCEPT !.names = @ \ {nm}].names # {}
      PROVE  [k EXCEPT !.names = @ \ {nm}] \in SourceKey /\ [k EXCEPT !.names = @ \ {nm}].name = k.name
  <2>1. /\ k \in [name : SourceKeyName \cup {""}, isPrimary : BOOLEAN,
                  names : (SUBSET SourceColumn) \ {{}}]
        /\ k.isPrimary <=> k.name = ""
    BY DEF SourceKey
  <2> QED
    BY <1>2, <2>1 DEF SourceKey
<1>3. WithoutColumn(ks, nm) \subseteq SourceKey
  BY <1>1, <1>2
<1>4. ASSUME NEW a \in WithoutColumn(ks, nm), NEW b \in WithoutColumn(ks, nm), a.name = b.name
      PROVE  a = b
  <2>1. PICK k \in ks : a = [k EXCEPT !.names = @ \ {nm}] /\ a.names # {}
    BY <1>1
  <2>2. PICK l \in ks : b = [l EXCEPT !.names = @ \ {nm}] /\ b.names # {}
    BY <1>1
  <2>3. k.name = l.name
    BY <1>2, <1>4, <2>1, <2>2
  <2>4. k = l
    BY <2>3 DEF NamesOnce
  <2> QED
    BY <2>1, <2>2, <2>4
<1> QED
  BY <1>3, <1>4 DEF NamesOnce

LEMMA TableKeysWithout ==
  ASSUME NEW ixs, NEW col, NEW C, \A k \in DOMAIN ixs : ixs[k].cols \subseteq C,
         \A c, e \in C : col[c].name = col[e].name => c = e, NEW d \in C
  PROVE  TableKeys(ixs, {d}, col) = WithoutColumn(TableKeys(ixs, {}, col), col[d].name)
<1> DEFINE nm == col[d].name
           less(key) == [key EXCEPT !.names = @ \ {nm}]
<1>1. ASSUME NEW k \in DOMAIN ixs
      PROVE  /\ less(KeyOfIndex(ixs[k], {}, col)) = KeyOfIndex(ixs[k], {d}, col)
             /\ (less(KeyOfIndex(ixs[k], {}, col))).names # {} <=> ixs[k].cols \ {d} # {}
  <2>1. {col[c].name : c \in ixs[k].cols \ {}} \ {nm} = {col[c].name : c \in ixs[k].cols \ {d}}
    <3>1. \A c \in ixs[k].cols : col[c].name = nm <=> c = d
      OBVIOUS
    <3> HIDE DEF nm
    <3> QED
      BY <3>1
  <2>2. {col[c].name : c \in ixs[k].cols \ {d}} # {} <=> ixs[k].cols \ {d} # {}
    OBVIOUS
  <2> DEFINE A == {col[c].name : c \in ixs[k].cols \ {}}
             B == {col[c].name : c \in ixs[k].cols \ {d}}
  <2>3. /\ KeyOfIndex(ixs[k], {}, col)
             = [name |-> ixs[k].name, isPrimary |-> ixs[k].isPrimary, names |-> A]
        /\ KeyOfIndex(ixs[k], {d}, col)
             = [name |-> ixs[k].name, isPrimary |-> ixs[k].isPrimary, names |-> B]
        /\ A \ {nm} = B /\ (B # {} <=> ixs[k].cols \ {d} # {})
    BY <2>1, <2>2 DEF KeyOfIndex
  <2> HIDE DEF nm, A, B
  <2>4. less(KeyOfIndex(ixs[k], {}, col))
          = [name |-> ixs[k].name, isPrimary |-> ixs[k].isPrimary, names |-> A \ {nm}]
    BY <2>3
  <2>5. (less(KeyOfIndex(ixs[k], {}, col))).names = A \ {nm}
    <3> DEFINE m == less(KeyOfIndex(ixs[k], {}, col))
    <3>1. m = [name |-> ixs[k].name, isPrimary |-> ixs[k].isPrimary, names |-> A \ {nm}]
      BY <2>4
    <3> HIDE DEF m
    <3>2. m.names = A \ {nm}
      BY <3>1
    <3> QED
      BY <3>2 DEF m
  <2>6. less(KeyOfIndex(ixs[k], {}, col)) = KeyOfIndex(ixs[k], {d}, col)
    BY <2>3, <2>4
  <2> QED
    BY <2>3, <2>5, <2>6
<1>2. ASSUME NEW k \in DOMAIN ixs
      PROVE  /\ Stays(ixs[k], {d}) <=> /\ Stays(ixs[k], {})
                                       /\ (less(KeyOfIndex(ixs[k], {}, col))).names # {}
  <2>1. (less(KeyOfIndex(ixs[k], {}, col))).names # {} <=> ixs[k].cols \ {d} # {}
    BY <1>1
  <2> HIDE DEF less
  <2> QED
    BY <2>1 DEF Stays
<1>3. \A key : key \in WithoutColumn(TableKeys(ixs, {}, col), nm) <=>
         \E m \in TableKeys(ixs, {}, col) : key = less(m) /\ (less(m)).names # {}
  BY DEF WithoutColumn
<1> HIDE DEF nm, less
<1>4. ASSUME NEW key \in TableKeys(ixs, {d}, col)
      PROVE  key \in WithoutColumn(TableKeys(ixs, {}, col), nm)
  <2>1. PICK k \in DOMAIN ixs : Stays(ixs[k], {d}) /\ key = KeyOfIndex(ixs[k], {d}, col)
    BY TableKeysMember
  <2>2. /\ KeyOfIndex(ixs[k], {}, col) \in TableKeys(ixs, {}, col)
        /\ key = less(KeyOfIndex(ixs[k], {}, col)) /\ (less(KeyOfIndex(ixs[k], {}, col))).names # {}
    BY <1>1, <1>2, <2>1, TableKeysMember
  <2> QED
    BY <1>3, <2>2
<1>5. ASSUME NEW key \in WithoutColumn(TableKeys(ixs, {}, col), nm)
      PROVE  key \in TableKeys(ixs, {d}, col)
  <2>1. PICK m \in TableKeys(ixs, {}, col) : key = less(m) /\ (less(m)).names # {}
    BY <1>3
  <2>2. PICK k \in DOMAIN ixs : Stays(ixs[k], {}) /\ m = KeyOfIndex(ixs[k], {}, col)
    BY TableKeysMember
  <2>3. Stays(ixs[k], {d}) /\ key = KeyOfIndex(ixs[k], {d}, col)
    BY <1>1, <1>2, <2>1, <2>2
  <2> QED
    BY <2>3, TableKeysMember
<1> QED
  BY <1>4, <1>5 DEF nm

LEMMA LogDropColumnStep ==
  ASSUME TraceInv, NEW nm \in SourceNames, NEW q \in BOOLEAN, NEW more \in Mores({nm}),
         LogDropColumn(nm, q, more)
  PROVE  TraceInv'
<1> DEFINE text == Text(nm, q)
           i == At(text)
<1>1. /\ pc = "call" /\ nm \in Range(cols) /\ nm \in SourceColumn
      /\ cols' = Another(Without(cols, nm), more) /\ keys' = WithoutColumn(keys, nm)
      /\ met' = met \cup (When(q, "quoted") \cup When(more # AtEnd, "several"))
      /\ \/ Found(text) /\ DropColumn(i)
         \/ ~Found(text) /\ Fail
  BY TraceAssumption DEF LogDropColumn, Ready, Met, TraceAssumption
<1>2. TableInv /\ FlowsInv /\ SourceInv
  BY <1>1, AtRest DEF TraceInv, FlowsInv
<1>3. /\ NotIn({"several", "quoted"})' => ~q /\ more = AtEnd /\ NotIn({"several", "quoted"})
      /\ NotIn({"first", "moved", "several"})' =>
           more = AtEnd /\ NotIn({"first", "moved", "several"})
      /\ NotIn(KeyOddities)' =>
           /\ ~q /\ NotIn({"several", "quoted"}) /\ NotIn(KeyOddities)
      /\ NotIn({"inline"})' => NotIn({"inline"})
  BY <1>1 DEF NotIn, When
<1>4. CASE ~Found(text)
  <2>1. ~NotIn({"several", "quoted"})'
    <3> SUFFICES ASSUME NotIn({"several", "quoted"})' PROVE FALSE
      OBVIOUS
    <3>1. text = nm
      BY <1>3 DEF Text
    <3> QED
      BY <1>1, <1>3, <1>4, <3>1, ColumnFound
  <2> QED
    BY <1>1, <1>2, <1>4, <2>1, FailTrace DEF NotIn, Reasons
<1>5. CASE Found(text)
  <2> DEFINE d == colDes[i]
  <2>1. /\ i \in 1..Len(colDes) /\ d \in Range(Left) /\ column[d].name = text
        /\ Bare(column[d].name) = nm
    BY <1>1, <1>5, FoundColumn
  <2>2. /\ DropColumn(i) /\ i \in DOMAIN colDes
        /\ pc' = "drop" /\ dropping' = i /\ pos' = 1
        /\ UNCHANGED <<column, colDes, updCol, indexs>>
    BY <1>1, <1>5, <2>1, AtRest DEF DropColumn, schema
  <2>3. /\ Left = colDes /\ Leaving = {} /\ InTable = Range(colDes)
        /\ i # 0 /\ Left' = RemoveAt(colDes, i) /\ Leaving' = {d}
        /\ colDes \in Seq(1..Len(column)) /\ IsInjective(colDes)
    <3>1. /\ Left = colDes /\ Leaving = {} /\ InTable = Range(colDes)
          /\ colDes \in Seq(1..Len(column)) /\ DOMAIN colDes = 1..Len(colDes)
          /\ \A j, k \in 1..Len(colDes) : colDes[j] = colDes[k] => j = k
      BY <1>1, AtRest
    <3>2. i # 0
      BY <2>1
    <3> QED
      BY <2>2, <3>1, <3>2 DEF Left, Leaving, IsInjective
  <2>4. Range(RemoveAt(colDes, i)) = Range(colDes) \ {d}
    BY <2>1, <2>3, NameRemoved
  <2>5. TableInv'
    BY <1>2, <2>2, DropColumnTable
  <2>6. /\ Without(cols, nm) \in Seq(SourceColumn) /\ IsInjective(Without(cols, nm))
        /\ Range(Without(cols, nm)) = Range(cols) \ {nm}
        /\ \A j \in 1..Len(cols) : cols[j] = nm => Without(cols, nm) = RemoveAt(cols, j)
    BY <1>1, <1>2, WithoutFacts DEF SourceInv
  <2>7. /\ cols' \in Seq(SourceColumn) /\ IsInjective(cols')
        /\ more = AtEnd => cols' = Without(cols, nm)
    <3>1. more = AtEnd \/ (more \in SourceColumn /\ more \notin Range(Without(cols, nm)))
      BY <2>6, TraceAssumption DEF Mores, TraceAssumption
    <3> QED
      BY <1>1, <2>6, <3>1, AnotherFacts
  <2>8. SourceInv'
    BY <1>1, <1>2, <2>7, KeysWithout DEF SourceInv
  <2>9. IndexsInv'
    <3>1. ASSUME NEW k \in DOMAIN indexs PROVE IndexInv(k)'
      <4>1. IndexInv(k)
        BY <1>2 DEF FlowsInv, IndexsInv
      <4>2. k \in Nat \ {0}
        BY <1>2, IndexsFacts DEF TableInv, IndInv
      <4>3. ~(k < pos') /\ pc' # "scan"
        BY <2>2, <4>2
      <4> QED
        BY <1>1, <2>2, <2>3, <4>1, <4>3 DEF IndexInv, InTable
    <3> QED
      BY <1>1, <1>2, <2>2, <3>1 DEF FlowsInv, IndexsInv, NotIn
  <2>10. UpdatedAtInv'
    <3>1. updCol \in Range(colDes) /\ column[updCol].name = UpdName /\ UpdName \in DOMAIN Quote
      BY <1>2, <2>3 DEF FlowsInv, UpdatedAtInv
    <3>2. text # UpdName
      BY <3>1, TextOfOther
    <3>3. updCol \in Range(Left')
      BY <2>1, <2>3, <2>4, <3>1, <3>2
    <3> QED
      BY <2>2, <3>1, <3>3 DEF UpdatedAtInv
  <2>11. OrderKept'
    <3> SUFFICES ASSUME NotIn({"first", "moved", "several"})'
                 PROVE  Follows(cols', Left', column')
      BY DEF OrderKept
    <3>1. Follows(cols, colDes, column)
      BY <1>2, <1>3, <2>3 DEF FlowsInv, OrderKept
    <3>2. i \in 1..Len(cols) /\ cols[i] = nm
      BY <1>1, <1>3, <1>5, PlaceFollowed
    <3>3. cols' = RemoveAt(cols, i)
      BY <1>3, <2>6, <2>7, <3>2
    <3>4. Follows(RemoveAt(cols, i), RemoveAt(colDes, i), column)
      BY <1>2, <2>1, <2>3, <3>1, FollowsRemoved DEF SourceInv
    <3> QED
      BY <2>2, <2>3, <3>3, <3>4
  <2>12. NamesKept'
    <3> SUFFICES ASSUME NotIn({"several", "quoted"})'
                 PROVE  SameNames(cols', Range(Left'), column')
      BY DEF NamesKept
    <3>1. SameNames(cols, Range(colDes), column) /\ column[d].name = nm
      BY <1>2, <1>3, <2>1, <2>3 DEF FlowsInv, NamesKept, Text
    <3>2. Range(cols') = Range(cols) \ {column[d].name} /\ d \in Range(colDes)
      BY <1>3, <2>1, <2>3, <2>6, <2>7, <3>1
    <3> HIDE DEF d
    <3>3. SameNames(cols', Range(colDes) \ {d}, column)
      BY <3>1, <3>2, SameNamesShrunk
    <3> QED
      BY <2>2, <2>3, <2>4, <3>3
  <2>13. KeysKept'
    <3> SUFFICES ASSUME NotIn(KeyOddities)'
                 PROVE  /\ TableKeys(indexs', Leaving', column') \subseteq keys'
                        /\ NotIn({"inline"})' => keys' \subseteq TableKeys(indexs', Leaving', column')
      BY DEF KeysKept
    <3>1. SameNames(cols, Range(colDes), column) /\ column[d].name = nm
      BY <1>2, <1>3, <2>1, <2>3 DEF FlowsInv, NamesKept, Text
    <3>2. /\ \A k \in DOMAIN indexs : indexs[k].cols \subseteq Range(colDes)
          /\ \A c, e \in Range(colDes) : column[c].name = column[e].name => c = e
          /\ d \in Range(colDes)
      BY <1>2, <2>1, <2>3, <3>1 DEF FlowsInv, IndexsInv, IndexInv, SameNames
    <3>3. TableKeys(indexs, {d}, column) = WithoutColumn(TableKeys(indexs, {}, column), column[d].name)
      <4> HIDE DEF d
      <4> QED
        BY <3>2, TableKeysWithout
    <3>4. /\ TableKeys(indexs, {}, column) \subseteq keys
          /\ NotIn({"inline"}) => keys \subseteq TableKeys(indexs, {}, column)
      BY <1>2, <1>3, <2>3 DEF FlowsInv, KeysKept
    <3>5. \A a, b : a \subseteq b => WithoutColumn(a, nm) \subseteq WithoutColumn(b, nm)
      BY DEF WithoutColumn
    <3>6. TableKeys(indexs', Leaving', column') = WithoutColumn(TableKeys(indexs, {}, column), nm)
      BY <2>2, <2>3, <3>1, <3>3
    <3> QED
      BY <1>1, <1>3, <3>4, <3>5, <3>6
  <2> QED
    BY <2>2, <2>5, <2>8, <2>9, <2>10, <2>11, <2>12, <2>13, StatementCarriedOut DEF FlowsInv
<1> QED
  BY <1>4, <1>5

-----------------------------------------------------------------------------
(* The rest of a DROP COLUMN, and the ends of the other ALTER statements.  *)

LEMMA SourceUntouched ==
  ASSUME FlowsInv, UNCHANGED sourceVars, UNCHANGED <<column, updCol>>, Left' = Left,
         TableKeys(indexs', Leaving', column') = TableKeys(indexs, Leaving, column), IndexsInv'
  PROVE  FlowsInv'
<1>1. UNCHANGED <<cols, keys, met>>
  BY DEF sourceVars
<1>2. SourceInv'
  BY <1>1 DEF FlowsInv, SourceInv
<1>3. UpdatedAtInv'
  BY DEF FlowsInv, UpdatedAtInv
<1>4. OrderKept' /\ NamesKept'
  BY <1>1 DEF FlowsInv, OrderKept, NamesKept, NotIn
<1>5. KeysKept'
  BY <1>1 DEF FlowsInv, KeysKept, NotIn
<1> QED
  BY <1>2, <1>3, <1>4, <1>5 DEF FlowsInv

(* An index that does not have the column, or no longer.                   *)
LEMMA SweepStep ==
  ASSUME TypeOK, IndexsInv, pc \in {"drop", "scan"}, dropping # 0, pos \in 1..Len(indexs),
         colDes[dropping] \notin indexs[pos].cols,
         Sweep, pc' = "drop", UNCHANGED <<column, colDes, updCol, dropping, met>>
  PROVE  /\ IndexsInv'
         /\ TableKeys(indexs', Leaving', column') = TableKeys(indexs, Leaving, column)
<1> DEFINE d == colDes[dropping]
<1>1. /\ indexs \in Seq(IndexType(Len(column), Len(heap))) /\ Len(indexs) \in Nat
      /\ DOMAIN indexs = 1..Len(indexs)
  BY IndexsFacts
<1>2. /\ Leaving = {d} /\ Leaving' = {d} /\ InTable' = InTable /\ colDes'[dropping'] = d
  BY DEF Leaving, InTable
<1>3. /\ \A k \in DOMAIN indexs : IndexInv(k)
      /\ NotIn({"unnamed"}) =>
           \A j, k \in DOMAIN indexs : indexs[j].name = indexs[k].name => j = k
      /\ NotIn({"unnamed"})' => NotIn({"unnamed"})
  BY DEF IndexsInv, NotIn
<1>4. ASSUME NEW k \in DOMAIN indexs, k # pos
      PROVE  /\ indexs[k].cols \subseteq InTable
             /\ indexs[k].isTemp => indexs[k].name = "___TEMP_PRIMARY" /\ ~indexs[k].isPrimary
             /\ ~indexs[k].isTemp => indexs[k].name \in KeyName \cup {""}
             /\ ~indexs[k].isTemp => indexs[k].cols # {}
             /\ k < pos => d \notin indexs[k].cols
  BY <1>3, <1>4 DEF IndexInv
<1>5. CASE indexs[pos].cols = {}
  <2>1. indexs' = RemoveAt(indexs, pos) /\ pos' = pos
    BY <1>5 DEF Sweep
  <2>2. /\ \A l \in DOMAIN indexs' : \E k \in DOMAIN indexs :
             /\ k # pos /\ indexs'[l] = indexs[k]
             /\ IF l < pos THEN k = l ELSE k = l + 1
    BY <1>1, <2>1, RemoveAtMembers
  <2>3. ASSUME NEW l \in DOMAIN indexs' PROVE IndexInv(l)'
    <3>1. PICK k \in DOMAIN indexs : k # pos /\ indexs'[l] = indexs[k] /\ (l < pos => k = l)
      BY <2>2
    <3>2. /\ indexs'[l].cols \subseteq InTable'
          /\ indexs'[l].isTemp => indexs'[l].name = "___TEMP_PRIMARY" /\ ~indexs'[l].isPrimary
          /\ ~indexs'[l].isTemp => indexs'[l].name \in KeyName \cup {""}
          /\ ~indexs'[l].isTemp => indexs'[l].cols # {}
          /\ l < pos' => d \notin indexs'[l].cols
      BY <1>2, <1>4, <2>1, <3>1
    <3>3. pc' # "scan"
      OBVIOUS
    <3> HIDE DEF d
    <3> QED
      BY <1>2, <3>2, <3>3 DEF IndexInv
  <2>4. NotIn({"unnamed"})' =>
          \A j, l \in DOMAIN indexs' : indexs'[j].name = indexs'[l].name => j = l
    <3> SUFFICES ASSUME NotIn({"unnamed"})', NEW j \in DOMAIN indexs', NEW l \in DOMAIN indexs',
                        indexs'[j].name = indexs'[l].name
                 PROVE  j = l
      OBVIOUS
    <3>1. PICK k \in DOMAIN indexs : indexs'[j] = indexs[k] /\ IF j < pos THEN k = j ELSE k = j + 1
      BY <2>2
    <3>2. PICK m \in DOMAIN indexs : indexs'[l] = indexs[m] /\ IF l < pos THEN m = l ELSE m = l + 1
      BY <2>2
    <3>3. k = m
      BY <1>3, <3>1, <3>2
    <3>4. j \in Nat /\ l \in Nat
      <4>1. RemoveAt(indexs, pos) \in Seq(IndexType(Len(column), Len(heap)))
        BY <1>1, RemoveAtFacts
      <4>2. DOMAIN indexs' = 1..Len(indexs')
        BY <2>1, <4>1
      <4> QED
        BY <4>2
    <3> QED
      BY <3>1, <3>2, <3>3, <3>4
  <2>5. TableKeys(indexs', {d}, column) = TableKeys(indexs, {d}, column)
    <3>1. ~Stays(indexs[pos], {d})
      BY <1>5 DEF Stays
    <3> QED
      BY <1>1, <2>1, <3>1, TableKeysRemoved
  <2> QED
    BY <1>2, <2>3, <2>4, <2>5 DEF IndexsInv
<1>6. CASE indexs[pos].cols # {}
  <2>1. indexs' = indexs /\ pos' = pos + 1
    BY <1>6 DEF Sweep
  <2>2. ASSUME NEW k \in DOMAIN indexs PROVE IndexInv(k)'
    <3>1. IndexInv(k)
      BY <1>3
    <3>2. k < pos' => k < pos \/ k = pos
      BY <1>1, <2>1
    <3>3. k < pos' => d \notin indexs[k].cols
      BY <1>4, <3>2
    <3>4. ~indexs[k].isTemp => indexs[k].cols # {}
      BY <1>4, <1>6
    <3>5. pc' # "scan"
      OBVIOUS
    <3> HIDE DEF d
    <3> QED
      BY <1>2, <2>1, <3>1, <3>3, <3>4, <3>5 DEF IndexInv
  <2> QED
    BY <1>2, <1>3, <2>1, <2>2 DEF IndexsInv
<1> QED
  BY <1>5, <1>6

LEMMA RecomputeStep ==
  ASSUME TraceInv, Recompute, UNCHANGED sourceVars
  PROVE  TraceInv'
<1>1. TableInv /\ TableInv' /\ TypeOK /\ (DropFromIndex \/ DropFinish \/ ScanDone)
  BY RecomputeTable DEF TraceInv, TableInv, IndInv, Recompute
<1>2. FlowsInv /\ Underway
  BY <1>1 DEF TraceInv, Underway, DropFromIndex, DropFinish, ScanDone
<1>3. /\ indexs \in Seq(IndexType(Len(column), Len(heap))) /\ Len(indexs) \in Nat
      /\ DOMAIN indexs = 1..Len(indexs)
  BY <1>1, IndexsFacts
<1>4. /\ \A k \in DOMAIN indexs : IndexInv(k)
      /\ NotIn({"unnamed"})' =>
           \A j, k \in DOMAIN indexs : indexs[j].name = indexs[k].name => j = k
      /\ UNCHANGED met
  BY <1>2 DEF FlowsInv, IndexsInv, NotIn, sourceVars
<1> DEFINE d == colDes[dropping]
<1>5. CASE DropFromIndex
  <2>1. /\ pc = "drop" /\ pos \in 1..Len(indexs) /\ dropping # 0
    BY <1>1, <1>3, <1>5 DEF DropFromIndex, TypeOK, CtlType
  <2>2. CASE d \in indexs[pos].cols
    <3>1. /\ indexs' = [indexs EXCEPT ![pos] = ReKeyed(@, @.cols \ {d})]
          /\ pc' = "scan" /\ pos' = pos
          /\ UNCHANGED <<column, colDes, updCol, dropping>>
      BY <1>5, <2>2 DEF DropFromIndex, Scan, schema
    <3>2. Left' = Left /\ Leaving = {d} /\ Leaving' = {d} /\ InTable' = InTable /\ colDes'[dropping'] = d
      BY <2>1, <3>1 DEF Left, Leaving, InTable
    <3> HIDE DEF d
    <3>3. /\ DOMAIN indexs' = DOMAIN indexs
          /\ \A k \in DOMAIN indexs : k # pos => indexs'[k] = indexs[k]
          /\ indexs'[pos] = ReKeyed(indexs[pos], indexs[pos].cols \ {d})
      BY <1>3, <2>1, <3>1
    <3>4. /\ indexs'[pos].cols = indexs[pos].cols \ {d} /\ indexs'[pos].name = indexs[pos].name
          /\ indexs'[pos].isTemp = indexs[pos].isTemp
          /\ indexs'[pos].isPrimary = indexs[pos].isPrimary
      <4>1. indexs[pos] \in IndexType(Len(column), Len(heap))
        BY <1>3, <2>1
      <4> QED
        BY <3>3, <4>1 DEF ReKeyed, IndexType
    <3>5. ASSUME NEW k \in DOMAIN indexs PROVE IndexInv(k)'
      <4>1. IndexInv(k) /\ k \in Nat /\ pos \in Nat
        BY <1>3, <1>4, <2>1
      <4>2. CASE k = pos
        BY <2>1, <3>1, <3>2, <3>4, <4>1, <4>2 DEF IndexInv
      <4>3. CASE k # pos
        <5>1. indexs'[k] = indexs[k]
          BY <3>3, <4>3
        <5>2. colDes[dropping] = d
          BY DEF d
        <5> QED
          BY <2>1, <3>1, <3>2, <4>1, <4>3, <5>1, <5>2 DEF IndexInv
      <4> QED
        BY <4>2, <4>3
    <3>6. IndexsInv'
      <4>1. \A k \in DOMAIN indexs : indexs'[k].name = indexs[k].name
        BY <3>3, <3>4
      <4> QED
        BY <1>4, <3>3, <3>5, <4>1 DEF IndexsInv
    <3>7. TableKeys(indexs', {d}, column) = TableKeys(indexs, {d}, column)
      <4>1. \A k \in DOMAIN indexs :
              /\ indexs'[k].cols \ {d} = indexs[k].cols \ {d} /\ indexs'[k].name = indexs[k].name
              /\ indexs'[k].isTemp = indexs[k].isTemp /\ indexs'[k].isPrimary = indexs[k].isPrimary
        BY <3>3, <3>4
      <4>2. ASSUME NEW k \in DOMAIN indexs
            PROVE  /\ Stays(indexs'[k], {d}) <=> Stays(indexs[k], {d})
                   /\ KeyOfIndex(indexs'[k], {d}, column) = KeyOfIndex(indexs[k], {d}, column)
        BY <4>1 DEF Stays, KeyOfIndex
      <4> QED
        BY <3>3, <4>2, TableKeysSame
    <3>8. FlowsInv'
      BY <1>2, <3>1, <3>2, <3>6, <3>7, SourceUntouched
    <3> QED
      BY <1>1, <3>1, <3>8, StatementCarriedOut
  <2>3. CASE d \notin indexs[pos].cols
    <3>1. Sweep /\ pc' = "drop" /\ UNCHANGED <<column, colDes, updCol, dropping>>
      BY <1>5, <2>1, <2>3 DEF DropFromIndex, schema
    <3>2. /\ IndexsInv'
          /\ TableKeys(indexs', Leaving', column') = TableKeys(indexs, Leaving, column)
      BY <1>1, <1>2, <1>4, <2>1, <2>3, <3>1, SweepStep DEF FlowsInv
    <3>3. Left' = Left
      BY <3>1 DEF Left
    <3> QED
      BY <1>1, <1>2, <3>1, <3>2, <3>3, SourceUntouched, StatementCarriedOut
  <2> QED
    BY <2>2, <2>3
<1>6. CASE ScanDone
  <2>1. pc = "scan" /\ UNCHANGED <<column, colDes, updCol, dropping>> /\ pos \in 1..Len(indexs)
    BY <1>1, <1>3, <1>6 DEF ScanDone, schema, TypeOK, CtlType
  <2>2. Left' = Left
    BY <2>1 DEF Left
  <2>3. CASE dropping = 0
    <3>1. pc' = "call" /\ UNCHANGED <<indexs, pos>>
      BY <1>6, <2>3 DEF ScanDone
    <3>2. ASSUME NEW k \in DOMAIN indexs PROVE IndexInv(k)'
      BY <1>4, <2>1, <2>3, <3>1 DEF IndexInv, InTable
    <3>3. IndexsInv' /\ TableKeys(indexs', Leaving', column') = TableKeys(indexs, Leaving, column)
      BY <1>4, <2>1, <3>1, <3>2 DEF IndexsInv, Leaving
    <3> QED
      BY <1>1, <1>2, <2>1, <2>2, <3>1, <3>3, SourceUntouched, StatementCarriedOut
  <2>4. CASE dropping # 0
    <3>1. pc' = "drop" /\ Sweep
      BY <1>6, <2>4 DEF ScanDone
    <3>2. d \notin indexs[pos].cols
      BY <1>3, <1>4, <2>1, <2>4 DEF IndexInv
    <3>3. /\ IndexsInv'
          /\ TableKeys(indexs', Leaving', column') = TableKeys(indexs, Leaving, column)
      BY <1>1, <1>2, <1>4, <2>1, <2>4, <3>1, <3>2, SweepStep DEF FlowsInv
    <3> QED
      BY <1>1, <1>2, <2>1, <2>2, <3>1, <3>3, SourceUntouched, StatementCarriedOut
  <2> QED
    BY <2>3, <2>4
<1>7. CASE DropFinish
  <2> DEFINE order == RemoveAt(colDes, dropping)
  <2>1. pc = "drop" /\ pos > Len(indexs) /\ dropping # 0 /\ dropping \in 1..Len(colDes)
    BY <1>1, <1>7, SchemaFacts DEF DropFinish, TypeOK, CtlType
  <2>2. Left = order /\ updCol \in Range(order) /\ Leaving = {d}
    BY <1>2, <2>1 DEF Left, Leaving, FlowsInv, UpdatedAtInv
  <2>3. /\ colDes' = order /\ dropping' = 0 /\ UNCHANGED <<column, updCol>>
        /\ pc' \in {"call", "scan"}
        /\ \/ indexs # <<>> /\ indexs' = indexs /\ pc' = "call"
           \/ indexs = <<>> /\ indexs' = << TempIndex(order, updCol) >>
    BY <1>7, <2>2 DEF DropFinish, NoTempIndex, Scan
  <2>4. Left' = Left /\ Leaving' = {} /\ InTable' = Range(order)
    BY <2>2, <2>3 DEF Left, Leaving, InTable
  <2>5. Range(order) = InTable \ {d}
    <3>1. /\ colDes \in Seq(1..Len(column)) /\ DOMAIN colDes = 1..Len(colDes)
          /\ \A i, j \in 1..Len(colDes) : colDes[i] = colDes[j] => i = j
      BY <1>1, SchemaFacts DEF TableInv, TempInv, ColumnsOnce
    <3> QED
      BY <2>1, <3>1, RemoveAtOnce DEF InTable
  <2> HIDE DEF order
  <2>6. CASE indexs # <<>> /\ indexs' = indexs /\ pc' = "call"
    <3>1. ASSUME NEW k \in DOMAIN indexs
          PROVE  d \notin indexs[k].cols /\ IndexInv(k)'
      <4>1. IndexInv(k) /\ k < pos
        BY <1>1, <1>3, <1>4, <2>1 DEF TypeOK, CtlType
      <4>2. d \notin indexs[k].cols
        BY <2>1, <4>1 DEF IndexInv
      <4> HIDE DEF d
      <4> QED
        BY <2>1, <2>3, <2>4, <2>5, <2>6, <4>1, <4>2 DEF IndexInv
    <3>2. IndexsInv'
      BY <1>4, <2>6, <3>1 DEF IndexsInv
    <3>3. TableKeys(indexs, {}, column) = TableKeys(indexs, {d}, column)
      <4> HIDE DEF d
      <4>1. ASSUME NEW k \in DOMAIN indexs
            PROVE  /\ Stays(indexs[k], {}) <=> Stays(indexs[k], {d})
                   /\ KeyOfIndex(indexs[k], {}, column) = KeyOfIndex(indexs[k], {d}, column)
        <5>1. indexs[k].cols \ {} = indexs[k].cols \ {d}
          BY <3>1
        <5> QED
          BY <5>1 DEF Stays, KeyOfIndex
      <4> QED
        BY <4>1, TableKeysSame
    <3> QED
      BY <1>1, <1>2, <2>2, <2>3, <2>4, <2>6, <3>2, <3>3, SourceUntouched, StatementCarriedOut
  <2>7. CASE indexs = <<>> /\ indexs' = << TempIndex(order, updCol) >>
    <3>1. IndexsInv' /\ TableKeys(indexs', Leaving', column') = {}
      BY <2>3, <2>7, TempAlone
    <3>2. TableKeys(indexs, Leaving, column) = {}
      BY <2>7, TableKeysMember, EmptySeq
    <3> QED
      BY <1>1, <1>2, <2>3, <2>4, <3>1, <3>2, SourceUntouched, StatementCarriedOut
  <2> QED
    BY <2>3, <2>6, <2>7
<1> QED
  BY <1>1, <1>5, <1>6, <1>7

-----------------------------------------------------------------------------
(* ADD COLUMN.                                                             *)

LEMMA TempOnly ==
  ASSUME TraceInv, pc = "call", HasTemp, NEW gone, NEW col
  PROVE  Len(indexs) = 1 /\ indexs[1].isTemp /\ TableKeys(indexs, gone, col) = {}
<1>1. /\ indexs # <<>> /\ indexs[1].isTemp /\ TempInv /\ dropping = 0
      /\ DOMAIN indexs = 1..Len(indexs) /\ Len(indexs) \in Nat \ {0}
  BY AtRest, IndexsFacts DEF HasTemp, TraceInv, TableInv
<1>2. Len(indexs) = 1
  BY <1>1 DEF TempInv, TempFits
<1>3. \A k \in DOMAIN indexs : ~Stays(indexs[k], gone)
  BY <1>1, <1>2 DEF Stays
<1> QED
  BY <1>1, <1>2, <1>3, TableKeysMember

LEMMA ColumnAdded ==
  ASSUME TraceInv, pc = "call", NEW c \in Column, c.name # UpdName,
         NEW p \in 1..Len(colDes), AddColumn(c, p), met \subseteq met'
  PROVE  /\ TableInv' /\ IndexsInv' /\ UpdatedAtInv' /\ pc' # "failed"
         /\ colDes' = InsertAt(colDes, p + 1, Len(column) + 1)
         /\ Left' = colDes' /\ Range(colDes') = Range(colDes) \cup {Len(column) + 1}
         /\ \A e \in Range(colDes) : column'[e] = column[e]
         /\ column'[Len(column) + 1] = c
         /\ TableKeys(indexs', Leaving', column') = TableKeys(indexs, Leaving, column)
<1> DEFINE new   == Len(column) + 1
           order == InsertAt(colDes, p + 1, new)
<1>1. /\ TableInv /\ IndexsInv /\ UpdatedAtInv /\ Left = colDes /\ Leaving = {} /\ InTable = Range(colDes)
      /\ colDes \in Seq(1..Len(column)) /\ DOMAIN colDes = 1..Len(colDes) /\ Len(colDes) \in Nat
      /\ column \in Seq(Column) /\ Len(column) \in Nat /\ dropping = 0
      /\ \A e \in InTable : e \in 1..Len(column)
  BY AtRest DEF FlowsInv, TraceInv
<1>2. colDes \in Seq(1..new) /\ new \in 1..new /\ p + 1 \in 1..(Len(colDes) + 1)
  <2>1. \A i \in 1..Len(colDes) : colDes[i] \in 1..new
    BY <1>1, ElementOfSeq
  <2> QED
    BY <1>1, <2>1
<1>3. Range(order) = Range(colDes) \cup {new}
  <2> HIDE DEF new
  <2> QED
    BY <1>2, InsertAtRange
<1>4. updCol \in Range(order) /\ updCol \in Range(colDes)
  BY <1>1, <1>3 DEF UpdatedAtInv
<1> HIDE DEF order
<1>5. /\ column' = Append(column, c) /\ colDes' = order /\ updCol' = updCol
      /\ dropping' = 0 /\ pc' \in {"call", "scan"}
      /\ indexs' = IF HasTemp THEN << TempIndex(order, updCol) >> ELSE indexs
      /\ ~HasTemp => pc' = "call"
  BY <1>1, <1>4 DEF AddColumn, NoTempIndex, Scan, ctl, order
<1>6. Left' = colDes' /\ Leaving' = {} /\ InTable' = Range(order) /\ TableInv'
  BY <1>1, <1>5, AddColumnTable DEF Left, Leaving, InTable
<1>7. (\A e \in 1..Len(column) : column'[e] = column[e]) /\ column'[new] = c
  BY <1>1, <1>5
<1>8. \A e \in Range(colDes) : column'[e] = column[e]
  BY <1>1, <1>7
<1>9. UpdatedAtInv'
  BY <1>1, <1>4, <1>5, <1>6, <1>8 DEF UpdatedAtInv
<1>10. IndexsInv' /\ TableKeys(indexs', Leaving', column') = TableKeys(indexs, Leaving, column)
  <2>1. CASE HasTemp
    <3>1. indexs' = << TempIndex(colDes', updCol') >>
      BY <1>5, <2>1
    <3>2. IndexsInv' /\ TableKeys(indexs', Leaving', column') = {}
      BY <1>5, <3>1, TempAlone
    <3> QED
      BY <2>1, <3>2, TempOnly
  <2>2. CASE ~HasTemp
    <3>1. indexs' = indexs /\ pc' = "call"
      BY <1>5, <2>2
    <3>2. \A k \in DOMAIN indexs : IndexInv(k) /\ indexs[k].cols \subseteq Range(colDes)
      BY <1>1 DEF IndexsInv, IndexInv
    <3>3. ASSUME NEW k \in DOMAIN indexs PROVE IndexInv(k)'
      BY <1>1, <1>3, <1>5, <1>6, <3>1, <3>2 DEF IndexInv
    <3>4. ASSUME NEW k \in DOMAIN indexs
          PROVE  KeyOfIndex(indexs[k], {}, column') = KeyOfIndex(indexs[k], {}, column)
      <4>1. \A e \in indexs[k].cols \ {} : column'[e] = column[e]
        BY <1>8, <3>2
      <4>2. {column'[e].name : e \in indexs[k].cols \ {}} = {column[e].name : e \in indexs[k].cols \ {}}
        BY <4>1
      <4> QED
        BY <4>2 DEF KeyOfIndex
    <3>5. TableKeys(indexs, {}, column') = TableKeys(indexs, {}, column)
      BY <3>4, TableKeysSame
    <3> QED
      BY <1>1, <1>6, <3>1, <3>3, <3>5 DEF IndexsInv, NotIn
  <2> QED
    BY <2>1, <2>2
<1> QED
  BY <1>3, <1>5, <1>6, <1>7, <1>8, <1>9, <1>10 DEF order

LEMMA LogAddColumnStep ==
  ASSUME TraceInv, NEW nm \in SourceNames, NEW where \in Places, NEW q \in BOOLEAN,
         NEW more \in Mores({nm}), LogAddColumn(nm, where, q, more)
  PROVE  TraceInv'
<1> DEFINE after == AfterWritten(where)
           c     == [name |-> Text(nm, q), def |-> -1]
           new   == Len(column) + 1
<1>1. /\ pc = "call" /\ nm \notin Range(cols) /\ nm \in SourceColumn
      /\ cols' = Another(Placed(cols, nm, where), more) /\ keys' = keys
      /\ met' = met \cup (When(where = InFront, "first") \cup When(q, "quoted")
                            \cup When(more # AtEnd, "several"))
      /\ \/ after = AtEnd /\ AddColumn(c, Len(colDes))
         \/ after # AtEnd /\ Found(after) /\ AddColumn(c, At(after))
         \/ after # AtEnd /\ ~Found(after) /\ Fail
  BY TraceAssumption DEF LogAddColumn, Ready, Met, TraceAssumption
<1>2. TableInv /\ FlowsInv /\ SourceInv
  BY <1>1, AtRest DEF TraceInv, FlowsInv
<1>3. /\ NotIn({"several", "quoted"})' => ~q /\ more = AtEnd /\ NotIn({"several", "quoted"})
      /\ NotIn({"first", "moved", "several"})' =>
           more = AtEnd /\ where # InFront /\ NotIn({"first", "moved", "several"})
      /\ NotIn(KeyOddities)' => NotIn(KeyOddities)
      /\ NotIn({"inline"})' => NotIn({"inline"})
  BY <1>1 DEF NotIn, When
<1>4. AtEnd # InFront
  BY DEF AtEnd, InFront
<1>5. after # AtEnd => where \in Range(cols) /\ after = where /\ where \in SourceColumn
  <2>1. \A nm2 \in Range(cols) : nm2 \in SourceColumn
    BY <1>2 DEF SourceInv, Range
  <2> QED
    BY <1>4, <2>1 DEF AfterWritten, Places
<1>6. CASE after # AtEnd /\ ~Found(after)
  <2>1. Fail
    BY <1>1, <1>6
  <2>2. ~NotIn({"several", "quoted"})'
    BY <1>1, <1>3, <1>5, <1>6, ColumnFound
  <2> QED
    BY <1>2, <2>1, <2>2, FailTrace DEF NotIn, Reasons
<1>7. CASE ~(after # AtEnd /\ ~Found(after))
  <2>1. PICK p \in 1..Len(colDes) :
          /\ AddColumn(c, p)
          /\ after = AtEnd => p = Len(colDes)
          /\ after # AtEnd => Found(after) /\ p = At(after)
    <3>1. CASE after = AtEnd
      <4>1. Len(colDes) \in 1..Len(colDes)
        BY <1>1, AtRest
      <4> HIDE DEF c
      <4> QED
        BY <1>1, <3>1, <4>1
    <3>2. CASE after # AtEnd
      <4>1. Found(after) /\ AddColumn(c, At(after))
        BY <1>1, <1>7, <3>2
      <4>2. At(after) \in 1..Len(colDes)
        BY <1>1, <4>1, AtRest, FoundAt
      <4> HIDE DEF c
      <4> QED
        BY <3>2, <4>1, <4>2
    <3> QED
      BY <3>1, <3>2
  <2>2. c \in Column /\ c.name = Text(nm, q) /\ c.name # UpdName
    <3>1. c.name = Text(nm, q) /\ c \in Column
      BY <1>1, SourceColumns
    <3>2. UpdName \in DOMAIN Quote
      BY <1>2 DEF FlowsInv, UpdatedAtInv
    <3> QED
      BY <3>1, <3>2, TextOfOther
  <2> HIDE DEF c
  <2>3. /\ TableInv' /\ IndexsInv' /\ UpdatedAtInv' /\ pc' # "failed"
        /\ colDes' = InsertAt(colDes, p + 1, new)
        /\ Left' = colDes' /\ Range(colDes') = Range(colDes) \cup {new}
        /\ \A e \in Range(colDes) : column'[e] = column[e]
        /\ column'[new] = c
        /\ TableKeys(indexs', Leaving', column') = TableKeys(indexs, Leaving, column)
    BY <1>1, <2>1, <2>2, ColumnAdded
  <2>4. /\ Left = colDes /\ colDes \in Seq(1..Len(column)) /\ DOMAIN colDes = 1..Len(colDes)
        /\ Len(colDes) \in Nat /\ Len(column) \in Nat
    BY <1>1, AtRest
  <2>5. /\ Placed(cols, nm, where) \in Seq(SourceColumn) /\ IsInjective(Placed(cols, nm, where))
        /\ Range(Placed(cols, nm, where)) = Range(cols) \cup {nm}
        /\ where = AtEnd => Placed(cols, nm, where) = InsertAt(cols, Len(cols) + 1, nm)
        /\ \A i \in 1..Len(cols) : cols[i] = where =>
             Placed(cols, nm, where) = InsertAt(cols, i + 1, nm)
    BY <1>1, <1>2, PlacedFacts DEF SourceInv, Places
  <2>6. /\ cols' \in Seq(SourceColumn) /\ IsInjective(cols')
        /\ more = AtEnd => cols' = Placed(cols, nm, where)
    <3>1. more = AtEnd \/ (more \in SourceColumn /\ more \notin Range(Placed(cols, nm, where)))
      BY <2>5, TraceAssumption DEF Mores, TraceAssumption
    <3> QED
      BY <1>1, <2>5, <3>1, AnotherFacts
  <2>7. SourceInv'
    BY <1>1, <1>2, <2>6 DEF SourceInv
  <2>8. OrderKept'
    <3> SUFFICES ASSUME NotIn({"first", "moved", "several"})'
                 PROVE  Follows(cols', Left', column')
      BY DEF OrderKept
    <3>1. Follows(cols, colDes, column) /\ Len(cols) = Len(colDes)
      BY <1>2, <1>3, <2>4 DEF FlowsInv, OrderKept, Follows
    <3>2. cols' = InsertAt(cols, p + 1, nm)
      <4>1. CASE where = AtEnd
        <5>1. after = AtEnd
          BY <1>4, <4>1 DEF AfterWritten
        <5> QED
          BY <1>3, <2>1, <2>5, <2>6, <3>1, <4>1, <5>1
      <4>2. CASE where # AtEnd
        <5>1. after = where /\ where \in SourceColumn
          BY <1>3, <1>5, <4>2 DEF AfterWritten
        <5>2. Text(where, FALSE) = where
          BY DEF Text
        <5>3. p \in 1..Len(cols) /\ cols[p] = where
          BY <1>1, <1>3, <2>1, <4>2, <5>1, <5>2, PlaceFollowed
        <5> QED
          BY <1>3, <2>5, <2>6, <5>3
      <4> QED
        BY <4>1, <4>2
    <3>3. /\ \A j \in 1..Len(colDes) : column'[colDes[j]] = column[colDes[j]]
          /\ Bare(column'[new].name) = nm
      <4>1. Bare(Text(nm, q)) = nm
        BY <1>1, SourceColumns, BareText
      <4> QED
        BY <2>2, <2>3, <2>4, <4>1 DEF Range
    <3>4. /\ cols \in Seq(SourceColumn) /\ colDes \in Seq(1..new) /\ new \in 1..new
          /\ p + 1 \in 1..(Len(colDes) + 1)
      <4>1. \A i \in 1..Len(colDes) : colDes[i] \in 1..new
        BY <2>4, ElementOfSeq
      <4> QED
        BY <1>2, <2>4, <4>1 DEF SourceInv
    <3> HIDE DEF new
    <3>5. Follows(InsertAt(cols, p + 1, nm), InsertAt(colDes, p + 1, new), column')
      BY <1>1, <3>1, <3>3, <3>4, FollowsInserted
    <3> QED
      BY <2>3, <3>2, <3>5
  <2>9. NamesKept'
    <3> SUFFICES ASSUME NotIn({"several", "quoted"})'
                 PROVE  SameNames(cols', Range(Left'), column')
      BY DEF NamesKept
    <3>1. SameNames(cols, Range(colDes), column)
      BY <1>2, <1>3, <2>4 DEF FlowsInv, NamesKept
    <3>2. column'[new].name = nm /\ Range(cols') = Range(cols) \cup {nm}
      BY <1>3, <2>2, <2>3, <2>5, <2>6 DEF Text
    <3> HIDE DEF new
    <3>3. SameNames(cols', Range(colDes) \cup {new}, column')
      BY <1>1, <2>3, <3>1, <3>2, SameNamesGrown
    <3> QED
      BY <2>3, <3>3
  <2>10. KeysKept'
    BY <1>1, <1>2, <1>3, <2>3 DEF FlowsInv, KeysKept
  <2> QED
    BY <2>3, <2>7, <2>8, <2>9, <2>10, StatementCarriedOut DEF FlowsInv
<1> QED
  BY <1>6, <1>7

-----------------------------------------------------------------------------
(* CHANGE COLUMN.                                                          *)

RenamedIn(list, nm, to) == [i \in DOMAIN list |-> IF list[i] = nm THEN to ELSE list[i]]

RenamedKey(key, nm, to) == [key EXCEPT !.names = {IF c = nm THEN to ELSE c : c \in @}]

LEMMA RenamedFacts ==
  ASSUME NEW S, NEW list \in Seq(S), IsInjective(list), NEW nm \in Range(list), NEW to \in S,
         to \notin Range(list) \ {nm}
  PROVE  /\ RenamedIn(list, nm, to) \in Seq(S) /\ IsInjective(RenamedIn(list, nm, to))
         /\ Range(RenamedIn(list, nm, to)) = (Range(list) \ {nm}) \cup {to}
         /\ Len(RenamedIn(list, nm, to)) = Len(list)
<1> DEFINE r == RenamedIn(list, nm, to)
<1>1. Len(list) \in Nat /\ DOMAIN list = 1..Len(list) /\ \A i \in 1..Len(list) : list[i] \in S
  BY ElementOfSeq
<1>2. \A i \in 1..Len(list) : r[i] = IF list[i] = nm THEN to ELSE list[i]
  BY <1>1 DEF RenamedIn
<1>3. r \in [1..Len(list) -> S]
  BY <1>1 DEF RenamedIn
<1> HIDE DEF r
<1>4. r \in Seq(S)
  BY <1>1, <1>3, FunctionIsSeq
<1>5. DOMAIN r = 1..Len(list) /\ Len(r) = Len(list)
  BY <1>1, <1>3, <1>4
<1>6. \A i, j \in 1..Len(list) : list[i] = list[j] => i = j
  BY <1>1 DEF IsInjective
<1>7. \A i \in 1..Len(list) : list[i] # nm => list[i] # to
  BY <1>1 DEF Range
<1>8. \A i, j \in 1..Len(list) : r[i] = r[j] => i = j
  BY <1>2, <1>6, <1>7
<1>9. Range(r) = (Range(list) \ {nm}) \cup {to}
  <2>1. \A i \in 1..Len(list) : r[i] \in (Range(list) \ {nm}) \cup {to}
    BY <1>1, <1>2 DEF Range
  <2>2. \A n \in Range(list) \ {nm} : \E i \in 1..Len(list) : r[i] = n
    BY <1>1, <1>2 DEF Range
  <2>3. \E i \in 1..Len(list) : r[i] = to
    BY <1>1, <1>2 DEF Range
  <2> QED
    BY <1>5, <2>1, <2>2, <2>3 DEF Range
<1> QED
  BY <1>4, <1>5, <1>8, <1>9 DEF IsInjective, r

LEMMA FollowsRenamed ==
  ASSUME NEW cs, IsInjective(cs), NEW ds, NEW col, Follows(cs, ds, col), Len(ds) \in Nat,
         DOMAIN cs = 1..Len(cs), \A j, k \in 1..Len(ds) : ds[j] = ds[k] => j = k,
         NEW i \in 1..Len(ds), NEW to, NEW col2, Bare(col2[ds[i]].name) = to,
         \A j \in 1..Len(ds) : j # i => col2[ds[j]] = col[ds[j]],
         Len(RenamedIn(cs, cs[i], to)) = Len(cs)
  PROVE  Follows(RenamedIn(cs, cs[i], to), ds, col2)
<1> DEFINE r == RenamedIn(cs, cs[i], to)
<1>1. Len(cs) = Len(ds) /\ \A j \in 1..Len(ds) : cs[j] = Bare(col[ds[j]].name)
  BY DEF Follows
<1>2. \A j \in 1..Len(ds) : r[j] = IF cs[j] = cs[i] THEN to ELSE cs[j]
  BY <1>1 DEF RenamedIn
<1>3. \A j \in 1..Len(ds) : cs[j] = cs[i] => j = i
  BY <1>1 DEF IsInjective
<1>4. Len(r) = Len(ds)
  BY <1>1
<1> HIDE DEF r
<1>5. ASSUME NEW j \in 1..Len(ds) PROVE r[j] = Bare(col2[ds[j]].name)
  <2>1. CASE j = i
    BY <1>2, <2>1
  <2>2. CASE j # i
    <3>1. r[j] = cs[j] /\ col2[ds[j]] = col[ds[j]]
      BY <1>2, <1>3, <2>2
    <3> QED
      BY <1>1, <3>1
  <2> QED
    BY <2>1, <2>2
<1> QED
  BY <1>4, <1>5 DEF Follows, r

LEMMA KeysRenamed ==
  ASSUME NEW ks \in SUBSET SourceKey, NamesOnce(ks), NEW nm, NEW to \in SourceColumn
  PROVE  /\ {RenamedKey(k, nm, to) : k \in ks} \subseteq SourceKey
         /\ NamesOnce({RenamedKey(k, nm, to) : k \in ks})
<1>1. ASSUME NEW k \in ks
      PROVE  RenamedKey(k, nm, to) \in SourceKey /\ RenamedKey(k, nm, to).name = k.name
  <2>1. /\ k \in [name : SourceKeyName \cup {""}, isPrimary : BOOLEAN,
                  names : (SUBSET SourceColumn) \ {{}}]
        /\ k.isPrimary <=> k.name = ""
    BY DEF SourceKey
  <2> DEFINE names == {IF c = nm THEN to ELSE c : c \in k.names}
  <2>2. names \in (SUBSET SourceColumn) \ {{}}
    <3>1. names \subseteq SourceColumn
      BY <2>1
    <3>2. PICK c : c \in k.names
      BY <2>1
    <3>3. (IF c = nm THEN to ELSE c) \in names
      BY <3>2
    <3> QED
      BY <3>1, <3>3
  <2>3. RenamedKey(k, nm, to) = [k EXCEPT !.names = names]
    BY DEF RenamedKey
  <2> HIDE DEF names
  <2> QED
    BY <2>1, <2>2, <2>3 DEF SourceKey
<1>2. NamesOnce({RenamedKey(k, nm, to) : k \in ks})
  <2> SUFFICES ASSUME NEW k \in ks, NEW l \in ks,
                      RenamedKey(k, nm, to).name = RenamedKey(l, nm, to).name
               PROVE  RenamedKey(k, nm, to) = RenamedKey(l, nm, to)
    BY DEF NamesOnce
  <2>1. k.name = l.name
    BY <1>1
  <2>2. k = l
    BY <2>1 DEF NamesOnce
  <2> QED
    BY <2>2
<1> QED
  BY <1>1, <1>2

LEMMA TableKeysRenamed ==
  ASSUME NEW ixs, NEW col, NEW col2, NEW nm, NEW to,
         \A k \in DOMAIN ixs : \A c \in ixs[k].cols :
           col2[c].name = IF col[c].name = nm THEN to ELSE col[c].name
  PROVE  TableKeys(ixs, {}, col2) = {RenamedKey(key, nm, to) : key \in TableKeys(ixs, {}, col)}
<1>1. ASSUME NEW k \in DOMAIN ixs
      PROVE  KeyOfIndex(ixs[k], {}, col2) = RenamedKey(KeyOfIndex(ixs[k], {}, col), nm, to)
  <2> DEFINE A == {col[c].name : c \in ixs[k].cols \ {}}
             B == {col2[c].name : c \in ixs[k].cols \ {}}
  <2>1. B = {IF n = nm THEN to ELSE n : n \in A}
    OBVIOUS
  <2>2. /\ KeyOfIndex(ixs[k], {}, col)
             = [name |-> ixs[k].name, isPrimary |-> ixs[k].isPrimary, names |-> A]
        /\ KeyOfIndex(ixs[k], {}, col2)
             = [name |-> ixs[k].name, isPrimary |-> ixs[k].isPrimary, names |-> B]
    BY DEF KeyOfIndex
  <2> HIDE DEF A, B
  <2>3. RenamedKey(KeyOfIndex(ixs[k], {}, col), nm, to)
          = [name |-> ixs[k].name, isPrimary |-> ixs[k].isPrimary,
             names |-> {IF n = nm THEN to ELSE n : n \in A}]
    BY <2>2 DEF RenamedKey
  <2> QED
    BY <2>1, <2>2, <2>3
<1>2. \A k \in DOMAIN ixs : Stays(ixs[k], {}) =>
         KeyOfIndex(ixs[k], {}, col) \in TableKeys(ixs, {}, col)
  BY TableKeysMember
<1>3. ASSUME NEW key \in TableKeys(ixs, {}, col2)
      PROVE  \E m \in TableKeys(ixs, {}, col) : key = RenamedKey(m, nm, to)
  <2>1. PICK k \in DOMAIN ixs : Stays(ixs[k], {}) /\ key = KeyOfIndex(ixs[k], {}, col2)
    BY TableKeysMember
  <2> QED
    BY <1>1, <1>2, <2>1
<1>4. ASSUME NEW m \in TableKeys(ixs, {}, col)
      PROVE  RenamedKey(m, nm, to) \in TableKeys(ixs, {}, col2)
  <2>1. PICK k \in DOMAIN ixs : Stays(ixs[k], {}) /\ m = KeyOfIndex(ixs[k], {}, col)
    BY TableKeysMember
  <2>2. RenamedKey(m, nm, to) = KeyOfIndex(ixs[k], {}, col2)
    BY <1>1, <2>1
  <2> QED
    BY <2>1, <2>2, TableKeysMember
<1> QED
  BY <1>3, <1>4

LEMMA LogChangeColumnStep ==
  ASSUME TraceInv, NEW nm \in SourceNames, NEW to \in SourceNames, NEW where \in {AtEnd, InFront},
         NEW q \in BOOLEAN, LogChangeColumn(nm, to, where, q)
  PROVE  TraceInv'
<1> DEFINE text    == Text(nm, q)
           i       == At(text)
           renamed == RenamedIn(cols, nm, to)
<1>1. /\ pc = "call" /\ nm \in Range(cols) /\ nm \in SourceColumn
      /\ to \in SourceColumn /\ to \notin Range(cols) \ {nm}
      /\ cols' = IF where = AtEnd THEN renamed ELSE Placed(Without(renamed, to), to, InFront)
      /\ keys' = {RenamedKey(k, nm, to) : k \in keys}
      /\ met' = met \cup (When(q, "quoted") \cup When(where # AtEnd, "moved"))
      /\ \/ Found(text) /\ ChangeColumn(i, [name |-> Text(to, q), def |-> -1])
         \/ ~Found(text) /\ Fail
  BY TraceAssumption DEF LogChangeColumn, Ready, Met, TraceAssumption, RenamedIn, RenamedKey
<1> HIDE DEF renamed
<1>2. TableInv /\ FlowsInv /\ SourceInv
  BY <1>1, AtRest DEF TraceInv, FlowsInv
<1>3. /\ NotIn({"several", "quoted"})' => ~q /\ NotIn({"several", "quoted"})
      /\ NotIn({"first", "moved", "several"})' =>
           where = AtEnd /\ NotIn({"first", "moved", "several"})
      /\ NotIn(KeyOddities)' =>
           /\ ~q /\ NotIn({"several", "quoted"}) /\ NotIn(KeyOddities)
      /\ NotIn({"inline"})' => NotIn({"inline"})
  BY <1>1 DEF NotIn, When
<1>4. CASE ~Found(text)
  <2>1. ~NotIn({"several", "quoted"})'
    <3> SUFFICES ASSUME NotIn({"several", "quoted"})' PROVE FALSE
      OBVIOUS
    <3>1. text = nm
      BY <1>3 DEF Text
    <3> QED
      BY <1>1, <1>3, <1>4, <3>1, ColumnFound
  <2> QED
    BY <1>1, <1>2, <1>4, <2>1, FailTrace DEF NotIn, Reasons
<1>5. CASE Found(text)
  <2> DEFINE d == colDes[i]
             c == [name |-> Text(to, q), def |-> -1]
  <2>1. /\ i \in 1..Len(colDes) /\ d \in Range(Left) /\ column[d].name = text
        /\ Bare(column[d].name) = nm
    BY <1>1, <1>5, FoundColumn
  <2>2. /\ Left = colDes /\ Leaving = {} /\ dropping = 0
        /\ colDes \in Seq(1..Len(column)) /\ DOMAIN colDes = 1..Len(colDes) /\ Len(colDes) \in Nat
        /\ column \in Seq(Column)
        /\ \A j, k \in 1..Len(colDes) : colDes[j] = colDes[k] => j = k
        /\ \A e \in Range(colDes) : e \in 1..Len(column)
    BY <1>1, AtRest DEF InTable
  <2>3. c \in Column /\ c.name = Text(to, q) /\ Bare(c.name) = to
    BY <1>1, SourceColumns, BareText
  <2> HIDE DEF c
  <2>4. /\ ChangeColumn(i, c) /\ i \in DOMAIN colDes
        /\ column' = [column EXCEPT ![d] = c]
        /\ UNCHANGED <<colDes, updCol, indexs, pc, pos, dropping>>
    BY <1>1, <1>5, <2>1, <2>2 DEF ChangeColumn, ctl, c
  <2> HIDE DEF d
  <2>5. column'[d] = c /\ \A e \in Range(colDes) : e # d => column'[e] = column[e]
    BY <2>1, <2>2, <2>4
  <2>6. Left' = colDes /\ Leaving' = {} /\ TableInv' /\ InTable' = InTable
    BY <1>2, <2>2, <2>3, <2>4, ChangeColumnTable DEF Left, Leaving, InTable
  <2>7. /\ renamed \in Seq(SourceColumn) /\ IsInjective(renamed)
        /\ Range(renamed) = (Range(cols) \ {nm}) \cup {to} /\ Len(renamed) = Len(cols)
    BY <1>1, <1>2, RenamedFacts DEF SourceInv, renamed
  <2>8. cols' \in Seq(SourceColumn) /\ IsInjective(cols') /\ Range(cols') = Range(renamed)
    <3>1. CASE where = AtEnd
      BY <1>1, <2>7, <3>1
    <3>2. CASE where # AtEnd
      <4> DEFINE w == Without(renamed, to)
      <4>1. w \in Seq(SourceColumn) /\ IsInjective(w) /\ Range(w) = Range(renamed) \ {to}
            /\ to \in Range(renamed)
        BY <2>7, WithoutFacts
      <4>2. cols' = Placed(w, to, InFront)
        BY <1>1, <3>2
      <4> HIDE DEF w
      <4>3. /\ Placed(w, to, InFront) \in Seq(SourceColumn) /\ IsInjective(Placed(w, to, InFront))
            /\ Range(Placed(w, to, InFront)) = Range(w) \cup {to}
        BY <1>1, <4>1, PlacedFacts
      <4> QED
        BY <4>1, <4>2, <4>3
    <3> QED
      BY <3>1, <3>2
  <2>9. SourceInv'
    <3>1. keys \in SUBSET SourceKey /\ NamesOnce(keys)
      BY <1>2 DEF SourceInv
    <3>2. keys' \subseteq SourceKey /\ NamesOnce(keys')
      BY <1>1, <3>1, KeysRenamed
    <3> QED
      BY <2>8, <3>2 DEF SourceInv
  <2>10. IndexsInv'
    <3>1. ASSUME NEW k \in DOMAIN indexs PROVE IndexInv(k)'
      <4>1. IndexInv(k)
        BY <1>2 DEF FlowsInv, IndexsInv
      <4> QED
        BY <2>2, <2>4, <2>6, <4>1 DEF IndexInv
    <3> QED
      BY <1>1, <1>2, <2>4, <3>1 DEF FlowsInv, IndexsInv, NotIn
  <2>11. UpdatedAtInv'
    <3>1. updCol \in Range(colDes) /\ column[updCol].name = UpdName /\ UpdName \in DOMAIN Quote
      BY <1>2, <2>2 DEF FlowsInv, UpdatedAtInv
    <3>2. text # UpdName
      BY <3>1, TextOfOther
    <3>3. column'[updCol] = column[updCol]
      BY <2>1, <2>5, <3>1, <3>2
    <3> QED
      BY <2>4, <2>6, <3>1, <3>3 DEF UpdatedAtInv
  <2>12. OrderKept'
    <3> SUFFICES ASSUME NotIn({"first", "moved", "several"})'
                 PROVE  Follows(cols', Left', column')
      BY DEF OrderKept
    <3>1. Follows(cols, colDes, column) /\ cols' = renamed
      BY <1>1, <1>2, <1>3, <2>2 DEF FlowsInv, OrderKept
    <3>2. i \in 1..Len(cols) /\ cols[i] = nm
      BY <1>1, <1>3, <1>5, PlaceFollowed
    <3>3. /\ Bare(column'[colDes[i]].name) = to
          /\ \A j \in 1..Len(colDes) : j # i => column'[colDes[j]] = column[colDes[j]]
      BY <2>1, <2>2, <2>3, <2>5 DEF Range, d
    <3>4. /\ IsInjective(cols) /\ DOMAIN cols = 1..Len(cols)
          /\ Len(RenamedIn(cols, cols[i], to)) = Len(cols) /\ renamed = RenamedIn(cols, cols[i], to)
      BY <1>2, <2>7, <3>2 DEF SourceInv, renamed
    <3> HIDE DEF i
    <3>5. Follows(RenamedIn(cols, cols[i], to), colDes, column')
      BY <2>1, <2>2, <3>1, <3>3, <3>4, FollowsRenamed
    <3> QED
      BY <2>6, <3>1, <3>4, <3>5
  <2>13. ASSUME NotIn({"several", "quoted"})'
         PROVE  /\ SameNames(cols, Range(colDes), column)
                /\ column[d].name = nm /\ column'[d].name = to /\ d \in Range(colDes)
    BY <1>2, <1>3, <2>1, <2>2, <2>3, <2>5, <2>13 DEF FlowsInv, NamesKept, Text
  <2>14. NamesKept'
    <3> SUFFICES ASSUME NotIn({"several", "quoted"})'
                 PROVE  SameNames(cols', Range(Left'), column')
      BY DEF NamesKept
    <3>1. /\ SameNames(cols, Range(colDes), column) /\ d \in Range(colDes)
          /\ \A e \in Range(colDes) \ {d} : column'[e] = column[e]
          /\ column'[d].name \notin Range(cols) \ {column[d].name}
          /\ Range(cols') = (Range(cols) \ {column[d].name}) \cup {column'[d].name}
      BY <1>1, <2>5, <2>7, <2>8, <2>13
    <3>2. SameNames(cols', Range(colDes), column')
      BY <3>1, SameNamesRenamed
    <3> QED
      BY <2>6, <3>2
  <2>15. KeysKept'
    <3> SUFFICES ASSUME NotIn(KeyOddities)'
                 PROVE  /\ TableKeys(indexs', Leaving', column') \subseteq keys'
                        /\ NotIn({"inline"})' => keys' \subseteq TableKeys(indexs', Leaving', column')
      BY DEF KeysKept
    <3>1. NotIn({"several", "quoted"})'
      BY DEF NotIn
    <3>2. \A e \in Range(colDes) : column'[e].name = IF column[e].name = nm THEN to ELSE column[e].name
      BY <2>5, <2>13, <3>1 DEF SameNames
    <3>3. \A k \in DOMAIN indexs : indexs[k].cols \subseteq Range(colDes)
      BY <1>2 DEF FlowsInv, IndexsInv, IndexInv, InTable
    <3>4. TableKeys(indexs, {}, column')
            = {RenamedKey(key, nm, to) : key \in TableKeys(indexs, {}, column)}
      BY <3>2, <3>3, TableKeysRenamed
    <3>5. /\ TableKeys(indexs, {}, column) \subseteq keys
          /\ NotIn({"inline"}) => keys \subseteq TableKeys(indexs, {}, column)
      BY <1>2, <1>3, <2>2 DEF FlowsInv, KeysKept
    <3>6. TableKeys(indexs', Leaving', column')
            = {RenamedKey(key, nm, to) : key \in TableKeys(indexs, {}, column)}
      BY <2>4, <2>6, <3>4
    <3> QED
      BY <1>1, <1>3, <3>5, <3>6
  <2>16. pc' # "failed"
    BY <1>1, <2>4
  <2> QED
    BY <2>6, <2>9, <2>10, <2>11, <2>12, <2>14, <2>15, <2>16, StatementCarriedOut DEF FlowsInv
<1> QED
  BY <1>4, <1>5

-----------------------------------------------------------------------------
(* ADD and DROP of keys: the columns stay as they are.                     *)

LEMMA ColumnsUntouched ==
  ASSUME TraceInv, pc = "call", UNCHANGED <<column, colDes, updCol, cols, dropping>>,
         met \subseteq met', keys' \subseteq SourceKey, NamesOnce(keys')
  PROVE  /\ SourceInv' /\ UpdatedAtInv' /\ OrderKept' /\ NamesKept'
         /\ Left' = Left /\ Leaving = {} /\ Leaving' = {} /\ InTable' = InTable
<1>1. FlowsInv /\ dropping = 0 /\ Left = colDes /\ Leaving = {}
  BY AtRest
<1>2. Left' = Left /\ Leaving' = {} /\ InTable' = InTable
  BY <1>1 DEF Left, Leaving, InTable
<1>3. SourceInv'
  BY <1>1 DEF FlowsInv, SourceInv
<1>4. UpdatedAtInv'
  BY <1>1, <1>2 DEF FlowsInv, UpdatedAtInv
<1>5. /\ NotIn({"first", "moved", "several"})' => NotIn({"first", "moved", "several"})
      /\ NotIn({"several", "quoted"})' => NotIn({"several", "quoted"})
  BY DEF NotIn
<1>6. OrderKept' /\ NamesKept'
  BY <1>1, <1>2, <1>5 DEF FlowsInv, OrderKept, NamesKept
<1> QED
  BY <1>1, <1>2, <1>3, <1>4, <1>6

(* Without a key of the source, the table has its temporary index.         *)
LEMMA KeylessIsTemp ==
  ASSUME TraceInv, pc = "call", TableKeys(indexs, {}, column) = {}
  PROVE  Len(indexs) = 1 /\ indexs[1].isTemp
<1>1. /\ IndexsInv /\ TempInv /\ Len(indexs) \in Nat \ {0} /\ DOMAIN indexs = 1..Len(indexs)
  BY AtRest, IndexsFacts DEF FlowsInv, TraceInv, TableInv
<1>2. 1 \in DOMAIN indexs /\ IndexInv(1)
  BY <1>1 DEF IndexsInv
<1>3. ~Stays(indexs[1], {})
  BY <1>2, TableKeysMember
<1>4. indexs[1].isTemp
  BY <1>2, <1>3 DEF Stays, IndexInv
<1> QED
  BY <1>1, <1>2, <1>4 DEF TempInv, TempFits

LEMMA LogAddKeyStep ==
  ASSUME TraceInv, NEW key \in SourceKeys, NEW q \in BOOLEAN, NEW named \in BOOLEAN,
         NEW prefix \in BOOLEAN, LogAddKey(key, q, named, prefix)
  PROVE  TraceInv'
<1> DEFINE texts == {Text(nm, q) : nm \in key.names}
           added == [name |-> Text(key.name, q), isPrimary |-> key.isPrimary, names |-> texts]
<1>1. /\ pc = "call" /\ key.names \subseteq Range(cols) /\ \A k \in keys : k.name # key.name
      /\ keys' = keys \cup {key} /\ cols' = cols
      /\ met' = met \cup (When(q, "quoted") \cup When(~named, "unnamed") \cup When(prefix, "prefix")
                          \cup When(keys # {}, "second"))
      /\ \/ named /\ ~prefix /\ (\A t \in texts : Found(t)) /\ AddUniqueIndex(added)
         \/ ~(named /\ ~prefix /\ \A t \in texts : Found(t)) /\ Fail
  BY DEF LogAddKey, Ready, Met
<1>2. TableInv /\ FlowsInv /\ SourceInv
  BY <1>1, AtRest DEF TraceInv, FlowsInv
<1>3. /\ key \in SourceKey /\ key.name \in SourceKeyName \cup {""} /\ key.isPrimary \in BOOLEAN
      /\ key.names \in (SUBSET SourceColumn) \ {{}}
      /\ key \in [name : SourceKeyName \cup {""}, isPrimary : BOOLEAN,
                  names : (SUBSET SourceColumn) \ {{}}]
  BY TraceAssumption DEF TraceAssumption, SourceKey
<1>4. /\ NotIn({"several", "quoted"})' => ~q /\ NotIn({"several", "quoted"})
      /\ NotIn(KeyOddities)' =>
           ~q /\ NotIn({"several", "quoted"}) /\ NotIn(KeyOddities)
      /\ NotIn({"inline"})' => NotIn({"inline"})
      /\ met' \cap {"unnamed", "prefix", "second"} = {} => named /\ ~prefix /\ keys = {}
  BY <1>1 DEF NotIn, When
<1>5. CASE Fail
  <2> SUFFICES ASSUME met' \cap Reasons = {} PROVE FALSE
    BY <1>2, <1>5, FailTrace
  <2>1. NotIn(KeyOddities)' /\ named /\ ~prefix /\ keys = {} /\ ~q
    BY <1>4 DEF NotIn, Reasons
  <2>2. \A t \in texts : Found(t)
    <3> SUFFICES ASSUME NEW nm \in key.names PROVE Found(Text(nm, q))
      OBVIOUS
    <3>1. Text(nm, q) = nm /\ nm \in Range(cols)
      BY <1>1, <2>1 DEF Text
    <3> QED
      BY <1>1, <1>4, <2>1, <3>1, ColumnFound
  <2>3. AddUniqueIndex(added)
    <3> HIDE DEF texts, added
    <3> QED
      BY <1>1, <2>1, <2>2
  <2>4. TableKeys(indexs, {}, column) = {}
    <3>1. TableKeys(indexs, Leaving, column) \subseteq keys /\ Leaving = {}
      BY <1>1, <1>2, <1>4, <2>1, AtRest DEF FlowsInv, KeysKept
    <3> QED
      BY <2>1, <3>1
  <2>5. Len(indexs) = 1 /\ indexs[1].isTemp
    BY <1>1, <2>4, KeylessIsTemp
  <2>6. pc' = "scan"
    BY <2>3, <2>5 DEF AddUniqueIndex, Scan
  <2> QED
    BY <1>5, <2>6 DEF Fail
<1>6. CASE ~Fail
  <2>1. (\A t \in texts : Found(t)) /\ AddUniqueIndex(added)
    BY <1>1, <1>6
  <2>2. added \in AddedKey
    <3>1. Text(key.name, q) \in KeyName \cup {""}
      BY <1>3, KeyTexts
    <3>2. texts \subseteq Name
      <4> SUFFICES ASSUME NEW nm \in key.names PROVE Text(nm, q) \in Name
        OBVIOUS
      <4> QED
        BY <1>3, SourceColumns
    <3> HIDE DEF texts
    <3> QED
      BY <1>3, <3>1, <3>2 DEF AddedKey
  <2>3. TableInv'
    <3> HIDE DEF added
    <3> QED
      BY <1>2, <2>1, <2>2, AddUniqueIndexTable
  <2> DEFINE C  == {c \in InTable : column[c].name \in texts}
             ix == Index(Text(key.name, q), key.isPrimary, C)
  <2>4. /\ Len(indexs) = 1 /\ indexs[1].isTemp /\ indexs' = <<ix>> /\ pc' = "scan"
        /\ UNCHANGED <<column, colDes, updCol, dropping>>
    BY <1>6, <2>1 DEF AddUniqueIndex, Scan, schema
  <2>5. \A t \in texts : \E c \in InTable : column[c].name = t
    BY <2>1 DEF Found, InTable, Range
  <2>6. C # {}
    <3>1. PICK nm : nm \in key.names
      BY <1>3
    <3>2. Text(nm, q) \in texts
      BY <3>1
    <3> QED
      BY <2>5, <3>2
  <2>7. /\ ix.name = Text(key.name, q) /\ ~ix.isTemp /\ ix.isPrimary = key.isPrimary /\ ix.cols = C
        /\ C \subseteq InTable
    BY DEF Index
  <2>8. keys' \subseteq SourceKey /\ NamesOnce(keys')
    BY <1>1, <1>2, <1>3 DEF SourceInv, NamesOnce
  <2>9. met \subseteq met'
    BY <1>1
  <2>10. /\ SourceInv' /\ UpdatedAtInv' /\ OrderKept' /\ NamesKept'
         /\ Left' = Left /\ Leaving = {} /\ Leaving' = {} /\ InTable' = InTable
    BY <1>1, <2>4, <2>8, <2>9, ColumnsUntouched
  <2> HIDE DEF ix
  <2>11. DOMAIN indexs' = {1} /\ indexs'[1] = ix
    BY <2>4
  <2>12. IndexsInv'
    <3>1. ix.name \in KeyName \cup {""}
      <4>1. Text(key.name, q) \in KeyName \cup {""}
        BY <1>3, KeyTexts
      <4> QED
        BY <2>7, <4>1
    <3>2. dropping' = 0
      BY <1>1, <2>4, AtRest
    <3> HIDE DEF C
    <3>3. IndexInv(1)'
      BY <2>6, <2>7, <2>10, <2>11, <3>1, <3>2 DEF IndexInv
    <3> QED
      BY <2>11, <3>3 DEF IndexsInv
  <2>13. KeysKept'
    <3> SUFFICES ASSUME NotIn(KeyOddities)'
                 PROVE  /\ TableKeys(indexs', Leaving', column') \subseteq keys'
                        /\ NotIn({"inline"})' => keys' \subseteq TableKeys(indexs', Leaving', column')
      BY DEF KeysKept
    <3>1. ~q /\ texts = key.names
      BY <1>4 DEF Text
    <3>2. {column[c].name : c \in C} = key.names
      BY <2>5, <3>1
    <3>3. Stays(ix, {}) /\ KeyOfIndex(ix, {}, column) = key
      <4>1. ix.name = key.name
        BY <2>7, <3>1 DEF Text
      <4>2. ix.cols \ {} = C
        BY <2>7
      <4> HIDE DEF C
      <4> QED
        BY <1>3, <2>6, <2>7, <3>2, <4>1, <4>2 DEF Stays, KeyOfIndex
    <3>4. TableKeys(<<ix>>, {}, column) = {key}
      BY <3>3, TableKeysSingle
    <3>5. TableKeys(indexs', Leaving', column') = {key}
      BY <2>4, <2>10, <3>4
    <3>6. TableKeys(indexs, Leaving, column) = {}
      <4>1. HasTemp
        <5>1. indexs # <<>>
          BY <2>4, EmptySeq
        <5> QED
          BY <2>4, <5>1 DEF HasTemp
      <4> QED
        BY <1>1, <4>1, TempOnly
    <3>7. NotIn({"inline"})' => keys = {}
      BY <1>2, <1>4, <3>6 DEF FlowsInv, KeysKept
    <3> QED
      BY <1>1, <3>5, <3>7
  <2> QED
    BY <2>3, <2>4, <2>10, <2>12, <2>13, StatementCarriedOut DEF FlowsInv
<1> QED
  BY <1>5, <1>6

(* The index that DROP INDEX finds is the one of the key.                  *)
LEMMA FitsKey ==
  ASSUME TraceInv, pc = "call", NotIn(KeyOddities), NEW key \in keys,
         NEW k \in DOMAIN indexs, Fits(k, key.isPrimary, key.name), Stays(indexs[k], {})
  PROVE  KeyOfIndex(indexs[k], {}, column) = key
<1> DEFINE m == KeyOfIndex(indexs[k], {}, column)
<1>1. m \in TableKeys(indexs, {}, column)
  BY TableKeysMember
<1>2. SourceInv /\ TableKeys(indexs, {}, column) \subseteq keys
  BY AtRest DEF FlowsInv, KeysKept
<1>3. m.name = indexs[k].name /\ m.isPrimary = indexs[k].isPrimary
  BY DEF KeyOfIndex
<1> HIDE DEF m
<1>4. m \in keys /\ m \in SourceKey /\ key \in SourceKey
  BY <1>1, <1>2 DEF SourceInv
<1>5. m.name = key.name
  <2>1. CASE key.isPrimary
    BY <1>3, <1>4, <2>1 DEF Fits, SourceKey
  <2>2. CASE ~key.isPrimary
    BY <1>3, <2>2 DEF Fits
  <2> QED
    BY <2>1, <2>2
<1>6. m = key
  BY <1>2, <1>4, <1>5 DEF SourceInv, NamesOnce
<1> QED
  BY <1>6 DEF m

LEMMA LogDropKeyStep ==
  ASSUME TraceInv, NEW key \in keys, NEW q \in BOOLEAN, LogDropKey(key, q)
  PROVE  TraceInv'
<1> DEFINE text == Text(key.name, q)
           p    == key.isPrimary
<1>1. /\ pc = "call" /\ keys' = keys \ {key} /\ cols' = cols
      /\ met' = met \cup When(q, "quoted")
      /\ \/ DropUniqueIndex(p, text)
         \/ (\A k \in DOMAIN indexs : ~Fits(k, p, text)) /\ UNCHANGED vars
  BY DEF LogDropKey, Ready, Met, DropsPrimary
<1>2. TableInv /\ FlowsInv /\ SourceInv /\ IndexsInv
  BY <1>1, AtRest DEF TraceInv, FlowsInv
<1>3. /\ NotIn(KeyOddities)' =>
           text = key.name /\ NotIn(KeyOddities)
      /\ NotIn({"inline"})' => NotIn({"inline"})
      /\ met \subseteq met'
  BY <1>1 DEF NotIn, When, Text
<1>4. keys' \subseteq SourceKey /\ NamesOnce(keys')
  BY <1>1, <1>2 DEF SourceInv, NamesOnce
<1>5. /\ Left = colDes /\ Leaving = {} /\ dropping = 0 /\ InTable = Range(colDes)
      /\ indexs \in Seq(IndexType(Len(column), Len(heap))) /\ Len(indexs) \in Nat \ {0}
      /\ DOMAIN indexs = 1..Len(indexs)
  BY <1>1, AtRest, IndexsFacts
<1>6. updCol \in Range(colDes)
  BY <1>2, <1>5 DEF FlowsInv, UpdatedAtInv
<1>7. /\ \A k \in DOMAIN indexs : IndexInv(k)
      /\ NotIn({"unnamed"})' =>
           \A j, k \in DOMAIN indexs : indexs[j].name = indexs[k].name => j = k
      /\ \A k \in DOMAIN indexs : Stays(indexs[k], {}) <=> ~indexs[k].isTemp
  <2>1. \A k \in DOMAIN indexs : IndexInv(k)
    BY <1>2 DEF IndexsInv
  <2>2. \A k \in DOMAIN indexs : ~indexs[k].isTemp => indexs[k].cols # {}
    BY <1>5, <2>1 DEF IndexInv
  <2>3. NotIn({"unnamed"})' => NotIn({"unnamed"})
    BY <1>3 DEF NotIn
  <2> QED
    BY <1>2, <2>1, <2>2, <2>3 DEF IndexsInv, Stays
<1>8. NotIn(KeyOddities)' =>
        /\ TableKeys(indexs, {}, column) \subseteq keys
        /\ NotIn({"inline"})' => keys \subseteq TableKeys(indexs, {}, column)
  BY <1>2, <1>3, <1>5 DEF FlowsInv, KeysKept
<1> HIDE DEF text, p
<1>9. ASSUME UNCHANGED <<column, colDes, updCol, dropping>>, TableInv', IndexsInv', pc' # "failed",
             NotIn(KeyOddities)' =>
               /\ key \notin TableKeys(indexs', {}, column)
               /\ TableKeys(indexs', {}, column) \subseteq TableKeys(indexs, {}, column)
               /\ TableKeys(indexs, {}, column) \ {key} \subseteq TableKeys(indexs', {}, column)
      PROVE  TraceInv'
  <2>1. /\ SourceInv' /\ UpdatedAtInv' /\ OrderKept' /\ NamesKept' /\ Leaving' = {}
    BY <1>1, <1>3, <1>4, <1>9, ColumnsUntouched
  <2>2. KeysKept'
    BY <1>1, <1>8, <1>9, <2>1 DEF KeysKept
  <2> QED
    BY <1>9, <2>1, <2>2, StatementCarriedOut DEF FlowsInv
<1>10. CASE (\A k \in DOMAIN indexs : ~Fits(k, p, text)) /\ UNCHANGED vars
  <2>1. UNCHANGED <<column, colDes, updCol, dropping, indexs, pc, pos>>
    BY <1>10 DEF vars, schema, ctl
  <2>2. TableInv'
    <3>1. UNCHANGED rows
      BY <1>10 DEF vars, store
    <3> QED
      BY <1>2, <1>10, <3>1, NextKeepsIndInv, NextKeepsTemp DEF TableInv, IndInv
  <2>3. IndexsInv'
    <3>1. ASSUME NEW k \in DOMAIN indexs PROVE IndexInv(k)'
      BY <1>7, <2>1 DEF IndexInv, InTable
    <3> QED
      BY <1>7, <2>1, <3>1 DEF IndexsInv
  <2>4. ASSUME NotIn(KeyOddities)', key \in TableKeys(indexs, {}, column)
        PROVE  FALSE
    <3>1. PICK k \in DOMAIN indexs : key = KeyOfIndex(indexs[k], {}, column)
      BY <2>4, TableKeysMember
    <3>2. key.name = indexs[k].name /\ key.isPrimary = indexs[k].isPrimary
      BY <3>1 DEF KeyOfIndex
    <3>3. Fits(k, p, text)
      BY <1>3, <2>4, <3>2 DEF Fits, p
    <3> QED
      BY <1>10, <3>3
  <2>5. pc' # "failed"
    BY <1>1, <2>1
  <2> QED
    BY <1>9, <2>1, <2>2, <2>3, <2>4, <2>5
<1>11. CASE DropUniqueIndex(p, text)
  <2>1. TableInv'
    BY <1>2, <1>11, DropUniqueIndexTable
  <2>2. PICK k \in DOMAIN indexs :
          /\ Fits(k, p, text)
          /\ \/ /\ Len(indexs) > 1 /\ indexs' = RemoveAt(indexs, k)
                /\ UNCHANGED <<column, colDes, updCol, pc, pos, dropping>>
             \/ /\ Len(indexs) = 1 /\ indexs' = << TempIndex(colDes, updCol) >>
                /\ pc' = "scan" /\ UNCHANGED <<column, colDes, updCol, dropping>>
    BY <1>6, <1>11 DEF DropUniqueIndex, NoTempIndex, Scan, schema, ctl
  <2>3. NotIn(KeyOddities)' /\ Stays(indexs[k], {}) =>
          KeyOfIndex(indexs[k], {}, column) = key
    BY <1>1, <1>3, <2>2, FitsKey DEF p
  <2>4. CASE Len(indexs) > 1 /\ indexs' = RemoveAt(indexs, k)
             /\ UNCHANGED <<column, colDes, updCol, pc, pos, dropping>>
    <3>1. Stays(indexs[k], {})
      <4>1. ~indexs[k].isTemp
        <5>1. indexs[k].isTemp => Len(indexs) = 1
          BY <1>1, <1>2 DEF TableInv, TempInv, TempFits
        <5> QED
          BY <1>5, <2>4, <5>1
      <4> QED
        BY <1>7, <4>1
    <3>2. NotIn(KeyOddities)' =>
            TableKeys(indexs', {}, column)
              = TableKeys(indexs, {}, column) \ {KeyOfIndex(indexs[k], {}, column)}
      <4>1. NotIn(KeyOddities)' => NotIn({"unnamed"})'
        BY DEF NotIn
      <4> QED
        BY <1>5, <1>7, <2>4, <3>1, <4>1, TableKeysRemoved
    <3>3. \A l \in DOMAIN indexs' : \E j \in DOMAIN indexs :
            j # k /\ indexs'[l] = indexs[j] /\ IF l < k THEN j = l ELSE j = l + 1
      <4>1. indexs \in Seq(IndexType(Len(column), Len(heap))) /\ k \in 1..Len(indexs)
        BY <1>5
      <4>2. \A l \in DOMAIN RemoveAt(indexs, k) : \E j \in DOMAIN indexs :
              j # k /\ RemoveAt(indexs, k)[l] = indexs[j] /\ IF l < k THEN j = l ELSE j = l + 1
        BY <4>1, RemoveAtMembers
      <4>3. indexs' = RemoveAt(indexs, k)
        BY <2>4
      <4> QED
        BY <4>2, <4>3
    <3>4. ASSUME NEW l \in DOMAIN indexs' PROVE IndexInv(l)'
      <4>1. PICK j \in DOMAIN indexs : indexs'[l] = indexs[j]
        BY <3>3
      <4>2. InTable' = InTable
        BY <2>4 DEF InTable
      <4>3. IndexInv(j) /\ (~indexs[j].isTemp => indexs[j].cols # {})
        BY <1>7 DEF Stays
      <4> QED
        BY <1>5, <2>4, <4>1, <4>2, <4>3 DEF IndexInv
    <3>5. ASSUME NotIn({"unnamed"})', NEW l \in DOMAIN indexs', NEW n \in DOMAIN indexs',
                 indexs'[l].name = indexs'[n].name
          PROVE  l = n
      <4>1. PICK j \in DOMAIN indexs : indexs'[l] = indexs[j] /\ IF l < k THEN j = l ELSE j = l + 1
        BY <3>3
      <4>2. PICK i \in DOMAIN indexs : indexs'[n] = indexs[i] /\ IF n < k THEN i = n ELSE i = n + 1
        BY <3>3
      <4>3. j = i
        BY <1>7, <3>5, <4>1, <4>2
      <4>4. l \in Nat /\ n \in Nat
        <5>1. RemoveAt(indexs, k) \in Seq(IndexType(Len(column), Len(heap)))
          BY <1>5, RemoveAtFacts
        <5>2. DOMAIN indexs' = 1..Len(indexs')
          BY <2>4, <5>1
        <5> QED
          BY <5>2
      <4>5. k \in Nat
        BY <1>5
      <4> QED
        BY <4>1, <4>2, <4>3, <4>4, <4>5
    <3>6. IndexsInv'
      BY <3>4, <3>5 DEF IndexsInv
    <3>7. pc' # "failed"
      BY <1>1, <2>4
    <3> QED
      BY <1>9, <2>1, <2>3, <2>4, <3>1, <3>2, <3>6, <3>7
  <2>5. CASE /\ Len(indexs) = 1 /\ indexs' = << TempIndex(colDes, updCol) >>
             /\ pc' = "scan" /\ UNCHANGED <<column, colDes, updCol, dropping>>
    <3>1. indexs' = << TempIndex(colDes', updCol') >> /\ dropping' = 0
      BY <1>5, <2>5
    <3>2. IndexsInv' /\ TableKeys(indexs', {}, column) = {}
      BY <3>1, TempAlone, TempKeyless, <2>5
    <3>3. ASSUME NotIn(KeyOddities)'
          PROVE  TableKeys(indexs, {}, column) \subseteq {key}
      <4> SUFFICES ASSUME NEW m \in TableKeys(indexs, {}, column) PROVE m = key
        OBVIOUS
      <4>1. PICK j \in DOMAIN indexs : Stays(indexs[j], {}) /\ m = KeyOfIndex(indexs[j], {}, column)
        BY TableKeysMember
      <4>2. j = k
        BY <1>5, <2>5
      <4> QED
        BY <2>3, <3>3, <4>1, <4>2
    <3>4. pc' # "failed"
      BY <2>5
    <3> QED
      BY <1>9, <2>1, <2>5, <3>2, <3>3, <3>4
  <2> QED
    BY <2>2, <2>4, <2>5
<1> QED
  BY <1>1, <1>10, <1>11

(* A statement the splitter passes by.                                     *)
LEMMA LogIndexStep ==
  ASSUME TraceInv, NEW key,
         (LogCreateIndex(key) /\ key \in SourceKeys) \/ LogDropIndex(key)
  PROVE  TraceInv'
<1>1. /\ pc = "call" /\ UNCHANGED vars /\ cols' = cols /\ met' = met \cup {"apart"}
      /\ \/ keys' = keys \ {key}
         \/ keys' = keys \cup {key} /\ key \in SourceKeys /\ \A k \in keys : k.name # key.name
  BY DEF LogCreateIndex, LogDropIndex, Ready, Met
<1>2. UNCHANGED <<column, colDes, updCol, indexs, rows, pc, pos, dropping>>
  BY <1>1 DEF vars, schema, store, ctl
<1>3. TableInv /\ FlowsInv /\ SourceInv /\ IndexsInv
  BY <1>1, AtRest DEF TraceInv, FlowsInv
<1>4. TableInv'
  BY <1>1, <1>2, <1>3, NextKeepsIndInv, NextKeepsTemp DEF TableInv, IndInv
<1>5. keys' \subseteq SourceKey /\ NamesOnce(keys')
  BY <1>1, <1>3, TraceAssumption DEF SourceInv, NamesOnce, TraceAssumption
<1>6. /\ SourceInv' /\ UpdatedAtInv' /\ OrderKept' /\ NamesKept'
      /\ InTable' = InTable
  BY <1>1, <1>2, <1>5, ColumnsUntouched
<1>7. IndexsInv'
  <2>1. ASSUME NEW k \in DOMAIN indexs PROVE IndexInv(k)'
    BY <1>2, <1>3, <1>6 DEF IndexsInv, IndexInv
  <2>2. NotIn({"unnamed"})' => NotIn({"unnamed"})
    BY <1>1 DEF NotIn
  <2> QED
    BY <1>2, <1>3, <2>1, <2>2 DEF IndexsInv
<1>8. KeysKept'
  BY <1>1 DEF KeysKept, NotIn
<1> QED
  BY <1>1, <1>2, <1>4, <1>6, <1>7, <1>8, StatementCarriedOut DEF FlowsInv

-----------------------------------------------------------------------------
(* All steps together.                                                     *)

LEMMA StutterStep ==
  ASSUME TraceInv, UNCHANGED traceVars
  PROVE  TraceInv'
<1>1. UNCHANGED vars /\ UNCHANGED <<cols, keys, met>>
  BY DEF traceVars, sourceVars
<1>2. UNCHANGED <<column, colDes, updCol, indexs, rows, pc, pos, dropping>>
  BY <1>1 DEF vars, schema, store, ctl
<1>3. TableInv'
  BY <1>1, <1>2, NextKeepsIndInv, NextKeepsTemp DEF TraceInv, TableInv, IndInv
<1>4. Left' = Left /\ Leaving' = Leaving /\ InTable' = InTable
  BY <1>2 DEF Left, Leaving, InTable
<1>5. FlowsInv => FlowsInv'
  <2> SUFFICES ASSUME FlowsInv PROVE FlowsInv'
    OBVIOUS
  <2>1. ASSUME NEW k \in DOMAIN indexs PROVE IndexInv(k)'
    BY <1>2, <1>4 DEF FlowsInv, IndexsInv, IndexInv
  <2>2. IndexsInv'
    BY <1>1, <1>2, <2>1 DEF FlowsInv, IndexsInv, NotIn
  <2> QED
    BY <1>1, <1>2, <1>4, <2>2, SourceUntouched DEF sourceVars
<1> QED
  BY <1>1, <1>2, <1>3, <1>5 DEF TraceInv, Underway, EndsForAReason

LEMMA LogStep ==
  ASSUME TraceInv, Log
  PROVE  TraceInv'
<1>1. CASE \E s \in SourceCreates, q, inline, prefix \in BOOLEAN :
             \E unnamed \in SUBSET Range(s.keys) : LogCreate(s, q, inline, prefix, unnamed)
  BY <1>1, LogCreateStep
<1>2. ASSUME NEW nm \in SourceNames, NEW q \in BOOLEAN,
             \E where \in Places, more \in Mores({nm}) : LogAddColumn(nm, where, q, more)
      PROVE  TraceInv'
  BY <1>2, LogAddColumnStep
<1>3. ASSUME NEW nm \in SourceNames, NEW q \in BOOLEAN,
             \E more \in Mores({nm}) : LogDropColumn(nm, q, more)
      PROVE  TraceInv'
  BY <1>3, LogDropColumnStep
<1>4. ASSUME NEW nm \in SourceNames, NEW q \in BOOLEAN,
             \E to \in SourceNames, where \in {AtEnd, InFront} : LogChangeColumn(nm, to, where, q)
      PROVE  TraceInv'
  BY <1>4, LogChangeColumnStep
<1>5. ASSUME NEW key \in SourceKeys,
             \/ \E q, named, prefix \in BOOLEAN : LogAddKey(key, q, named, prefix)
             \/ LogCreateIndex(key)
      PROVE  TraceInv'
  BY <1>5, LogAddKeyStep, LogIndexStep
<1>6. ASSUME NEW key \in keys, (\E q \in BOOLEAN : LogDropKey(key, q)) \/ LogDropIndex(key)
      PROVE  TraceInv'
  BY <1>6, LogDropKeyStep, LogIndexStep
<1>7. CASE LogNothing
  BY <1>7, StutterStep DEF LogNothing
<1>8. CASE LogUnhandled
  <2>1. Fail /\ "unhandled" \in met'
    BY <1>8 DEF LogUnhandled, Met
  <2> QED
    BY <2>1, FailTrace DEF TraceInv, Reasons
<1> QED
  BY <1>1, <1>2, <1>3, <1>4, <1>5, <1>6, <1>7, <1>8 DEF Log

LEMMA InitTrace == TraceInit => TraceInv
<1> SUFFICES ASSUME TraceInit PROVE TraceInv
  OBVIOUS
<1>1. Init /\ rows = <<>> /\ pc = "new" /\ colDes = <<>> /\ indexs = <<>>
  BY DEF TraceInit, Init
<1>2. IndInv
  BY <1>1, InitType, InitSafe DEF IndInv
<1>3. TempInv
  BY <1>1, EmptySeq DEF TempInv, ColumnsOnce, TempFits
<1> QED
  BY <1>1, <1>2, <1>3 DEF TraceInv, TableInv, Underway, EndsForAReason

LEMMA SpecKeepsTraceInv == TraceSpec => []TraceInv
<1>1. TraceInv /\ [TraceNext]_traceVars => TraceInv'
  BY LogStep, RecomputeStep, StutterStep DEF TraceNext
<1> QED
  BY <1>1, InitTrace, PTL DEF TraceSpec

-----------------------------------------------------------------------------
(* What follows.                                                           *)

(* Each value of a row lands in its own column: between two statements the *)
(* table has the source's columns in the source's order, whatever          *)
(* statements the log has, unless one put a column FIRST, moved one by     *)
(* CHANGE or had several items.                                            *)
THEOREM TableFollowsColumns == TraceSpec => []ColumnsFollow
<1>1. TraceInv => ColumnsFollow
  <2> SUFFICES ASSUME TraceInv, pc = "call", NotIn({"first", "moved", "several"})
               PROVE  cols = [i \in DOMAIN colDes |-> Bare(column[colDes[i]].name)]
    BY DEF ColumnsFollow, NotIn
  <2>1. /\ FlowsInv /\ Left = colDes /\ DOMAIN colDes = 1..Len(colDes)
    BY AtRest
  <2>2. Follows(cols, colDes, column) /\ cols \in Seq(SourceColumn)
    BY <2>1 DEF FlowsInv, OrderKept, SourceInv
  <2>3. /\ DOMAIN cols = DOMAIN colDes
        /\ \A i \in DOMAIN colDes : cols[i] = Bare(column[colDes[i]].name)
    BY <2>1, <2>2 DEF Follows
  <2>4. cols = [i \in DOMAIN cols |-> cols[i]]
    BY <2>2
  <2> QED
    BY <2>3, <2>4
<1> QED
  BY <1>1, SpecKeepsTraceInv, PTL

(* Rows compete in the table exactly if they do in the source: between two *)
(* statements the indexes that are not temporary are the unique keys of    *)
(* the source, as kinds and sets of columns, unless a key was written at   *)
(* its column, without a name or in a statement apart, a statement had     *)
(* several items, or backquotes were used.                                 *)
THEOREM TableFollowsKeys == TraceSpec => []KeysFollow
<1>1. TraceInv => KeysFollow
  <2> SUFFICES ASSUME TraceInv, pc = "call", NotIn({"inline"} \cup KeyOddities)
               PROVE  {[isPrimary |-> k.isPrimary, names |-> k.names] : k \in keys}
                        = {KeyNames(indexs[k]) : k \in {j \in DOMAIN indexs : ~indexs[j].isTemp}}
    BY DEF KeysFollow, NotIn
  <2>1. /\ NotIn({"several", "quoted"}) /\ NotIn(KeyOddities)
        /\ NotIn({"inline"})
    BY DEF NotIn
  <2>2. /\ FlowsInv /\ Left = colDes /\ Leaving = {} /\ dropping = 0 /\ InTable = Range(Left)
    BY AtRest
  <2>3. keys = TableKeys(indexs, {}, column) /\ SameNames(cols, InTable, column)
    BY <2>1, <2>2 DEF FlowsInv, KeysKept, NamesKept
  <2>4. \A c \in InTable : Bare(column[c].name) = column[c].name
    <3>1. \A nm \in Range(cols) : nm \in DOMAIN Quote
      BY <2>2 DEF FlowsInv, SourceInv, Range, SourceColumn
    <3> QED
      BY <2>3, <3>1, BareNames DEF SameNames
  <2>5. ASSUME NEW k \in DOMAIN indexs
        PROVE  /\ Stays(indexs[k], {}) <=> ~indexs[k].isTemp
               /\ KeyNames(indexs[k]) = [isPrimary |-> KeyOfIndex(indexs[k], {}, column).isPrimary,
                                         names |-> KeyOfIndex(indexs[k], {}, column).names]
    <3>1. IndexInv(k)
      BY <2>2 DEF FlowsInv, IndexsInv
    <3>2. indexs[k].cols \subseteq InTable /\ (~indexs[k].isTemp => indexs[k].cols # {})
      BY <2>2, <3>1 DEF IndexInv
    <3>3. {Bare(column[c].name) : c \in indexs[k].cols} = {column[c].name : c \in indexs[k].cols \ {}}
      BY <2>4, <3>2
    <3> QED
      BY <3>2, <3>3 DEF Stays, KeyNames, KeyOfIndex
  <2>6. ASSUME NEW k \in DOMAIN indexs, ~indexs[k].isTemp
        PROVE  \E m \in keys : KeyNames(indexs[k]) = [isPrimary |-> m.isPrimary, names |-> m.names]
    BY <2>3, <2>5, <2>6, TableKeysMember
  <2>7. ASSUME NEW m \in keys
        PROVE  \E k \in DOMAIN indexs : /\ ~indexs[k].isTemp
                 /\ KeyNames(indexs[k]) = [isPrimary |-> m.isPrimary, names |-> m.names]
    <3>1. PICK k \in DOMAIN indexs : Stays(indexs[k], {}) /\ m = KeyOfIndex(indexs[k], {}, column)
      BY <2>3, TableKeysMember
    <3> QED
      BY <2>5, <3>1
  <2> QED
    BY <2>6, <2>7
<1> QED
  BY <1>1, SpecKeepsTraceInv, PTL

(* A log with none of the oddities that EndsForAReason names never ends    *)
(* the process: every lookup by name finds its column and a key is only    *)
(* added to a table that has its temporary index.                          *)
THEOREM OnlyOdditiesEnd == TraceSpec => []EndsForAReason
<1>1. TraceInv => EndsForAReason
  BY DEF TraceInv
<1> QED
  BY <1>1, SpecKeepsTraceInv, PTL
=============================================================================
