---------------------------- MODULE UniqueTable ----------------------------
(***************************************************************************)
(* The in-memory table a SubWorker rebuilds (Table, UniqueIndex, Row and   *)
(* ColumnDescriptor of src/src/structure/table.cpp).                       *)
(*                                                                         *)
(* A pointer is the position of what it points to: a column descriptor is  *)
(* its physical position (mapping, counted from 1), a row its position in  *)
(* the heap of rows ever allocated, and 0 is nullptr.  `delete' puts a row *)
(* in freed.  One call is one step, except that UniqueIndex::reCompute     *)
(* visits one row per step and dropColumn one index per step.  The calls   *)
(* come in any order; SubWorker fixes theirs.                              *)
(*                                                                         *)
(* A definition under "Wrong:" is a plausible mistake in the one after it. *)
(* No specification uses it: it is there to see the properties fail.       *)
(***************************************************************************)
EXTENDS RowOrder, Integers, SequencesExt

CONSTANTS
  Name,        \* column names
  UpdName,     \* the name "updated_at"
  AlterNames,  \* the names ALTER TABLE statements add, drop or change
  KeyName,     \* names of secondary unique keys
  AddedKeys,   \* the unique keys ALTER TABLE statements add
  Value,       \* column values
  Blank,       \* the empty string, the least value
  Default,     \* the values DEFAULT clauses name
  Source,      \* the source databases
  Creates,     \* the CREATE TABLE statements
  Hash,        \* hash values
  HashOf(_),   \* the hash of the values of a key, column by column
  MaxRows,     \* bound on the rows allocated
  MaxCols      \* bound on the columns created

AddedKey == [name : KeyName \cup {""}, isPrimary : BOOLEAN, names : SUBSET Name]

ASSUME ConstAssumption ==
  /\ UpdName \in Name
  /\ AlterNames \subseteq Name
  /\ AddedKeys \subseteq AddedKey
  /\ Value \subseteq Nat
  /\ Blank \in Value /\ \A v \in Value : Blank <= v
  /\ Default \subseteq Value
  /\ Source \subseteq Nat
  /\ MaxRows \in Nat
  /\ MaxCols \in Nat

ASSUME HashAssumption ==
  \A C \in SUBSET (1..MaxCols) : \A k \in [C -> Value] : HashOf(k) \in Hash

Null == 0

Column == [name : Name, def : Default \cup {-1}]   \* -1: no DEFAULT clause

(* A CREATE TABLE statement: its columns, and its unique keys over their   *)
(* positions.                                                              *)
KeyClause(n) ==
  [name : KeyName \cup {""}, isPrimary : BOOLEAN, cols : (SUBSET (1..n)) \ {{}}]

WellFormed(s) ==
  /\ s.cols \in Seq(Column) /\ s.cols # <<>> /\ Len(s.cols) <= MaxCols
  /\ \A i, j \in DOMAIN s.cols : s.cols[i].name = s.cols[j].name => i = j
  /\ s.keys \in Seq(KeyClause(Len(s.cols)))

ASSUME CreatesAssumption == \A s \in Creates : WellFormed(s)

VARIABLES
  column,    \* every descriptor created; Len(column) is Table::colPhy
  colDes,    \* the columns of the table, in their logical order
  updCol,    \* the column named updated_at when it was added
  heap,      \* every row allocated
  freed,     \* the rows deleted
  rows,      \* Table::rows
  indexs,    \* Table::indexs
  stamp,     \* SubWorker::work's stamp[source]
  pc,        \* where the call in progress stands
  at,        \* next row reCompute visits, 0 outside reCompute
  pos,       \* the index being recomputed or visited by dropColumn
  dropping,  \* position in colDes of the column dropColumn removes, or 0
  covered    \* history: the rows offered to the index since it was last keyed

schema == <<column, colDes, updCol>>
store  == <<heap, freed, rows>>
ctl    == <<pc, at, pos, dropping>>
vars   == <<schema, store, indexs, stamp, ctl, covered>>

Columns  == 1..Len(column)
RowIds   == 1..Len(heap)
Live     == Range(rows) \ {Null}
InTable  == Range(colDes)

-----------------------------------------------------------------------------
(* Keys and precedence.                                                    *)

(* UniqueIndex::getHashOfRow: the bucket of a row under an index on C.     *)
KeyOf(row, C) == HashOf([c \in C |-> row.data[c]])

VersionOf(row) ==
  [upd    |-> IF updCol = Null THEN Blank ELSE row.data[updCol],
   source |-> row.source,
   stamp  |-> row.stamp]

Bucket(r, C) == KeyOf(heap[r], C)
Beats(r, s)  == Supersedes(VersionOf(heap[r]), VersionOf(heap[s]))

(* Wrong: the order of the rows within a source is forgotten, or the other *)
(* source wins a tie.                                                      *)
WinsWithoutStamp(row, old) ==
  Supersedes([VersionOf(row) EXCEPT !.stamp = 0], [VersionOf(heap[old]) EXCEPT !.stamp = 0])
WinsOfLaterSource(row, old) ==
  Supersedes([VersionOf(row) EXCEPT !.source = heap[old].source],
             [VersionOf(heap[old]) EXCEPT !.source = row.source])

(* UniqueIndex::checkRow on a row that meets its key: does it take over?   *)
Wins(row, old) == Supersedes(VersionOf(row), VersionOf(heap[old]))

(* Wrong: idxInsideTable keeps its old value.                              *)
TakeSlotOnly(row, old) == row

(* Table::doRowReplace: the row that takes over gets the slot.             *)
TakeSlot(row, old) == [row EXCEPT !.idx = heap[old].idx]

EmptyHash == [b \in Hash |-> Null]

(* hash.find: the row that holds the key of a row in the index at k.       *)
Holder(k, row) == indexs[k].hash[KeyOf(row, indexs[k].cols)]

(* hash[key of row] = r, in the index at k.                                *)
Hashed(k, row, r) == [indexs EXCEPT ![k].hash[KeyOf(row, indexs[k].cols)] = r]

(* Wrong: reCompute keeps the old buckets.                                 *)
NotCleared(ix, C) == [ix EXCEPT !.cols = C]

(* A key over other columns starts from an empty hash.                     *)
ReKeyed(ix, C) == [ix EXCEPT !.cols = C, !.hash = EmptyHash]

Index(nm, isPrimary, C) ==
  [name |-> nm, isPrimary |-> isPrimary, isTemp |-> FALSE, cols |-> C, hash |-> EmptyHash]

(* The index of a table without a unique key: every column but updated_at. *)
TempIndex(cd, upd) ==
  [name |-> "___TEMP_PRIMARY", isPrimary |-> FALSE, isTemp |-> TRUE,
   cols |-> Range(cd) \ {upd}, hash |-> EmptyHash]

-----------------------------------------------------------------------------
(* Control shared by the calls.                                            *)

(* An uncaught exception, or undefined behaviour that ends the process.    *)
Fail == pc' = "failed" /\ UNCHANGED <<schema, store, indexs, stamp, at, pos, dropping, covered>>

Return == pc' = "call" /\ at' = 0 /\ UNCHANGED <<pos, dropping, covered>>

(* Enter reCompute of the index at position p.                             *)
Scan(p) == pc' = "scan" /\ at' = 1 /\ pos' = p /\ covered' = Live

(* The temporary index erases find(cols, updCol) unconditionally: with     *)
(* updated_at not among the columns that erases end().                     *)
NoTempIndex(cd, upd) == upd \notin Range(cd)

Init ==
  /\ column = <<>> /\ colDes = <<>> /\ updCol = Null
  /\ heap = <<>> /\ freed = {} /\ rows = <<>>
  /\ indexs = <<>>
  /\ stamp = [s \in Source |-> 0]
  /\ pc = "new" /\ at = 0 /\ pos = 0 /\ dropping = 0
  /\ covered = {}

-----------------------------------------------------------------------------
(* CREATE TABLE (CreateTableStatement::fillToTable): no row exists yet, so *)
(* the new indexes have nothing to recompute.                              *)

(* Wrong: colPhy as it is after the loop.                                  *)
UpdColNext(cols) == Len(cols) + 1

UpdColOf(cols) ==
  IF \E i \in DOMAIN cols : cols[i].name = UpdName
  THEN CHOOSE i \in DOMAIN cols : cols[i].name = UpdName
  ELSE Null

CreateTable(s) ==
  /\ pc = "new"
  /\ LET all == [i \in DOMAIN s.cols |-> i]
         upd == UpdColOf(s.cols)
     IN  IF s.keys = <<>> /\ NoTempIndex(all, upd)
         THEN Fail
         ELSE /\ column' = s.cols /\ colDes' = all /\ updCol' = upd
              /\ indexs' = IF s.keys = <<>>
                           THEN << TempIndex(all, upd) >>
                           ELSE [k \in DOMAIN s.keys |->
                                  Index(s.keys[k].name, s.keys[k].isPrimary, s.keys[k].cols)]
              /\ Return
              /\ UNCHANGED <<store, stamp>>

(* Wrong: the new column never joins the temporary index.                  *)
TempOverlooked == FALSE
HasTemp == indexs # <<>> /\ indexs[1].isTemp

(* ALTER TABLE ADD COLUMN.  A temporary index is dropped and built anew    *)
(* over the columns with the new one (table.cpp:42).                       *)
AddColumn(c, after) ==
  /\ pc = "call"
  /\ \A i \in InTable : column[i].name # c.name
  /\ Len(column) < MaxCols
  /\ LET new   == Len(column) + 1
         order == InsertAt(colDes, after + 1, new)
         upd   == IF c.name = UpdName THEN new ELSE updCol
     IN  IF HasTemp /\ NoTempIndex(order, upd)
         THEN Fail
         ELSE /\ column' = Append(column, c) /\ colDes' = order /\ updCol' = upd
              /\ heap' = [r \in RowIds |->
                           IF r \in Live
                           THEN [heap[r] EXCEPT !.data =
                                  Append(@, IF c.def = -1 THEN Blank ELSE c.def)]
                           ELSE heap[r]]
              /\ IF HasTemp
                 THEN /\ indexs' = << TempIndex(order, upd) >>
                      /\ Scan(1) /\ UNCHANGED dropping
                 ELSE /\ covered' = IF upd = updCol THEN covered ELSE Live
                      /\ UNCHANGED <<indexs, ctl>>
              /\ UNCHANGED <<freed, rows, stamp>>

(* ALTER TABLE CHANGE COLUMN renames the column and sets its default; the  *)
(* column keeps its place, and updCol is not looked up again.              *)
ChangeColumn(i, c) ==
  /\ pc = "call"
  /\ \A j \in InTable \ {colDes[i]} : column[j].name # c.name
  /\ column' = [column EXCEPT ![colDes[i]] = c]
  /\ UNCHANGED <<colDes, updCol, store, indexs, stamp, ctl, covered>>

(* ALTER TABLE ADD UNIQUE KEY or PRIMARY KEY.                              *)
AddUniqueIndex(key) ==
  /\ pc = "call"
  /\ key.names \subseteq {column[c].name : c \in InTable}
  /\ IF Len(indexs) = 1 /\ indexs[1].isTemp
     THEN /\ indexs' = << Index(key.name, key.isPrimary,
                               {c \in InTable : column[c].name \in key.names}) >>
          /\ Scan(1)
          /\ UNCHANGED <<schema, store, stamp, dropping>>
     ELSE Fail

(* ALTER TABLE DROP INDEX or DROP PRIMARY KEY.  The first index that fits  *)
(* is erased; when none does the call does nothing.                        *)
Fits(k, isPrimary, nm) ==
  IF isPrimary THEN indexs[k].isPrimary ELSE indexs[k].name = nm

DropUniqueIndex(isPrimary, nm) ==
  /\ pc = "call"
  /\ \E k \in DOMAIN indexs :
       /\ Fits(k, isPrimary, nm) /\ \A j \in 1..(k-1) : ~Fits(j, isPrimary, nm)
       /\ \/ /\ Len(indexs) > 1
             /\ indexs' = RemoveAt(indexs, k)
             /\ UNCHANGED <<schema, store, stamp, ctl, covered>>
          \/ /\ Len(indexs) = 1 /\ ~NoTempIndex(colDes, updCol)
             /\ indexs' = << TempIndex(colDes, updCol) >>
             /\ Scan(1)
             /\ UNCHANGED <<schema, store, stamp, dropping>>
          \/ Len(indexs) = 1 /\ NoTempIndex(colDes, updCol) /\ Fail

-----------------------------------------------------------------------------
(* ALTER TABLE DROP COLUMN.                                                *)

DropColumn(i) ==
  /\ pc = "call"
  /\ pc' = "drop" /\ dropping' = i /\ pos' = 1
  /\ UNCHANGED <<schema, store, indexs, stamp, at, covered>>

(* Wrong: an index left without columns is not erased, nor passed.         *)
EmptyStays ==
  /\ indexs' = indexs
  /\ pos' = IF indexs[pos].cols = {} THEN pos ELSE pos + 1

(* After deleteCol: an index left without columns is erased, and the one   *)
(* that follows takes its place.                                           *)
Sweep ==
  IF indexs[pos].cols = {}
  THEN indexs' = RemoveAt(indexs, pos) /\ pos' = pos
  ELSE indexs' = indexs /\ pos' = pos + 1

(* UniqueIndex::deleteCol on the index at pos.                             *)
DropFromIndex ==
  /\ pc = "drop" /\ pos <= Len(indexs)
  /\ LET c == colDes[dropping]
     IN  IF c \in indexs[pos].cols
         THEN /\ indexs' = [indexs EXCEPT ![pos] = ReKeyed(@, @.cols \ {c})]
              /\ Scan(pos)
              /\ UNCHANGED <<schema, store, stamp, dropping>>
         ELSE /\ Sweep
              /\ UNCHANGED <<schema, store, stamp, pc, at, dropping, covered>>

(* The column leaves the table, but not the data of the rows; a table left *)
(* without an index gets the temporary one.                                *)
DropFinish ==
  /\ pc = "drop" /\ pos > Len(indexs)
  /\ LET order == RemoveAt(colDes, dropping)
     IN  \/ /\ indexs # <<>>
            /\ colDes' = order /\ dropping' = 0
            /\ pc' = "call"
            /\ UNCHANGED <<column, updCol, store, indexs, stamp, at, pos, covered>>
         \/ /\ indexs = <<>> /\ ~NoTempIndex(order, updCol)
            /\ colDes' = order /\ dropping' = 0
            /\ indexs' = << TempIndex(order, updCol) >>
            /\ Scan(1)
            /\ UNCHANGED <<column, updCol, store, stamp>>
         \/ indexs = <<>> /\ NoTempIndex(order, updCol) /\ Fail

-----------------------------------------------------------------------------
(* UniqueIndex::reCompute.  A row that meets its key again either takes    *)
(* the slot of the row it beats or is forgotten; both leave its own slot   *)
(* empty, and a forgotten row is never deleted.                            *)

ScanEmpty ==
  rows[at] = Null /\ UNCHANGED <<store, indexs>>

ScanFirst(r) ==
  /\ Holder(pos, heap[r]) = Null
  /\ indexs' = Hashed(pos, heap[r], r)
  /\ UNCHANGED store

ScanNewer(r) ==
  LET old == Holder(pos, heap[r])
  IN  /\ old # Null /\ updCol # Null /\ Wins(heap[r], old)
      /\ indexs' = Hashed(pos, heap[r], r)
      /\ rows'   = [rows EXCEPT ![heap[old].idx] = r, ![at] = Null]
      /\ heap'   = [heap EXCEPT ![r] = TakeSlot(@, old)]
      /\ freed'  = freed \cup {old}

ScanStale(r) ==
  LET old == Holder(pos, heap[r])
  IN  /\ old # Null /\ updCol # Null /\ ~Wins(heap[r], old)
      /\ rows' = [rows EXCEPT ![at] = Null]
      /\ UNCHANGED <<heap, freed, indexs>>

ScanRow ==
  /\ pc = "scan" /\ at <= Len(rows)
  /\ LET r == rows[at]
     IN  \/ /\ \/ ScanEmpty
               \/ r # Null /\ (ScanFirst(r) \/ ScanNewer(r) \/ ScanStale(r))
            /\ at' = at + 1
            /\ UNCHANGED <<schema, stamp, pc, pos, dropping, covered>>
         \/ r # Null /\ Holder(pos, heap[r]) # Null /\ updCol = Null /\ Fail

ScanDone ==
  /\ pc = "scan" /\ at > Len(rows)
  /\ at' = 0
  /\ \/ dropping = 0 /\ pc' = "call" /\ UNCHANGED <<indexs, pos>>
     \/ dropping # 0 /\ pc' = "drop" /\ Sweep
  /\ UNCHANGED <<schema, store, stamp, dropping, covered>>

-----------------------------------------------------------------------------
(* Table::insertRows, one row: DATParser pads the columns the file does    *)
(* not have with the empty string and numbers the row within its source.   *)

(* Wrong: the data in file order, one per column of the table.             *)
Unpadded(vals) == [c \in DOMAIN colDes |-> vals[colDes[c]]]

Padded(vals) == [c \in Columns |-> IF c \in InTable THEN vals[c] ELSE Blank]

NewRow(s, vals) == [data |-> Padded(vals), source |-> s, stamp |-> stamp[s], idx |-> Null]

(* Wrong: any index will do.                                               *)
SomeIndex == Len(indexs) >= 1

(* insertRows refuses a table with several indexes.                        *)
OneIndex == Len(indexs) = 1

NewId == Len(heap) + 1

InsertFirst(row) ==
  /\ Holder(1, row) = Null
  /\ heap'   = Append(heap, [row EXCEPT !.idx = Len(rows) + 1])
  /\ rows'   = Append(rows, NewId)
  /\ indexs' = Hashed(1, row, NewId)
  /\ UNCHANGED freed

InsertNewer(row) ==
  LET old == Holder(1, row)
  IN  /\ old # Null /\ updCol # Null /\ Wins(row, old)
      /\ heap'   = Append(heap, TakeSlot(row, old))
      /\ rows'   = [rows EXCEPT ![heap[old].idx] = NewId]
      /\ indexs' = Hashed(1, row, NewId)
      /\ freed'  = freed \cup {old}

InsertStale(row) ==
  LET old == Holder(1, row)
  IN  /\ old # Null /\ updCol # Null /\ ~Wins(row, old)
      /\ heap' = Append(heap, row)
      /\ UNCHANGED <<rows, freed, indexs>>

InsertRow(s, vals) ==
  /\ pc = "call" /\ Len(heap) < MaxRows
  /\ OneIndex
  /\ LET row == NewRow(s, vals)
     IN  \/ /\ InsertFirst(row) \/ InsertNewer(row) \/ InsertStale(row)
            /\ stamp' = [stamp EXCEPT ![s] = @ + 1]
            /\ covered' = covered \cup {NewId}
            /\ UNCHANGED <<schema, ctl>>
         \/ Holder(1, row) # Null /\ updCol = Null /\ Fail

InsertRefused == pc = "call" /\ ~OneIndex /\ Fail

-----------------------------------------------------------------------------
(* A MySQL server has accepted every statement: no duplicate name, no      *)
(* missing column, and a table keeps at least one column.                  *)

Alter ==
  \/ \E c \in Column, after \in DOMAIN colDes : c.name \in AlterNames /\ AddColumn(c, after)
  \/ \E c \in Column, i \in DOMAIN colDes :
       {c.name, column[colDes[i]].name} \subseteq AlterNames /\ ChangeColumn(i, c)
  \/ \E i \in DOMAIN colDes :
       Len(colDes) > 1 /\ column[colDes[i]].name \in AlterNames /\ DropColumn(i)
  \/ \E key \in AddedKeys : AddUniqueIndex(key)
  \/ \E nm \in KeyName : DropUniqueIndex(FALSE, nm)
  \/ DropUniqueIndex(TRUE, "")

Recompute == DropFromIndex \/ DropFinish \/ ScanRow \/ ScanDone

Insert ==
  \/ \E s \in Source, vals \in [InTable -> Value] : InsertRow(s, vals)
  \/ InsertRefused

Next == (\E s \in Creates : CreateTable(s)) \/ Alter \/ Recompute \/ Insert

Spec == Init /\ [][Next]_vars

-----------------------------------------------------------------------------
(* What holds of the table.                                                *)

RowType == [data : Seq(Value), source : Source, stamp : Nat, idx : Nat]

(* An index over n columns and m rows.                                     *)
IndexType(n, m) ==
  [name : KeyName \cup {"", "___TEMP_PRIMARY"}, isPrimary : BOOLEAN, isTemp : BOOLEAN,
   cols : SUBSET (1..n), hash : [Hash -> 1..m \cup {Null}]]

SchemaType ==
  /\ column \in Seq(Column) /\ Len(column) <= MaxCols
  /\ colDes \in Seq(Columns)
  /\ updCol \in Columns \cup {Null}

StoreType ==
  /\ heap \in Seq(RowType)
  /\ freed \subseteq RowIds
  /\ rows \in Seq(RowIds \cup {Null})
  /\ stamp \in [Source -> Nat]
  /\ covered \subseteq RowIds

IndexsType == indexs \in Seq(IndexType(Len(column), Len(heap)))

CtlType ==
  /\ pc \in {"new", "call", "scan", "drop", "failed"}
  /\ at \in Nat /\ pos \in Nat /\ dropping \in DOMAIN colDes \cup {0}
  /\ pc = "new" => rows = <<>> /\ indexs = <<>> /\ covered = {}
  /\ pc \in {"new", "call"} => at = 0 /\ dropping = 0
  /\ pc = "call" => indexs # <<>>
  /\ pc = "scan" => at \in 1..(Len(rows) + 1) /\ pos \in DOMAIN indexs
  /\ pc = "drop" => at = 0 /\ dropping # 0 /\ pos \in 1..(Len(indexs) + 1)

TypeOK == SchemaType /\ StoreType /\ IndexsType /\ CtlType

(* No use after delete: a row held by a slot or by an index is not deleted,*)
(* and idxInsideTable, by which the row is overwritten when a newer one    *)
(* arrives, is the slot that holds it (Table::doRowReplace).               *)
SlotsExact ==
  /\ \A i \in DOMAIN rows : rows[i] # Null => rows[i] \notin freed /\ heap[rows[i]].idx = i
  /\ \A k \in DOMAIN indexs : \A b \in Hash : indexs[k].hash[b] \in Live \cup {Null}

(* Which slots the index has taken in: all of them, or those reCompute has *)
(* passed.                                                                 *)
Visited == IF at = 0 THEN DOMAIN rows ELSE 1..(at - 1)

(* The index and the slots say the same: a row the index holds sits in a   *)
(* slot the index has taken in, and in the bucket of its own key; the row  *)
(* of such a slot is the one its bucket holds.  So no two rows share a key.*)
HashExact ==
  \A k \in DOMAIN indexs :
    /\ \A b \in Hash :
         LET r == indexs[k].hash[b]
         IN  r # Null => heap[r].idx \in Visited /\ Bucket(r, indexs[k].cols) = b
    /\ \A i \in DOMAIN rows \cap Visited :
         rows[i] # Null => indexs[k].hash[Bucket(rows[i], indexs[k].cols)] = rows[i]

(* A table with several unique keys never gets a row: insertRows refuses   *)
(* it, and no later statement makes a second index on a table with rows.   *)
OneIndexWithRows == Len(indexs) > 1 => rows = <<>> /\ covered = {}

(* The temporary index is the only one and stands for the whole row but    *)
(* updated_at, whatever columns came and went (table.cpp:42, :148).        *)
TempIsWholeRow ==
  pc \in {"call", "scan"} /\ dropping = 0 =>
    \A k \in DOMAIN indexs :
      indexs[k].isTemp => Len(indexs) = 1 /\ indexs[k].cols = InTable \ {updCol}

(* Every row of the table has a datum for every physical column, so that   *)
(* dumpToFile and getHashOfRow read inside Row::data.                      *)
DataAligned == \A r \in Live : Len(heap[r].data) = Len(column)

KeyCols == IF indexs = <<>> THEN {} ELSE indexs[1].cols

(* No update is lost: of the rows offered under the present key, each is   *)
(* in the table, or one of the same key that beats it is.                  *)
NewestSurvives ==
  \A r \in covered : \E s \in Live :
    Bucket(s, KeyCols) = Bucket(r, KeyCols) /\ (s = r \/ Beats(s, r))

(* DROP COLUMN forgets rows only to an index that still has a column: one  *)
(* left empty is deleted, not recomputed (design.txt:33).                  *)
LossOnlyToAKey ==
  [][\A r \in Live \ Live' : dropping # 0 => indexs[pos].cols # {}]_vars

(* A table takes rows whatever its unique keys: design.txt:15 keeps a list *)
(* of them and design.txt:44 checks a row against each, so that insertRows *)
(* never refuses one.                                                      *)
SeveralKeysAccepted == [][~InsertRefused]_vars

(* The table is a last-write-wins register per key.                        *)
Entries(S) == {[key |-> Bucket(r, KeyCols), ver |-> VersionOf(heap[r])] : r \in S}

LWW == INSTANCE LastWriteWins WITH
         Key <- Hash, offers <- Entries(covered), table <- Newest(Entries(Live))

LastWriteWins == LWW!Spec
=============================================================================
