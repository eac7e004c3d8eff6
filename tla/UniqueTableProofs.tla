-------------------------- MODULE UniqueTableProofs --------------------------
(***************************************************************************)
(* Proofs about UniqueTable, for every schema, every sequence of           *)
(* statements and rows, and every hash function: types and memory safety,  *)
(* the temporary index, and that the last write of each key is kept.       *)
(***************************************************************************)
EXTENDS UniqueTable, SequenceFacts

USE DEF Null

-----------------------------------------------------------------------------
(* What the assumptions and TypeOK give, ready to cite.                    *)

LEMMA Constants ==
  /\ MaxCols \in Nat /\ MaxRows \in Nat
  /\ Value \subseteq Nat /\ Blank \in Value /\ Default \subseteq Value
  /\ Source \subseteq Nat
BY ConstAssumption DEF ConstAssumption

LEMMA SchemaFacts ==
  ASSUME TypeOK
  PROVE  /\ column \in Seq(Column) /\ Len(column) \in Nat /\ Len(column) <= MaxCols
         /\ colDes \in Seq(1..Len(column)) /\ Len(colDes) \in Nat
         /\ DOMAIN colDes = 1..Len(colDes)
         /\ updCol \in 1..Len(column) \cup {Null}
         /\ dropping \in 1..Len(colDes) \cup {0}
         /\ InTable \subseteq 1..Len(column)
BY DEF TypeOK, SchemaType, CtlType, Columns, InTable, Range

LEMMA StoreFacts ==
  ASSUME TypeOK
  PROVE  /\ heap \in Seq(RowType) /\ Len(heap) \in Nat /\ RowIds = 1..Len(heap)
         /\ rows \in Seq(RowIds \cup {Null}) /\ Len(rows) \in Nat
         /\ DOMAIN rows = 1..Len(rows)
         /\ \A r \in RowIds : heap[r] \in RowType
         /\ freed \subseteq RowIds /\ covered \subseteq RowIds /\ Live \subseteq RowIds
         /\ stamp \in [Source -> Nat]
         /\ at \in Nat /\ pos \in Nat
<1>1. /\ heap \in Seq(RowType) /\ rows \in Seq(RowIds \cup {Null})
      /\ freed \subseteq RowIds /\ covered \subseteq RowIds /\ stamp \in [Source -> Nat]
      /\ at \in Nat /\ pos \in Nat
  BY DEF TypeOK, StoreType, CtlType
<1>2. Live \subseteq RowIds
  BY <1>1 DEF Live, Range
<1> QED
  BY <1>1, <1>2 DEF RowIds

LEMMA IndexsFacts ==
  ASSUME TypeOK
  PROVE  /\ indexs \in Seq(IndexType(Len(column), Len(heap))) /\ Len(indexs) \in Nat
         /\ DOMAIN indexs = 1..Len(indexs)
         /\ \A k \in 1..Len(indexs) : indexs[k] \in IndexType(Len(column), Len(heap))
BY DEF TypeOK, IndexsType

LEMMA IndexFacts ==
  ASSUME NEW n, NEW m, NEW ix \in IndexType(n, m)
  PROVE  ix.cols \in SUBSET (1..n) /\ ix.hash \in [Hash -> 1..m \cup {Null}]
BY DEF IndexType

LEMMA IndexTypeMonotonic ==
  ASSUME NEW n \in Nat, NEW m \in Nat, NEW n2 \in Nat, NEW m2 \in Nat, n <= n2, m <= m2
  PROVE  IndexType(n, m) \subseteq IndexType(n2, m2)
<1>1. 1..n \subseteq 1..n2 /\ 1..m \subseteq 1..m2
  OBVIOUS
<1> QED
  BY <1>1 DEF IndexType

LEMMA TempIndexType ==
  ASSUME NEW n \in Nat, NEW m \in Nat, NEW cd \in Seq(1..n), NEW upd
  PROVE  TempIndex(cd, upd) \in IndexType(n, m)
BY DEF TempIndex, Range, EmptyHash, IndexType

LEMMA NamedIndexType ==
  ASSUME NEW n \in Nat, NEW m \in Nat, NEW nm \in KeyName \cup {""}, NEW p \in BOOLEAN,
         NEW C \in SUBSET (1..n)
  PROVE  Index(nm, p, C) \in IndexType(n, m)
BY DEF Index, EmptyHash, IndexType

LEMMA ReKeyedType ==
  ASSUME NEW n \in Nat, NEW m \in Nat, NEW ix \in IndexType(n, m), NEW C \in SUBSET (1..n)
  PROVE  ReKeyed(ix, C) \in IndexType(n, m)
BY DEF ReKeyed, EmptyHash, IndexType

LEMMA RowAtType ==
  ASSUME NEW row \in RowType, NEW i \in Nat
  PROVE  [row EXCEPT !.idx = i] \in RowType
BY DEF RowType

LEMMA TakeSlotType ==
  ASSUME NEW row \in RowType, NEW old, heap[old] \in RowType
  PROVE  TakeSlot(row, old) \in RowType
BY DEF RowType, TakeSlot

LEMMA GrownRowType ==
  ASSUME NEW row \in RowType, NEW v \in Value
  PROVE  [row EXCEPT !.data = Append(@, v)] \in RowType
<1>1. Append(row.data, v) \in Seq(Value)
  BY AppendProperties DEF RowType
<1> QED
  BY <1>1 DEF RowType

LEMMA KeyOfType ==
  ASSUME NEW row, row.data \in Seq(Value), Len(row.data) <= MaxCols,
         NEW C \in SUBSET (1..Len(row.data))
  PROVE  KeyOf(row, C) \in Hash
<1>1. [c \in C |-> row.data[c]] \in [C -> Value]
  OBVIOUS
<1>2. C \in SUBSET (1..MaxCols)
  <2>1. Len(row.data) \in Nat
    OBVIOUS
  <2> QED
    BY <2>1, Constants
<1> QED
  BY <1>1, <1>2, HashAssumption DEF HashAssumption, KeyOf

LEMMA NewRowType ==
  ASSUME TypeOK, NEW s \in Source, NEW vals \in [InTable -> Value]
  PROVE  NewRow(s, vals) \in RowType /\ Len(NewRow(s, vals).data) = Len(column)
<1>1. Padded(vals) \in [1..Len(column) -> Value]
  BY Constants DEF Padded, Columns
<1>2. Padded(vals) \in Seq(Value) /\ Len(Padded(vals)) = Len(column)
  BY <1>1, SchemaFacts, FunctionIsSeq
<1>3. stamp[s] \in Nat
  BY StoreFacts
<1> QED
  BY <1>2, <1>3 DEF NewRow, RowType

LEMMA HolderType ==
  ASSUME TypeOK, NEW k \in 1..Len(indexs), NEW row \in RowType, Len(row.data) = Len(column)
  PROVE  /\ KeyOf(row, indexs[k].cols) \in Hash
         /\ Holder(k, row) \in RowIds \cup {Null}
<1>1. /\ indexs[k].cols \in SUBSET (1..Len(column))
      /\ indexs[k].hash \in [Hash -> RowIds \cup {Null}]
  BY IndexsFacts, StoreFacts, IndexFacts
<1>2. KeyOf(row, indexs[k].cols) \in Hash
  BY <1>1, SchemaFacts, KeyOfType DEF RowType
<1> QED
  BY <1>1, <1>2 DEF Holder

LEMMA HashedType ==
  ASSUME TypeOK, NEW k \in 1..Len(indexs), NEW row \in RowType, Len(row.data) = Len(column),
         NEW m \in Nat, Len(heap) <= m, NEW r \in 1..m
  PROVE  Hashed(k, row, r) \in Seq(IndexType(Len(column), m))
<1> DEFINE T == IndexType(Len(column), m)
           b == KeyOf(row, indexs[k].cols)
<1>1. indexs \in Seq(T) /\ indexs[k] \in T
  BY SchemaFacts, StoreFacts, IndexsFacts, IndexTypeMonotonic, SeqMonotonic
<1>2. [indexs[k] EXCEPT !.hash[b] = r] \in T
  BY <1>1 DEF IndexType
<1>3. Hashed(k, row, r) = [indexs EXCEPT ![k] = [indexs[k] EXCEPT !.hash[b] = r]]
  BY IndexsFacts DEF Hashed
<1> HIDE DEF T
<1>4. Hashed(k, row, r) \in Seq(T)
  BY <1>1, <1>2, <1>3, ExceptSeq
<1> QED
  BY <1>4 DEF T

-----------------------------------------------------------------------------
(* Type correctness: the initial state and each action.                    *)

LEMMA InitType == Init => TypeOK
<1> SUFFICES ASSUME Init PROVE TypeOK
  OBVIOUS
<1>1. /\ column \in Seq(Column) /\ colDes \in Seq(Columns) /\ heap \in Seq(RowType)
      /\ rows \in Seq(RowIds \cup {Null}) /\ IndexsType /\ Len(column) = 0
  BY EmptySeq DEF Init, IndexsType
<1>2. stamp \in [Source -> Nat]
  BY DEF Init
<1>3. Len(column) <= MaxCols
  BY <1>1, Constants
<1> QED
  BY <1>1, <1>2, <1>3 DEF Init, TypeOK, SchemaType, StoreType, CtlType

(* Fail leaves everything but pc.                                          *)
LEMMA FailType == TypeOK /\ Fail => TypeOK'
BY DEF TypeOK, SchemaType, StoreType, IndexsType, CtlType, Fail, schema, store, Columns, RowIds

(* A step that leaves the store.                                           *)
LEMMA StoreKeptType ==
  ASSUME TypeOK, UNCHANGED <<store, stamp>>, covered' = covered \/ covered' = Live
  PROVE  StoreType'
BY StoreFacts DEF StoreType, store, RowIds

LEMMA SchemaKeptType ==
  ASSUME TypeOK, UNCHANGED schema
  PROVE  SchemaType'
BY DEF TypeOK, SchemaType, schema, Columns

(* Building an index over n columns leaves the table with that index only. *)
LEMMA OneIndexType ==
  ASSUME NEW n \in Nat, NEW m \in Nat, NEW ix \in IndexType(n, m),
         indexs' = <<ix>>, Len(column)' = n, Len(heap)' = m
  PROVE  IndexsType'
BY SingletonSeq DEF IndexsType

LEMMA CreateTableType ==
  ASSUME TypeOK, NEW s, WellFormed(s), CreateTable(s)
  PROVE  TypeOK'
<1> DEFINE n == Len(s.cols)
           all == [i \in DOMAIN s.cols |-> i]
           upd == UpdColOf(s.cols)
<1>1. /\ s.cols \in Seq(Column) /\ n \in Nat /\ n <= MaxCols /\ DOMAIN s.cols = 1..n
      /\ s.keys \in Seq(KeyClause(n)) /\ Len(s.keys) \in Nat
      /\ DOMAIN s.keys = 1..Len(s.keys)
  BY DEF WellFormed
<1>2. all \in Seq(1..n)
  BY <1>1, FunctionIsSeq
<1>3. upd \in 1..n \cup {Null}
  BY <1>1 DEF UpdColOf
<1>4. CASE Fail
  BY <1>4, FailType
<1>5. CASE ~Fail
  <2> HIDE DEF n, all, upd
  <2>1. /\ column' = s.cols /\ colDes' = all /\ updCol' = upd
        /\ indexs' = IF s.keys = <<>>
                     THEN << TempIndex(all, upd) >>
                     ELSE [k \in DOMAIN s.keys |->
                            Index(s.keys[k].name, s.keys[k].isPrimary, s.keys[k].cols)]
        /\ Return
        /\ UNCHANGED <<store, stamp>>
        /\ pc = "new"
    BY <1>5 DEF CreateTable, all, upd
  <2>2. SchemaType'
    BY <1>1, <1>2, <1>3, <2>1 DEF SchemaType, Columns, n
  <2>3. StoreType'
    BY <2>1, StoreKeptType DEF Return
  <2>4. IndexsType'
    <3>1. Len(column') = n /\ Len(heap') = Len(heap) /\ Len(heap) \in Nat
      BY <2>1, StoreFacts DEF store, n
    <3>2. CASE s.keys = <<>>
      BY <1>1, <1>2, <2>1, <3>1, <3>2, TempIndexType, OneIndexType
    <3>3. CASE s.keys # <<>>
      <4>1. ASSUME NEW k \in DOMAIN s.keys
            PROVE  Index(s.keys[k].name, s.keys[k].isPrimary, s.keys[k].cols)
                     \in IndexType(n, Len(heap))
        <5>1. s.keys[k] \in KeyClause(n)
          BY <1>1
        <5> QED
          BY <1>1, <3>1, <5>1, NamedIndexType DEF KeyClause
      <4>2. indexs' \in [1..Len(s.keys) -> IndexType(n, Len(heap))]
        BY <1>1, <2>1, <3>3, <4>1
      <4> QED
        BY <1>1, <3>1, <4>2, FunctionIsSeq DEF IndexsType
    <3> QED
      BY <3>2, <3>3
  <2>5. CtlType'
    <3>1. indexs' # <<>>
      <4>1. CASE s.keys = <<>>
        BY <2>1, <4>1
      <4>2. CASE s.keys # <<>>
        <5>1. 1 \in DOMAIN s.keys
          BY <1>1, <4>2, EmptySeq
        <5> QED
          BY <2>1, <4>2, <5>1
      <4> QED
        BY <4>1, <4>2
    <3>2. at' = 0 /\ dropping' = 0 /\ pc' = "call" /\ pos' = pos /\ pos \in Nat
      BY <2>1 DEF Return, TypeOK, CtlType
    <3> QED
      BY <3>1, <3>2 DEF CtlType
  <2> QED
    BY <2>2, <2>3, <2>4, <2>5 DEF TypeOK
<1> QED
  BY <1>4, <1>5

(* Entering reCompute of the only index.                                   *)
LEMMA ScanCtlType ==
  ASSUME TypeOK, Scan(1), UNCHANGED rows, NEW ix, indexs' = <<ix>>,
         dropping' = 0 \/ (UNCHANGED <<colDes, dropping>>)
  PROVE  CtlType'
<1>1. 1 \in DOMAIN indexs'
  BY DEF Scan
<1>2. dropping' \in DOMAIN colDes' \cup {0}
  BY SchemaFacts
<1> QED
  BY <1>1, <1>2, StoreFacts DEF CtlType, Scan

LEMMA AddColumnType ==
  ASSUME TypeOK, NEW c \in Column, NEW after \in DOMAIN colDes, AddColumn(c, after)
  PROVE  TypeOK'
<1> DEFINE new   == Len(column) + 1
           order == InsertAt(colDes, after + 1, new)
           upd   == IF c.name = UpdName THEN new ELSE updCol
<1>1. /\ Len(column) < MaxCols /\ pc = "call"
      /\ new \in Nat /\ new <= MaxCols
  BY SchemaFacts, Constants DEF AddColumn
<1>2. order \in Seq(1..new) /\ Len(order) = Len(colDes) + 1
  <2>1. 1..Len(column) \subseteq 1..new /\ after + 1 \in 1..(Len(colDes) + 1) /\ new \in 1..new
    BY <1>1, SchemaFacts
  <2>2. colDes \in Seq(1..new)
    BY <2>1, SchemaFacts, SeqMonotonic
  <2> DEFINE i == after + 1
             S == 1..new
  <2>3. colDes \in Seq(S) /\ i \in 1..(Len(colDes) + 1) /\ new \in S
    BY <2>1, <2>2
  <2> HIDE DEF new, i, S
  <2>4. InsertAt(colDes, i, new) \in Seq(S) /\ Len(InsertAt(colDes, i, new)) = Len(colDes) + 1
    BY <2>3, InsertAtFacts
  <2> QED
    BY <2>4 DEF i, S
<1>3. upd \in 1..new \cup {Null}
  BY <1>1, SchemaFacts
<1>4. CASE Fail
  BY <1>4, FailType
<1>5. CASE ~Fail
  <2> HIDE DEF new, order, upd
  <2>1. /\ column' = Append(column, c) /\ colDes' = order /\ updCol' = upd
        /\ heap' = [r \in RowIds |->
                      IF r \in Live
                      THEN [heap[r] EXCEPT !.data =
                             Append(@, IF c.def = -1 THEN Blank ELSE c.def)]
                      ELSE heap[r]]
        /\ \/ indexs' = << TempIndex(order, upd) >> /\ Scan(1) /\ UNCHANGED dropping
           \/ covered' \in {covered, Live} /\ UNCHANGED <<indexs, ctl>>
        /\ UNCHANGED <<freed, rows, stamp>>
    BY <1>5 DEF AddColumn, new, order, upd
  <2>2. Len(column') = new /\ column' \in Seq(Column)
    BY <2>1, SchemaFacts, AppendProperties DEF new
  <2>3. SchemaType'
    BY <1>1, <1>2, <1>3, <2>1, <2>2 DEF SchemaType, Columns
  <2>4. heap' \in Seq(RowType) /\ Len(heap') = Len(heap)
    <3>1. ASSUME NEW r \in RowIds
          PROVE  heap'[r] \in RowType
      <4>1. heap[r] \in RowType
        BY StoreFacts
      <4>2. (IF c.def = -1 THEN Blank ELSE c.def) \in Value
        BY Constants DEF Column
      <4> QED
        BY <2>1, <4>1, <4>2, GrownRowType
    <3>2. heap' \in [1..Len(heap) -> RowType]
      BY <2>1, <3>1, StoreFacts
    <3> QED
      BY <3>2, StoreFacts, FunctionIsSeq
  <2>5. StoreType'
    BY <2>1, <2>4, StoreFacts DEF StoreType, RowIds, Scan
  <2>6. IndexsType'
    <3>1. CASE indexs' = << TempIndex(order, upd) >>
      BY <1>1, <1>2, <2>2, <2>4, <3>1, StoreFacts, TempIndexType, OneIndexType
    <3>2. CASE indexs' = indexs
      <4>1. IndexType(Len(column), Len(heap)) \subseteq IndexType(new, Len(heap))
        BY <1>1, SchemaFacts, StoreFacts, IndexTypeMonotonic DEF new
      <4> QED
        BY <2>2, <2>4, <3>2, <4>1, IndexsFacts, SeqMonotonic DEF IndexsType
    <3> QED
      BY <2>1, <3>1, <3>2
  <2>7. CtlType'
    <3>1. at = 0 /\ dropping = 0 /\ indexs # <<>>
      BY <1>1 DEF TypeOK, CtlType
    <3>2. CASE indexs' = << TempIndex(order, upd) >> /\ Scan(1) /\ UNCHANGED dropping
      BY <2>1, <3>1, <3>2, ScanCtlType
    <3>3. CASE UNCHANGED <<indexs, ctl>>
      BY <1>1, <3>1, <3>3, StoreFacts DEF CtlType, ctl
    <3> QED
      BY <2>1, <3>2, <3>3
  <2> QED
    BY <2>3, <2>5, <2>6, <2>7 DEF TypeOK
<1> QED
  BY <1>4, <1>5

LEMMA ChangeColumnType ==
  ASSUME TypeOK, NEW c \in Column, NEW i \in DOMAIN colDes, ChangeColumn(i, c)
  PROVE  TypeOK'
<1>1. /\ column' = [column EXCEPT ![colDes[i]] = c]
      /\ UNCHANGED <<colDes, updCol, store, indexs, stamp, ctl, covered>>
  BY DEF ChangeColumn
<1>2. colDes[i] \in 1..Len(column)
  BY SchemaFacts
<1>3. column' \in Seq(Column) /\ Len(column') = Len(column)
  BY <1>1, <1>2, SchemaFacts, ExceptSeq
<1>4. SchemaType'
  BY <1>1, <1>3, SchemaFacts DEF SchemaType, Columns
<1>5. StoreType'
  BY <1>1, StoreKeptType
<1>6. IndexsType'
  BY <1>1, <1>3, IndexsFacts DEF IndexsType, store
<1>7. CtlType'
  BY <1>1 DEF TypeOK, CtlType, ctl, store
<1> QED
  BY <1>4, <1>5, <1>6, <1>7 DEF TypeOK

(* A step that only builds a new single index and enters reCompute.        *)
LEMMA RebuiltType ==
  ASSUME TypeOK, NEW ix \in IndexType(Len(column), Len(heap)), indexs' = <<ix>>, Scan(1),
         UNCHANGED <<schema, store, stamp, dropping>>
  PROVE  TypeOK'
<1>1. IndexsType'
  BY SchemaFacts, StoreFacts, OneIndexType DEF schema, store
<1>2. CtlType'
  BY ScanCtlType DEF schema, store
<1> QED
  BY <1>1, <1>2, SchemaKeptType, StoreKeptType DEF TypeOK, Scan

LEMMA AddUniqueIndexType ==
  ASSUME TypeOK, NEW key \in AddedKey, AddUniqueIndex(key)
  PROVE  TypeOK'
<1> DEFINE C == {c \in InTable : column[c].name \in key.names}
           ix == Index(key.name, key.isPrimary, C)
<1>1. CASE Fail
  BY <1>1, FailType
<1>2. CASE ~Fail
  <2>1. indexs' = <<ix>> /\ Scan(1) /\ UNCHANGED <<schema, store, stamp, dropping>>
    BY <1>2 DEF AddUniqueIndex
  <2>2. key.name \in KeyName \cup {""} /\ key.isPrimary \in BOOLEAN
    BY DEF AddedKey
  <2>3. ix \in IndexType(Len(column), Len(heap))
    BY <2>2, SchemaFacts, StoreFacts, NamedIndexType
  <2> HIDE DEF ix
  <2> QED
    BY <2>1, <2>3, RebuiltType
<1> QED
  BY <1>1, <1>2

LEMMA DropUniqueIndexType ==
  ASSUME TypeOK, NEW p, NEW nm, DropUniqueIndex(p, nm)
  PROVE  TypeOK'
<1>1. PICK k \in DOMAIN indexs :
        \/ /\ Len(indexs) > 1
           /\ indexs' = RemoveAt(indexs, k)
           /\ UNCHANGED <<schema, store, stamp, ctl, covered>>
        \/ /\ indexs' = << TempIndex(colDes, updCol) >>
           /\ Scan(1)
           /\ UNCHANGED <<schema, store, stamp, dropping>>
        \/ Fail
  BY DEF DropUniqueIndex
<1>2. CASE /\ Len(indexs) > 1
           /\ indexs' = RemoveAt(indexs, k)
           /\ UNCHANGED <<schema, store, stamp, ctl, covered>>
  <2> DEFINE T == IndexType(Len(column), Len(heap))
  <2>1. indexs \in Seq(T) /\ k \in 1..Len(indexs) /\ Len(indexs) \in Nat
    BY IndexsFacts
  <2> HIDE DEF T
  <2>2. indexs' \in Seq(T) /\ Len(indexs') = Len(indexs) - 1
    BY <1>2, <2>1, RemoveAtFacts
  <2>3. IndexsType'
    BY <1>2, <2>2 DEF IndexsType, T, schema, store
  <2>4. CtlType'
    BY <1>2, <2>1, <2>2, EmptySeq DEF TypeOK, CtlType, DropUniqueIndex, ctl, schema, store
  <2> QED
    BY <1>2, <2>3, <2>4, SchemaKeptType, StoreKeptType DEF TypeOK
<1>3. CASE /\ indexs' = << TempIndex(colDes, updCol) >>
           /\ Scan(1)
           /\ UNCHANGED <<schema, store, stamp, dropping>>
  BY <1>3, SchemaFacts, StoreFacts, TempIndexType, RebuiltType
<1>4. CASE Fail
  BY <1>4, FailType
<1> QED
  BY <1>1, <1>2, <1>3, <1>4

LEMMA DropColumnType ==
  ASSUME TypeOK, NEW i \in DOMAIN colDes, DropColumn(i)
  PROVE  TypeOK'
<1>1. IndexsType'
  BY DEF DropColumn, IndexsType, TypeOK, schema, store
<1>2. CtlType'
  BY SchemaFacts, IndexsFacts, StoreFacts DEF DropColumn, CtlType, TypeOK, schema, store
<1>3. UNCHANGED <<schema, store, stamp, covered>>
  BY DEF DropColumn
<1> QED
  BY <1>1, <1>2, <1>3, SchemaKeptType, StoreKeptType DEF TypeOK

(* Sweep keeps the type of the indexes and leaves pos on one or past them. *)
LEMMA SweepType ==
  ASSUME TypeOK, pos \in 1..Len(indexs), Sweep, UNCHANGED <<schema, store>>
  PROVE  IndexsType' /\ pos' \in 1..(Len(indexs') + 1)
<1> DEFINE T == IndexType(Len(column), Len(heap))
<1>1. indexs \in Seq(T) /\ Len(indexs) \in Nat
  BY IndexsFacts
<1> HIDE DEF T
<1>2. indexs' \in Seq(T) /\ pos' \in 1..(Len(indexs') + 1)
  <2>1. CASE indexs[pos].cols = {}
    <3>1. indexs' = RemoveAt(indexs, pos) /\ pos' = pos
      BY <2>1 DEF Sweep
    <3>2. indexs' \in Seq(T) /\ Len(indexs') = Len(indexs) - 1
      BY <1>1, <3>1, RemoveAtFacts
    <3> QED
      BY <1>1, <3>1, <3>2
  <2>2. CASE indexs[pos].cols # {}
    BY <1>1, <2>2 DEF Sweep
  <2> QED
    BY <2>1, <2>2
<1> QED
  BY <1>2 DEF IndexsType, T, schema, store

LEMMA DropFromIndexType ==
  ASSUME TypeOK, DropFromIndex
  PROVE  TypeOK'
<1> DEFINE c  == colDes[dropping]
           ix == ReKeyed(indexs[pos], indexs[pos].cols \ {c})
<1>1. pos \in 1..Len(indexs) /\ pc = "drop" /\ dropping # 0 /\ at = 0
  BY IndexsFacts DEF DropFromIndex, TypeOK, CtlType
<1>2. CASE c \in indexs[pos].cols
  <2>1. /\ indexs' = [indexs EXCEPT ![pos] = ix]
        /\ Scan(pos)
        /\ UNCHANGED <<schema, store, stamp, dropping>>
    BY <1>2, IndexsFacts DEF DropFromIndex
  <2>2. ix \in IndexType(Len(column), Len(heap))
    BY <1>1, SchemaFacts, StoreFacts, IndexsFacts, IndexFacts, ReKeyedType
  <2> HIDE DEF ix
  <2>3. indexs' \in Seq(IndexType(Len(column), Len(heap))) /\ Len(indexs') = Len(indexs)
    BY <1>1, <2>1, <2>2, IndexsFacts, ExceptSeq
  <2>4. CtlType'
    BY <1>1, <2>1, <2>3, SchemaFacts, StoreFacts DEF CtlType, Scan, schema, store
  <2> QED
    BY <2>1, <2>3, <2>4, SchemaKeptType, StoreKeptType DEF TypeOK, IndexsType, Scan, schema, store
<1>3. CASE c \notin indexs[pos].cols
  <2>1. Sweep /\ UNCHANGED <<schema, store, stamp, pc, at, dropping, covered>>
    BY <1>3 DEF DropFromIndex
  <2>2. IndexsType' /\ pos' \in 1..(Len(indexs') + 1)
    BY <1>1, <2>1, SweepType
  <2>3. CtlType'
    BY <1>1, <2>1, <2>2, SchemaFacts, StoreFacts DEF CtlType, schema
  <2> QED
    BY <2>1, <2>2, <2>3, SchemaKeptType, StoreKeptType DEF TypeOK
<1> QED
  BY <1>2, <1>3

LEMMA DropFinishType ==
  ASSUME TypeOK, DropFinish
  PROVE  TypeOK'
<1> DEFINE order == RemoveAt(colDes, dropping)
<1>1. dropping \in 1..Len(colDes) /\ at = 0
  BY SchemaFacts DEF DropFinish, TypeOK, CtlType
<1>2. order \in Seq(1..Len(column))
  <2> DEFINE S == 1..Len(column)
  <2>1. colDes \in Seq(S)
    BY SchemaFacts
  <2> HIDE DEF S
  <2>2. order \in Seq(S)
    BY <1>1, <2>1, RemoveAtFacts
  <2> QED
    BY <2>2 DEF S
<1> HIDE DEF order
<1>3. CASE Fail
  BY <1>3, FailType
<1>4. CASE ~Fail
  <2>1. /\ colDes' = order /\ dropping' = 0
        /\ UNCHANGED <<column, updCol, store, stamp>>
        /\ \/ /\ indexs # <<>> /\ pc' = "call"
              /\ UNCHANGED <<indexs, at, pos, covered>>
           \/ indexs' = << TempIndex(order, updCol) >> /\ Scan(1)
    BY <1>4 DEF DropFinish, order
  <2>2. SchemaType'
    BY <1>2, <2>1, SchemaFacts DEF SchemaType, Columns
  <2>3. StoreType'
    BY <2>1, StoreKeptType DEF Scan
  <2>4. CASE /\ indexs # <<>> /\ pc' = "call"
             /\ UNCHANGED <<indexs, at, pos, covered>>
    <3>1. IndexsType'
      BY <2>1, <2>4 DEF TypeOK, IndexsType, store
    <3>2. CtlType'
      BY <1>1, <2>1, <2>4, StoreFacts DEF CtlType
    <3> QED
      BY <2>2, <2>3, <3>1, <3>2 DEF TypeOK
  <2>5. CASE indexs' = << TempIndex(order, updCol) >> /\ Scan(1)
    <3>1. IndexsType'
      BY <1>2, <2>1, <2>5, SchemaFacts, StoreFacts, TempIndexType, OneIndexType DEF store
    <3>2. CtlType'
      BY <2>1, <2>5, ScanCtlType DEF store
    <3> QED
      BY <2>2, <2>3, <3>1, <3>2 DEF TypeOK
  <2> QED
    BY <2>1, <2>4, <2>5
<1> QED
  BY <1>3, <1>4

LEMMA ScanDoneType ==
  ASSUME TypeOK, ScanDone
  PROVE  TypeOK'
<1>1. /\ pc = "scan" /\ at' = 0
      /\ UNCHANGED <<schema, store, stamp, dropping, covered>>
  BY DEF ScanDone
<1>2. pos \in 1..Len(indexs) /\ indexs # <<>>
  BY <1>1, IndexsFacts DEF TypeOK, CtlType
<1>3. CASE dropping = 0 /\ pc' = "call" /\ UNCHANGED <<indexs, pos>>
  <2>1. IndexsType'
    BY <1>1, <1>3 DEF TypeOK, IndexsType, schema, store
  <2>2. CtlType'
    BY <1>1, <1>2, <1>3, StoreFacts DEF CtlType, schema, store
  <2> QED
    BY <1>1, <2>1, <2>2, SchemaKeptType, StoreKeptType DEF TypeOK
<1>4. CASE dropping # 0 /\ pc' = "drop" /\ Sweep
  <2>1. IndexsType' /\ pos' \in 1..(Len(indexs') + 1)
    BY <1>1, <1>2, <1>4, SweepType
  <2>2. CtlType'
    BY <1>1, <1>4, <2>1, SchemaFacts DEF CtlType, schema
  <2> QED
    BY <1>1, <2>1, <2>2, SchemaKeptType, StoreKeptType DEF TypeOK
<1> QED
  BY <1>3, <1>4 DEF ScanDone

(* A sequence of row identifiers stays one when slots are overwritten.     *)
LEMMA SlotsType ==
  ASSUME NEW S, NEW slots \in Seq(S), NEW i, NEW x \in S
  PROVE  [slots EXCEPT ![i] = x] \in Seq(S) /\ Len([slots EXCEPT ![i] = x]) = Len(slots)
<1>0. slots \in [1..Len(slots) -> S]
  BY LenProperties
<1>1. [slots EXCEPT ![i] = x] \in [1..Len(slots) -> S]
  BY <1>0
<1>2. Len(slots) \in Nat
  OBVIOUS
<1> QED
  BY <1>1, <1>2, FunctionIsSeq

LEMMA ScanRowType ==
  ASSUME TypeOK, ScanRow, \A r \in Live : Len(heap[r].data) = Len(column)
  PROVE  TypeOK'
<1> DEFINE r   == rows[at]
           old == Holder(pos, heap[r])
<1>1. /\ pc = "scan" /\ at \in 1..Len(rows) /\ pos \in 1..Len(indexs)
      /\ r \in RowIds \cup {Null} /\ (r # Null => r \in Live)
  BY StoreFacts, IndexsFacts DEF ScanRow, TypeOK, CtlType, Live, Range
<1>2. CASE Fail
  BY <1>2, FailType
<1>3. CASE ~Fail
  <2>1. /\ ScanEmpty \/ (r # Null /\ (ScanFirst(r) \/ ScanNewer(r) \/ ScanStale(r)))
        /\ at' = at + 1
        /\ UNCHANGED <<schema, stamp, pc, pos, dropping, covered>>
    BY <1>3 DEF ScanRow
  <2> HIDE DEF r
  <2>2. r # Null => /\ heap[r] \in RowType /\ Len(heap[r].data) = Len(column)
                    /\ old \in RowIds \cup {Null}
    BY <1>1, StoreFacts, HolderType
  <2> HIDE DEF old
  <2>3. heap' \in Seq(RowType) /\ Len(heap') = Len(heap)
    <3>1. CASE UNCHANGED heap
      BY <3>1, StoreFacts
    <3>2. CASE r # Null /\ ScanNewer(r)
      <4>1. TakeSlot(heap[r], old) \in RowType /\ r \in 1..Len(heap)
        BY <1>1, <2>2, <3>2, StoreFacts, TakeSlotType DEF ScanNewer, old
      <4>2. heap' = [heap EXCEPT ![r] = TakeSlot(heap[r], old)]
        BY <3>2, <4>1, StoreFacts DEF ScanNewer, old
      <4> QED
        BY <4>1, <4>2, StoreFacts, ExceptSeq
    <3> QED
      BY <2>1, <3>1, <3>2 DEF ScanEmpty, ScanFirst, ScanStale, store
  <2>4. rows' \in Seq(RowIds \cup {Null}) /\ Len(rows') = Len(rows)
    <3>1. CASE UNCHANGED rows
      BY <3>1, StoreFacts
    <3>2. CASE r # Null /\ ScanNewer(r)
      <4>1. PICK i : rows' = [[rows EXCEPT ![i] = r] EXCEPT ![at] = Null]
        BY <3>2, StoreFacts DEF ScanNewer
      <4>2. [rows EXCEPT ![i] = r] \in Seq(RowIds \cup {Null})
            /\ Len([rows EXCEPT ![i] = r]) = Len(rows)
        BY <1>1, StoreFacts, SlotsType
      <4> QED
        BY <4>1, <4>2, SlotsType
    <3>3. CASE r # Null /\ ScanStale(r)
      <4>1. rows' = [rows EXCEPT ![at] = Null] /\ rows \in Seq(RowIds \cup {Null})
        BY <3>3, StoreFacts DEF ScanStale
      <4> QED
        BY <4>1, SlotsType
    <3> QED
      BY <2>1, <3>1, <3>2, <3>3 DEF ScanEmpty, ScanFirst, store
  <2>5. freed' \subseteq RowIds
    BY <2>1, <2>2, StoreFacts DEF ScanEmpty, ScanFirst, ScanNewer, ScanStale, store, old
  <2>6. indexs' \in Seq(IndexType(Len(column), Len(heap))) /\ pos \in DOMAIN indexs'
    <3>1. CASE UNCHANGED indexs
      BY <1>1, <3>1, IndexsFacts
    <3>2. CASE r # Null /\ indexs' = Hashed(pos, heap[r], r)
      <4>1. r \in 1..Len(heap)
        BY <1>1, <3>2, StoreFacts
      <4>2. Hashed(pos, heap[r], r) \in Seq(IndexType(Len(column), Len(heap)))
        BY <1>1, <2>2, <3>2, <4>1, StoreFacts, HashedType
      <4>3. DOMAIN indexs' = DOMAIN indexs
        BY <3>2 DEF Hashed
      <4> QED
        BY <1>1, <3>2, <4>2, <4>3, IndexsFacts
    <3> QED
      BY <2>1, <3>1, <3>2 DEF ScanEmpty, ScanFirst, ScanNewer, ScanStale
  <2>7. SchemaType'
    BY <2>1, SchemaKeptType
  <2>8. StoreType'
    BY <2>1, <2>3, <2>4, <2>5, StoreFacts DEF StoreType, RowIds
  <2>9. IndexsType'
    BY <2>1, <2>3, <2>6 DEF IndexsType, schema
  <2>10. CtlType'
    BY <1>1, <2>1, <2>4, <2>6, SchemaFacts, StoreFacts DEF CtlType, schema
  <2> QED
    BY <2>7, <2>8, <2>9, <2>10 DEF TypeOK
<1> QED
  BY <1>2, <1>3

LEMMA InsertRowType ==
  ASSUME TypeOK, NEW s \in Source, NEW vals \in [InTable -> Value], InsertRow(s, vals)
  PROVE  TypeOK'
<1> DEFINE row == NewRow(s, vals)
           old == Holder(1, row)
<1>1. row \in RowType /\ Len(row.data) = Len(column)
  BY NewRowType
<1>2. /\ 1 \in 1..Len(indexs) /\ NewId = Len(heap) + 1 /\ NewId \in Nat
      /\ RowIds \subseteq 1..NewId /\ NewId \in 1..NewId
      /\ pc = "call"
  BY StoreFacts DEF InsertRow, OneIndex, NewId
<1>3. CASE Fail
  BY <1>3, FailType
<1>4. CASE ~Fail
  <2>1. /\ InsertFirst(row) \/ InsertNewer(row) \/ InsertStale(row)
        /\ stamp' = [stamp EXCEPT ![s] = @ + 1]
        /\ covered' = covered \cup {NewId}
        /\ UNCHANGED <<schema, ctl>>
    BY <1>4 DEF InsertRow
  <2> HIDE DEF row
  <2>2. old \in RowIds \cup {Null}
    BY <1>1, <1>2, HolderType
  <2> HIDE DEF old
  <2>3. heap' \in Seq(RowType) /\ Len(heap') = NewId
    <3>1. \E x \in RowType : heap' = Append(heap, x)
      <4>1. CASE InsertFirst(row)
        <5>1. Len(rows) + 1 \in Nat
          BY StoreFacts
        <5>2. [row EXCEPT !.idx = Len(rows) + 1] \in RowType
          BY <1>1, <5>1, RowAtType
        <5> QED
          BY <4>1, <5>2 DEF InsertFirst
      <4>2. CASE InsertNewer(row)
        <5>1. heap[old] \in RowType
          BY <2>2, <4>2, StoreFacts DEF InsertNewer, old
        <5>2. TakeSlot(row, old) \in RowType
          BY <1>1, <5>1, TakeSlotType
        <5> QED
          BY <4>2, <5>2 DEF InsertNewer, old
      <4>3. CASE InsertStale(row)
        BY <4>3, <1>1 DEF InsertStale
      <4> QED
        BY <2>1, <4>1, <4>2, <4>3
    <3> QED
      BY <3>1, <1>2, StoreFacts, AppendProperties
  <2>4. rows' \in Seq(1..NewId \cup {Null})
    <3>1. rows \in Seq(1..NewId \cup {Null})
      BY <1>2, StoreFacts, SeqMonotonic
    <3>2. CASE rows' = rows
      BY <3>1, <3>2
    <3>3. CASE rows' = Append(rows, NewId)
      BY <3>1, <3>3, <1>2, AppendProperties
    <3>4. CASE \E i : rows' = [rows EXCEPT ![i] = NewId]
      BY <3>1, <3>4, <1>2, SlotsType
    <3> QED
      BY <2>1, <3>2, <3>3, <3>4 DEF InsertFirst, InsertNewer, InsertStale
  <2>5. indexs' \in Seq(IndexType(Len(column), NewId))
    <3>1. CASE indexs' = indexs
      <4>1. IndexType(Len(column), Len(heap)) \subseteq IndexType(Len(column), NewId)
        BY <1>2, SchemaFacts, StoreFacts, IndexTypeMonotonic
      <4> QED
        BY <3>1, <4>1, IndexsFacts, SeqMonotonic
    <3>2. CASE indexs' = Hashed(1, row, NewId)
      <4>1. Len(heap) <= NewId
        BY <1>2, StoreFacts
      <4> QED
        BY <3>2, <4>1, <1>1, <1>2, HashedType
    <3> QED
      BY <2>1, <3>1, <3>2 DEF InsertFirst, InsertNewer, InsertStale
  <2>6. freed' \subseteq 1..NewId
    <3>1. freed' = freed \/ (freed' = freed \cup {old} /\ old # Null)
      BY <2>1 DEF InsertFirst, InsertNewer, InsertStale, old
    <3> QED
      BY <3>1, <1>2, <2>2, StoreFacts
  <2>7. StoreType'
    <3>1. RowIds' = 1..NewId
      BY <2>3 DEF RowIds
    <3>2. stamp' \in [Source -> Nat]
      BY <2>1, StoreFacts
    <3>3. covered' \subseteq 1..NewId
      BY <1>2, <2>1, StoreFacts
    <3> QED
      BY <2>3, <2>4, <2>6, <3>1, <3>2, <3>3 DEF StoreType
  <2>8. IndexsType'
    BY <2>1, <2>3, <2>5 DEF IndexsType, schema
  <2>9. SchemaType'
    BY <2>1, SchemaKeptType
  <2>10. CtlType'
    <3>1. indexs' # <<>>
      BY <2>1, <1>2, EmptySeq DEF InsertFirst, InsertNewer, InsertStale, Hashed
    <3> QED
      BY <1>2, <2>1, <3>1 DEF TypeOK, CtlType, ctl, schema
  <2> QED
    BY <2>7, <2>8, <2>9, <2>10 DEF TypeOK
<1> QED
  BY <1>3, <1>4

-----------------------------------------------------------------------------
(* Memory safety.  What the slots and the indexes hold, and the row counts *)
(* the data of a row, do not follow from each other: a row may be deleted  *)
(* only because no other bucket holds it, which takes HashExact, and the   *)
(* key of a row is defined only if its data is aligned.                    *)

SafeInv == DataAligned /\ SlotsExact /\ HashExact /\ OneIndexWithRows
IndInv  == TypeOK /\ SafeInv

LEMMA InitSafe == Init => SafeInv
<1> SUFFICES ASSUME Init PROVE SafeInv
  OBVIOUS
<1>1. rows = <<>> /\ indexs = <<>> /\ DOMAIN rows = {} /\ DOMAIN indexs = {} /\ Live = {}
      /\ Len(indexs) = 0
  BY EmptySeq DEF Init, Live, Range
<1> QED
  BY <1>1 DEF SafeInv, DataAligned, SlotsExact, HashExact, OneIndexWithRows

(* Steps that drop indexes, or none, and touch no row.                     *)
LEMMA FewerIndexesSafe ==
  ASSUME IndInv, UNCHANGED <<store, covered>>, Len(column') = Len(column),
         Len(indexs') <= Len(indexs), Len(indexs') \in Nat,
         \A j \in DOMAIN indexs' : \E k \in DOMAIN indexs : indexs'[j] = indexs[k],
         DOMAIN rows \cap Visited' = DOMAIN rows \cap Visited
  PROVE  SafeInv'
<1>1. Live' = Live /\ heap' = heap /\ rows' = rows /\ freed' = freed /\ covered' = covered
  BY DEF store, Live
<1>2. DataAligned'
  BY <1>1 DEF IndInv, SafeInv, DataAligned
<1>3. SlotsExact'
  BY <1>1 DEF IndInv, SafeInv, SlotsExact
<1>4. OneIndexWithRows'
  BY <1>1, IndexsFacts DEF IndInv, SafeInv, OneIndexWithRows
<1>5. HashExact'
  <2> SUFFICES ASSUME NEW j \in DOMAIN indexs'
               PROVE  /\ \A b \in Hash :
                           LET r == indexs'[j].hash[b]
                           IN  r # Null => /\ heap[r].idx \in Visited'
                                           /\ KeyOf(heap[r], indexs'[j].cols) = b
                      /\ \A i \in DOMAIN rows \cap Visited' :
                           rows[i] # Null =>
                             indexs'[j].hash[KeyOf(heap[rows[i]], indexs'[j].cols)] = rows[i]
    BY <1>1 DEF HashExact, Bucket
  <2>1. PICK k \in DOMAIN indexs : indexs'[j] = indexs[k]
    OBVIOUS
  <2>2. ASSUME NEW b \in Hash, indexs[k].hash[b] # Null
        PROVE  heap[indexs[k].hash[b]].idx \in DOMAIN rows \cap Visited
    <3>1. heap[indexs[k].hash[b]].idx \in Visited /\ indexs[k].hash[b] \in Live
      BY <2>2 DEF IndInv, SafeInv, HashExact, SlotsExact
    <3>2. PICK i \in DOMAIN rows : rows[i] = indexs[k].hash[b]
      BY <3>1 DEF Live, Range
    <3> QED
      BY <2>2, <3>1, <3>2 DEF IndInv, SafeInv, SlotsExact
  <2> QED
    BY <2>1, <2>2 DEF IndInv, SafeInv, HashExact, Bucket
<1> QED
  BY <1>2, <1>3, <1>4, <1>5 DEF SafeInv

(* Steps that start a recomputation: no bucket holds a row yet.            *)
LEMMA RekeySafe ==
  ASSUME IndInv, UNCHANGED <<freed, rows>>, at' = 1,
         \A j \in DOMAIN indexs' : \A b \in Hash : indexs'[j].hash[b] = Null,
         Len(indexs') > 1 => rows = <<>> /\ covered' = {},
         \A r \in Live : heap'[r].idx = heap[r].idx /\ Len(heap'[r].data) = Len(column')
  PROVE  SafeInv'
<1>1. Live' = Live /\ Visited' = {}
  BY DEF Live, Visited
<1>2. DataAligned'
  BY <1>1 DEF DataAligned
<1>3. SlotsExact'
  <2>1. \A i \in DOMAIN rows : rows[i] # Null => rows[i] \in Live
    BY DEF Live, Range
  <2> QED
    BY <1>1, <2>1 DEF IndInv, SafeInv, SlotsExact
<1>4. OneIndexWithRows'
  BY DEF OneIndexWithRows
<1>5. HashExact'
  BY <1>1 DEF HashExact
<1> QED
  BY <1>2, <1>3, <1>4, <1>5 DEF SafeInv

LEMMA KeptSafe ==
  ASSUME IndInv, UNCHANGED <<store, covered, indexs, at>>, Len(column') = Len(column)
  PROVE  SafeInv'
<1>1. Visited' = Visited /\ Len(indexs) \in Nat
  BY IndexsFacts DEF Visited, IndInv, store
<1> QED
  BY <1>1, FewerIndexesSafe

LEMMA FailSafe == IndInv /\ Fail => SafeInv'
<1> SUFFICES ASSUME IndInv, Fail PROVE SafeInv'
  OBVIOUS
<1>1. UNCHANGED <<store, covered, indexs, at, column>>
  BY DEF Fail, schema
<1> QED
  BY <1>1, KeptSafe

LEMMA EmptyHashHolds == \A b \in Hash : EmptyHash[b] = Null
BY DEF EmptyHash

LEMMA TempIndexEmpty ==
  ASSUME NEW cd, NEW upd, NEW b \in Hash
  PROVE  TempIndex(cd, upd).hash[b] = Null
BY EmptyHashHolds DEF TempIndex

LEMMA NamedIndexEmpty ==
  ASSUME NEW nm, NEW p, NEW C, NEW b \in Hash
  PROVE  Index(nm, p, C).hash[b] = Null
BY EmptyHashHolds DEF Index

(* A new single index over the rows as they are.                           *)
LEMMA RebuiltSafe ==
  ASSUME IndInv, NEW ix, indexs' = <<ix>>, \A b \in Hash : ix.hash[b] = Null, Scan(1),
         UNCHANGED <<store, column>>
  PROVE  SafeInv'
<1>1. Len(indexs') = 1 /\ DOMAIN indexs' = {1} /\ indexs'[1] = ix
  OBVIOUS
<1>2. \A r \in Live : heap'[r].idx = heap[r].idx /\ Len(heap'[r].data) = Len(column')
  BY DEF IndInv, SafeInv, DataAligned, store
<1> QED
  BY <1>1, <1>2, RekeySafe DEF Scan, store

LEMMA CreateTableSafe ==
  ASSUME IndInv, NEW s, WellFormed(s), CreateTable(s)
  PROVE  SafeInv'
<1> DEFINE all == [i \in DOMAIN s.cols |-> i]
           upd == UpdColOf(s.cols)
<1>1. CASE Fail
  BY <1>1, FailSafe
<1>2. CASE ~Fail
  <2> HIDE DEF all, upd
  <2>1. /\ pc = "new" /\ Return /\ UNCHANGED <<store, stamp>>
        /\ indexs' = IF s.keys = <<>>
                     THEN << TempIndex(all, upd) >>
                     ELSE [k \in DOMAIN s.keys |->
                            Index(s.keys[k].name, s.keys[k].isPrimary, s.keys[k].cols)]
    BY <1>2 DEF CreateTable, all, upd
  <2>2. rows = <<>> /\ covered = {} /\ rows' = <<>> /\ covered' = {} /\ at' = 0
    BY <2>1 DEF IndInv, TypeOK, CtlType, Return, store
  <2>3. \A j \in DOMAIN indexs' : \A b \in Hash : indexs'[j].hash[b] = Null
    <3>1. CASE s.keys = <<>>
      <4>1. indexs' = << TempIndex(all, upd) >>
        BY <2>1, <3>1
      <4> QED
        BY <4>1, TempIndexEmpty
    <3>2. CASE s.keys # <<>>
      BY <2>1, <3>2, NamedIndexEmpty
    <3> QED
      BY <3>1, <3>2
  <2>4. DOMAIN rows' = {} /\ Live' = {}
    BY <2>2, EmptySeq DEF Live, Range
  <2> QED
    BY <2>2, <2>3, <2>4
      DEF SafeInv, DataAligned, SlotsExact, HashExact, OneIndexWithRows
<1> QED
  BY <1>1, <1>2

LEMMA AddUniqueIndexSafe ==
  ASSUME IndInv, NEW key \in AddedKey, AddUniqueIndex(key)
  PROVE  SafeInv'
<1> DEFINE C == {c \in InTable : column[c].name \in key.names}
           ix == Index(key.name, key.isPrimary, C)
<1>1. CASE Fail
  BY <1>1, FailSafe
<1>2. CASE ~Fail
  <2>1. indexs' = <<ix>> /\ Scan(1) /\ UNCHANGED <<store, column>>
    BY <1>2 DEF AddUniqueIndex, schema
  <2>2. \A b \in Hash : ix.hash[b] = Null
    BY NamedIndexEmpty
  <2> HIDE DEF ix
  <2> QED
    BY <2>1, <2>2, RebuiltSafe
<1> QED
  BY <1>1, <1>2

LEMMA DropUniqueIndexSafe ==
  ASSUME IndInv, NEW p, NEW nm, DropUniqueIndex(p, nm)
  PROVE  SafeInv'
<1>1. PICK k \in DOMAIN indexs :
        \/ /\ indexs' = RemoveAt(indexs, k)
           /\ UNCHANGED <<schema, store, stamp, ctl, covered>>
        \/ /\ indexs' = << TempIndex(colDes, updCol) >>
           /\ Scan(1)
           /\ UNCHANGED <<schema, store, stamp, dropping>>
        \/ Fail
  BY DEF DropUniqueIndex
<1>2. CASE /\ indexs' = RemoveAt(indexs, k)
           /\ UNCHANGED <<schema, store, stamp, ctl, covered>>
  <2> DEFINE T == IndexType(Len(column), Len(heap))
  <2>1. indexs \in Seq(T) /\ k \in 1..Len(indexs) /\ Len(indexs) \in Nat
    BY IndexsFacts DEF IndInv
  <2> HIDE DEF T
  <2>2. /\ indexs' \in Seq(T) /\ Len(indexs') = Len(indexs) - 1
        /\ \A j \in 1..(Len(indexs) - 1) :
             indexs'[j] = IF j < k THEN indexs[j] ELSE indexs[j + 1]
    BY <1>2, <2>1, RemoveAtFacts
  <2>3. ASSUME NEW j \in DOMAIN indexs'
        PROVE  \E i \in DOMAIN indexs : indexs'[j] = indexs[i]
    <3>1. j \in 1..(Len(indexs) - 1) /\ j \in DOMAIN indexs /\ j + 1 \in DOMAIN indexs
      BY <2>1, <2>2
    <3> QED
      BY <2>2, <3>1
  <2>4. Visited' = Visited /\ Len(indexs') \in Nat /\ Len(indexs') <= Len(indexs)
    BY <1>2, <2>1, <2>2 DEF Visited, ctl, store
  <2> QED
    BY <1>2, <2>3, <2>4, FewerIndexesSafe DEF schema
<1>3. CASE /\ indexs' = << TempIndex(colDes, updCol) >>
           /\ Scan(1)
           /\ UNCHANGED <<schema, store, stamp, dropping>>
  BY <1>3, TempIndexEmpty, RebuiltSafe DEF schema
<1> QED
  BY <1>1, <1>2, <1>3, FailSafe

LEMMA ChangeColumnSafe ==
  ASSUME IndInv, NEW c \in Column, NEW i \in DOMAIN colDes, ChangeColumn(i, c)
  PROVE  SafeInv'
<1>1. colDes[i] \in 1..Len(column) /\ column \in Seq(Column)
  BY SchemaFacts DEF IndInv
<1>2. UNCHANGED <<store, covered, indexs, at>> /\ Len(column') = Len(column)
  BY <1>1, ExceptSeq DEF ChangeColumn, ctl
<1> QED
  BY <1>2, KeptSafe

LEMMA DropColumnSafe ==
  ASSUME IndInv, NEW i \in DOMAIN colDes, DropColumn(i)
  PROVE  SafeInv'
<1>1. UNCHANGED <<store, covered, indexs, at, column>>
  BY DEF DropColumn, schema
<1> QED
  BY <1>1, KeptSafe

LEMMA SweepSafe ==
  ASSUME IndInv, pos \in 1..Len(indexs), Sweep, UNCHANGED <<schema, store, covered>>,
         DOMAIN rows \cap Visited' = DOMAIN rows \cap Visited
  PROVE  SafeInv'
<1> DEFINE T == IndexType(Len(column), Len(heap))
<1>1. indexs \in Seq(T) /\ Len(indexs) \in Nat /\ DOMAIN indexs = 1..Len(indexs)
  BY IndexsFacts DEF IndInv
<1> HIDE DEF T
<1>2. CASE indexs[pos].cols = {}
  <2>0. indexs' = RemoveAt(indexs, pos)
    BY <1>2 DEF Sweep
  <2>1. /\ indexs' \in Seq(T) /\ Len(indexs') = Len(indexs) - 1
        /\ \A j \in 1..(Len(indexs) - 1) :
             indexs'[j] = IF j < pos THEN indexs[j] ELSE indexs[j + 1]
    BY <1>1, <2>0, RemoveAtFacts
  <2>2. ASSUME NEW j \in DOMAIN indexs'
        PROVE  \E i \in DOMAIN indexs : indexs'[j] = indexs[i]
    <3>1. j \in 1..(Len(indexs) - 1) /\ j \in DOMAIN indexs /\ j + 1 \in DOMAIN indexs
      BY <1>1, <2>1
    <3> QED
      BY <2>1, <3>1
  <2>3. Len(indexs') \in Nat /\ Len(indexs') <= Len(indexs)
    BY <1>1, <2>1
  <2> QED
    BY <2>2, <2>3, FewerIndexesSafe DEF schema
<1>3. CASE indexs[pos].cols # {}
  BY <1>1, <1>3, FewerIndexesSafe DEF Sweep, schema
<1> QED
  BY <1>2, <1>3

LEMMA DropFromIndexSafe ==
  ASSUME IndInv, DropFromIndex
  PROVE  SafeInv'
<1> DEFINE c  == colDes[dropping]
           ix == ReKeyed(indexs[pos], indexs[pos].cols \ {c})
<1>1. pos \in 1..Len(indexs) /\ Len(indexs) \in Nat /\ DOMAIN indexs = 1..Len(indexs)
      /\ indexs[pos] \in IndexType(Len(column), Len(heap))
  BY IndexsFacts DEF IndInv, DropFromIndex, TypeOK, CtlType
<1>2. CASE c \in indexs[pos].cols
  <2>1. /\ indexs' = [indexs EXCEPT ![pos] = ix]
        /\ Scan(pos)
        /\ UNCHANGED <<schema, store, stamp, dropping>>
    BY <1>1, <1>2 DEF DropFromIndex
  <2>2. \A b \in Hash : ix.hash[b] = Null
    BY <1>1, EmptyHashHolds DEF ReKeyed, IndexType
  <2> HIDE DEF ix
  <2>3. Len(indexs') = Len(indexs) /\ DOMAIN indexs' = DOMAIN indexs
    <3>1. DOMAIN indexs' = 1..Len(indexs)
      BY <1>1, <2>1
    <3> QED
      BY <1>1, <2>1, <3>1
  <2>4. Len(indexs) > 1 => rows = <<>> /\ Live = {}
    BY EmptySeq DEF IndInv, SafeInv, OneIndexWithRows, Live, Range
  <2>5. ASSUME NEW j \in DOMAIN indexs', NEW b \in Hash
        PROVE  indexs'[j].hash[b] = Null
    <3>1. CASE j = pos
      BY <1>1, <2>1, <2>2, <3>1
    <3>2. CASE j # pos
      <4>1. Len(indexs) > 1 /\ indexs'[j] = indexs[j] /\ j \in DOMAIN indexs
        BY <1>1, <2>1, <2>3, <3>2
      <4> QED
        BY <2>4, <4>1 DEF IndInv, SafeInv, SlotsExact
    <3> QED
      BY <3>1, <3>2
  <2>6. Len(indexs') > 1 => rows = <<>> /\ covered' = {}
    BY <2>1, <2>3, <2>4 DEF Scan
  <2>7. \A r \in Live : heap'[r].idx = heap[r].idx /\ Len(heap'[r].data) = Len(column')
    BY <2>1 DEF IndInv, SafeInv, DataAligned, store, schema
  <2> QED
    BY <2>1, <2>5, <2>6, <2>7, RekeySafe DEF Scan, store
<1>3. CASE c \notin indexs[pos].cols
  <2>1. Sweep /\ UNCHANGED <<schema, store, stamp, pc, at, dropping, covered>>
    BY <1>3 DEF DropFromIndex
  <2>2. Visited' = Visited
    BY <2>1 DEF Visited, store
  <2> QED
    BY <1>1, <2>1, <2>2, SweepSafe
<1> QED
  BY <1>2, <1>3

LEMMA DropFinishSafe ==
  ASSUME IndInv, DropFinish
  PROVE  SafeInv'
<1>1. \/ UNCHANGED <<column, store, covered, indexs, at>>
      \/ /\ indexs' = << TempIndex(RemoveAt(colDes, dropping), updCol) >>
         /\ Scan(1) /\ UNCHANGED <<column, store>>
      \/ Fail
  BY DEF DropFinish
<1> QED
  BY <1>1, KeptSafe, FailSafe, RebuiltSafe, TempIndexEmpty

LEMMA ScanDoneSafe ==
  ASSUME IndInv, ScanDone
  PROVE  SafeInv'
<1>1. /\ pc = "scan" /\ at' = 0 /\ at > Len(rows)
      /\ UNCHANGED <<schema, store, stamp, dropping, covered>>
  BY DEF ScanDone
<1>2. /\ pos \in 1..Len(indexs) /\ Len(indexs) \in Nat
      /\ at \in Nat /\ DOMAIN rows = 1..Len(rows) /\ Len(rows) \in Nat
  BY <1>1, IndexsFacts, StoreFacts DEF IndInv, TypeOK, CtlType
<1>3. DOMAIN rows \cap Visited' = DOMAIN rows \cap Visited
  BY <1>1, <1>2 DEF Visited, store
<1>4. CASE dropping = 0 /\ pc' = "call" /\ UNCHANGED <<indexs, pos>>
  BY <1>1, <1>2, <1>3, <1>4, FewerIndexesSafe DEF schema
<1>5. CASE dropping # 0 /\ pc' = "drop" /\ Sweep
  BY <1>1, <1>2, <1>3, <1>5, SweepSafe
<1> QED
  BY <1>4, <1>5 DEF ScanDone

(* Data appended to a row does not change its key under an index over the  *)
(* columns it had.                                                         *)
LEMMA KeyKept ==
  ASSUME NEW row, NEW row2, NEW C, \A c \in C : row2.data[c] = row.data[c]
  PROVE  KeyOf(row2, C) = KeyOf(row, C)
<1>1. [c \in C |-> row2.data[c]] = [c \in C |-> row.data[c]]
  OBVIOUS
<1> QED
  BY <1>1 DEF KeyOf

LEMMA GrownRow ==
  ASSUME NEW row \in RowType, NEW v \in Value
  PROVE  LET grown == [row EXCEPT !.data = Append(@, v)]
         IN  /\ grown.idx = row.idx /\ grown.source = row.source /\ grown.stamp = row.stamp
             /\ Len(grown.data) = Len(row.data) + 1
             /\ \A c \in 1..Len(row.data) : grown.data[c] = row.data[c]
<1>1. row.data \in Seq(Value)
  BY DEF RowType
<1> QED
  BY <1>1, AppendProperties DEF RowType

LEMMA AddColumnSafe ==
  ASSUME IndInv, NEW c \in Column, NEW after \in DOMAIN colDes, AddColumn(c, after)
  PROVE  SafeInv'
<1> DEFINE order == InsertAt(colDes, after + 1, Len(column) + 1)
           upd   == IF c.name = UpdName THEN Len(column) + 1 ELSE updCol
           v     == IF c.def = -1 THEN Blank ELSE c.def
<1>1. CASE Fail
  BY <1>1, FailSafe
<1>2. CASE ~Fail
  <2> HIDE DEF order, upd, v
  <2>1. /\ column' = Append(column, c)
        /\ heap' = [r \in RowIds |->
                      IF r \in Live THEN [heap[r] EXCEPT !.data = Append(@, v)] ELSE heap[r]]
        /\ \/ indexs' = << TempIndex(order, upd) >> /\ Scan(1)
           \/ covered' \in {covered, Live} /\ UNCHANGED <<indexs, ctl>>
        /\ UNCHANGED <<freed, rows>>
    BY <1>2 DEF AddColumn, order, upd, v
  <2>2. Len(column') = Len(column) + 1 /\ Len(column) \in Nat
    BY <2>1, SchemaFacts, AppendProperties DEF IndInv
  <2>3. v \in Value
    BY Constants DEF Column, v
  <2>4. ASSUME NEW r \in Live
        PROVE  /\ heap'[r].idx = heap[r].idx
               /\ Len(heap'[r].data) = Len(column')
               /\ \A x \in 1..Len(column) : heap'[r].data[x] = heap[r].data[x]
    <3>1. r \in RowIds /\ heap[r] \in RowType /\ Len(heap[r].data) = Len(column)
      BY StoreFacts DEF IndInv, SafeInv, DataAligned
    <3>2. heap'[r] = [heap[r] EXCEPT !.data = Append(@, v)]
      BY <2>1, <3>1
    <3> QED
      BY <2>2, <2>3, <3>1, <3>2, GrownRow
  <2>5. CASE indexs' = << TempIndex(order, upd) >> /\ Scan(1)
    <3>1. Len(indexs') = 1 /\ DOMAIN indexs' = {1} /\ indexs'[1] = TempIndex(order, upd)
      BY <2>5
    <3>2. \A j \in DOMAIN indexs' : \A b \in Hash : indexs'[j].hash[b] = Null
      BY <3>1, TempIndexEmpty
    <3>3. Len(indexs') > 1 => rows = <<>> /\ covered' = {}
      BY <3>1
    <3>4. \A r \in Live : heap'[r].idx = heap[r].idx /\ Len(heap'[r].data) = Len(column')
      BY <2>4
    <3>5. at' = 1 /\ UNCHANGED <<freed, rows>>
      BY <2>1, <2>5 DEF Scan
    <3> QED
      BY <3>2, <3>3, <3>4, <3>5, RekeySafe
  <2>6. CASE covered' \in {covered, Live} /\ UNCHANGED <<indexs, ctl>>
    <3>1. Live' = Live /\ Visited' = Visited
      BY <2>1, <2>6 DEF Live, Visited, ctl
    <3>2. ASSUME NEW r \in Live, NEW k \in DOMAIN indexs
          PROVE  KeyOf(heap'[r], indexs[k].cols) = KeyOf(heap[r], indexs[k].cols)
      <4>1. indexs[k].cols \in SUBSET (1..Len(column))
        BY IndexsFacts, IndexFacts DEF IndInv
      <4> QED
        BY <2>4, <4>1, KeyKept
    <3>3. DataAligned'
      BY <2>4, <3>1 DEF DataAligned
    <3>4. SlotsExact'
      <4>1. \A i \in DOMAIN rows : rows[i] # Null => rows[i] \in Live
        BY DEF Live, Range
      <4> QED
        BY <2>1, <2>4, <2>6, <3>1, <4>1 DEF IndInv, SafeInv, SlotsExact
    <3>5. OneIndexWithRows'
      <4>1. rows = <<>> => Live = {}
        BY EmptySeq DEF Live, Range
      <4> QED
        BY <2>1, <2>6, <4>1 DEF IndInv, SafeInv, OneIndexWithRows
    <3>6. HashExact'
      <4>1. ASSUME NEW k \in DOMAIN indexs, NEW b \in Hash, indexs[k].hash[b] # Null
            PROVE  /\ heap'[indexs[k].hash[b]].idx \in Visited
                   /\ KeyOf(heap'[indexs[k].hash[b]], indexs[k].cols) = b
        <5>1. indexs[k].hash[b] \in Live
          BY <4>1 DEF IndInv, SafeInv, SlotsExact
        <5> QED
          BY <2>4, <3>2, <4>1, <5>1 DEF IndInv, SafeInv, HashExact, Bucket
      <4>2. ASSUME NEW k \in DOMAIN indexs, NEW i \in DOMAIN rows \cap Visited, rows[i] # Null
            PROVE  indexs[k].hash[KeyOf(heap'[rows[i]], indexs[k].cols)] = rows[i]
        <5>1. rows[i] \in Live
          BY <4>2 DEF Live, Range
        <5> QED
          BY <3>2, <4>2, <5>1 DEF IndInv, SafeInv, HashExact, Bucket
      <4>3. indexs' = indexs /\ rows' = rows
        BY <2>1, <2>6
      <4> SUFFICES ASSUME NEW k \in DOMAIN indexs
                   PROVE  /\ \A b \in Hash :
                               LET r == indexs[k].hash[b]
                               IN  r # Null => /\ heap'[r].idx \in Visited
                                               /\ KeyOf(heap'[r], indexs[k].cols) = b
                          /\ \A i \in DOMAIN rows \cap Visited :
                               rows[i] # Null =>
                                 indexs[k].hash[KeyOf(heap'[rows[i]], indexs[k].cols)] = rows[i]
        BY <3>1, <4>3 DEF HashExact, Bucket
      <4> QED
        BY <4>1, <4>2
    <3> QED
      BY <3>3, <3>4, <3>5, <3>6 DEF SafeInv
  <2> QED
    BY <2>1, <2>5, <2>6
<1> QED
  BY <1>1, <1>2

(* hash[key of row] = r in a table with one index.                         *)
LEMMA HashedSingle ==
  ASSUME TypeOK, Len(indexs) = 1, NEW row \in RowType, Len(row.data) = Len(column), NEW r,
         indexs' = Hashed(1, row, r)
  PROVE  /\ Len(indexs') = 1 /\ DOMAIN indexs' = {1}
         /\ indexs'[1].cols = indexs[1].cols
         /\ \A b \in Hash : indexs'[1].hash[b] =
                             IF b = KeyOf(row, indexs[1].cols) THEN r ELSE indexs[1].hash[b]
<1> DEFINE b == KeyOf(row, indexs[1].cols)
<1>1. /\ indexs \in Seq(IndexType(Len(column), Len(heap))) /\ DOMAIN indexs = {1}
      /\ indexs[1] \in IndexType(Len(column), Len(heap))
  BY IndexsFacts
<1>2. b \in Hash
  BY HolderType
<1>3. indexs' = [indexs EXCEPT ![1] = [indexs[1] EXCEPT !.hash[b] = r]]
  BY <1>1 DEF Hashed
<1> HIDE DEF b
<1>4. DOMAIN indexs' = {1} /\ indexs'[1] = [indexs[1] EXCEPT !.hash[b] = r]
  BY <1>1, <1>3
<1>5. Len(indexs') = 1
  BY <1>1, <1>3, LenProperties
<1>6. indexs'[1].cols = indexs[1].cols
      /\ \A x \in Hash : indexs'[1].hash[x] = IF x = b THEN r ELSE indexs[1].hash[x]
  BY <1>1, <1>2, <1>4 DEF IndexType
<1> QED
  BY <1>4, <1>5, <1>6 DEF b

(* In a table with one index, SafeInv says this of the next state.         *)
LEMMA SingleIndexSafe ==
  ASSUME DOMAIN indexs' = {1}, Len(indexs') = 1,
         \A i \in DOMAIN rows' : rows'[i] # Null =>
           /\ rows'[i] \notin freed' /\ heap'[rows'[i]].idx = i
           /\ Len(heap'[rows'[i]].data) = Len(column')
           /\ i \in Visited' =>
                indexs'[1].hash[KeyOf(heap'[rows'[i]], indexs'[1].cols)] = rows'[i],
         \A x \in Hash :
           LET s == indexs'[1].hash[x]
           IN  s # Null => /\ s \in Live' /\ heap'[s].idx \in Visited'
                           /\ KeyOf(heap'[s], indexs'[1].cols) = x
  PROVE  SafeInv'
<1>1. DataAligned'
  <2>1. \A r \in Live' : \E i \in DOMAIN rows' : rows'[i] = r /\ r # Null
    BY DEF Live, Range
  <2> QED
    BY <2>1 DEF DataAligned
<1>2. SlotsExact'
  <2>1. \A x \in Hash : indexs'[1].hash[x] \in Live' \cup {Null}
    OBVIOUS
  <2> QED
    BY <2>1 DEF SlotsExact
<1>3. HashExact'
  BY DEF HashExact, Bucket
<1>4. OneIndexWithRows'
  BY DEF OneIndexWithRows
<1> QED
  BY <1>1, <1>2, <1>3, <1>4 DEF SafeInv

(* A slot that holds a row, in a table with one index.                     *)
LEMMA SlotFacts ==
  ASSUME IndInv, Len(indexs) >= 1, NEW i \in DOMAIN rows, rows[i] # Null
  PROVE  /\ rows[i] \in Live /\ rows[i] \in RowIds /\ heap[rows[i]] \in RowType
         /\ rows[i] \notin freed /\ heap[rows[i]].idx = i
         /\ Len(heap[rows[i]].data) = Len(column)
         /\ Len(indexs) = 1 /\ DOMAIN indexs = {1}
         /\ KeyOf(heap[rows[i]], indexs[1].cols) \in Hash
<1>1. rows[i] \in Live
  BY DEF Live, Range
<1>2. /\ rows[i] \in RowIds /\ heap[rows[i]] \in RowType
      /\ rows[i] \notin freed /\ heap[rows[i]].idx = i
      /\ Len(heap[rows[i]].data) = Len(column)
  BY <1>1, StoreFacts DEF IndInv, SafeInv, SlotsExact, DataAligned
<1>3. rows # <<>>
  BY EmptySeq
<1>4. Len(indexs) \in Nat /\ DOMAIN indexs = 1..Len(indexs) /\ ~(Len(indexs) > 1)
  BY <1>3, IndexsFacts DEF IndInv, SafeInv, OneIndexWithRows
<1>5. Len(indexs) = 1 /\ DOMAIN indexs = {1} /\ 1 \in 1..Len(indexs)
  BY <1>4
<1>6. KeyOf(heap[rows[i]], indexs[1].cols) \in Hash
  BY <1>2, <1>5, HolderType DEF IndInv
<1> QED
  BY <1>1, <1>2, <1>5, <1>6

(* A row the index holds, in a table with one index.                       *)
LEMMA HeldFacts ==
  ASSUME IndInv, Len(indexs) = 1, NEW x \in Hash, indexs[1].hash[x] # Null
  PROVE  LET s == indexs[1].hash[x]
         IN  /\ s \in Live /\ s \in RowIds /\ heap[s].idx \in DOMAIN rows \cap Visited
             /\ rows[heap[s].idx] = s /\ KeyOf(heap[s], indexs[1].cols) = x
<1> DEFINE s == indexs[1].hash[x]
<1>1. 1 \in DOMAIN indexs
  BY IndexsFacts DEF IndInv
<1>2. s \in Live /\ heap[s].idx \in Visited /\ KeyOf(heap[s], indexs[1].cols) = x
  BY <1>1 DEF IndInv, SafeInv, SlotsExact, HashExact, Bucket
<1>3. PICK i \in DOMAIN rows : rows[i] = s
  BY <1>2 DEF Live, Range
<1>4. heap[s].idx = i
  BY <1>3 DEF IndInv, SafeInv, SlotsExact
<1> QED
  BY <1>2, <1>3, <1>4, StoreFacts DEF IndInv

(* The new row takes the slot of the row it beats, in both the scan and    *)
(* the insertion: r is the winner, old the loser, slots the rows with the  *)
(* slot taken, x the slot r is taken out of (0 when it comes from outside).*)
LEMMA TakeOver ==
  ASSUME IndInv, Len(indexs) = 1, NEW r, NEW row \in RowType, Len(row.data) = Len(column),
         NEW x \in Nat,
         r # Null, r \notin freed,
         \A i \in DOMAIN rows : rows[i] = r => i = x,
         \A y \in Hash : indexs[1].hash[y] # r,
         NEW b \in Hash, b = KeyOf(row, indexs[1].cols), NEW old, old = indexs[1].hash[b],
         old # Null, x \notin Visited,
         column' = column, indexs' = Hashed(1, row, r),
         DOMAIN rows' = DOMAIN rows,
         \A i \in DOMAIN rows :
           rows'[i] = IF i = x THEN Null ELSE IF i = heap[old].idx THEN r ELSE rows[i],
         \A s \in RowIds \ {r} : heap'[s] = heap[s],
         heap'[r] = TakeSlot(row, old),
         freed' = freed \cup {old},
         Visited \subseteq Visited', Visited' \subseteq Visited \cup {x}
  PROVE  SafeInv'
<1> DEFINE C == indexs[1].cols
           o == heap[old].idx
<1>1. /\ Len(indexs') = 1 /\ DOMAIN indexs' = {1} /\ indexs'[1].cols = C
      /\ \A y \in Hash : indexs'[1].hash[y] = IF y = b THEN r ELSE indexs[1].hash[y]
  BY HashedSingle DEF IndInv
<1>2. /\ old \in Live /\ old \in RowIds /\ o \in DOMAIN rows \cap Visited
      /\ rows[o] = old /\ KeyOf(heap[old], C) = b
  BY HeldFacts
<1>3. old # r /\ o # x /\ o \in Visited'
  BY <1>2
<1>4. heap'[r].idx = o /\ heap'[r].data = row.data
  BY DEF TakeSlot, RowType
<1>5. KeyOf(heap'[r], C) = b
  BY <1>4, KeyKept
<1>6. rows'[o] = r
  BY <1>2, <1>3
<1>7. r \in Live'
  BY <1>2, <1>6 DEF Live, Range
<1>8. ASSUME NEW i \in DOMAIN rows, i # x, i # o, rows[i] # Null
      PROVE  /\ rows'[i] = rows[i] /\ rows[i] # r /\ rows[i] # old /\ rows[i] \in RowIds
             /\ rows[i] \notin freed' /\ heap'[rows[i]] = heap[rows[i]]
             /\ heap[rows[i]].idx = i
             /\ Len(heap[rows[i]].data) = Len(column)
             /\ KeyOf(heap[rows[i]], C) \in Hash
  <2>1. /\ rows[i] \in RowIds /\ rows[i] \notin freed /\ heap[rows[i]].idx = i
        /\ Len(heap[rows[i]].data) = Len(column)
        /\ KeyOf(heap[rows[i]], C) \in Hash
    BY <1>8, SlotFacts
  <2>2. rows[i] # r /\ rows[i] # old /\ rows'[i] = rows[i]
    BY <1>8, <2>1
  <2> QED
    BY <2>1, <2>2
<1>9. ASSUME NEW i \in DOMAIN rows', rows'[i] # Null
      PROVE  /\ rows'[i] \notin freed' /\ heap'[rows'[i]].idx = i
             /\ Len(heap'[rows'[i]].data) = Len(column')
             /\ i \in Visited' => indexs'[1].hash[KeyOf(heap'[rows'[i]], C)] = rows'[i]
  <2>1. i \in DOMAIN rows /\ i # x
    BY <1>9
  <2>2. CASE i = o
    <3>1. rows'[i] = r /\ r \notin freed' /\ heap'[r].idx = i /\ i \in DOMAIN rows
      BY <1>3, <1>4, <1>6, <2>1, <2>2
    <3>2. Len(heap'[r].data) = Len(column')
      BY <1>4
    <3>3. indexs'[1].hash[KeyOf(heap'[r], C)] = r
      BY <1>1, <1>5
    <3> HIDE DEF C, o
    <3> QED
      BY <3>1, <3>2, <3>3
  <2>3. CASE i # o
    <3>1. rows[i] # Null
      BY <1>9, <2>1, <2>3
    <3>2. i \in Visited' =>
            /\ i \in Visited
            /\ indexs[1].hash[KeyOf(heap[rows[i]], C)] = rows[i]
      <4>1. 1 \in DOMAIN indexs
        BY IndexsFacts DEF IndInv
      <4> QED
        BY <2>1, <3>1, <4>1 DEF IndInv, SafeInv, HashExact, Bucket
    <3>3. KeyOf(heap[rows[i]], C) = b => i \notin Visited'
      BY <1>8, <2>1, <2>3, <3>1, <3>2
    <3> HIDE DEF C
    <3> QED
      BY <1>1, <1>8, <2>1, <2>3, <3>1, <3>2, <3>3
  <2> QED
    BY <2>2, <2>3
<1>10. ASSUME NEW y \in Hash \ {b}, indexs[1].hash[y] # Null
       PROVE  LET s == indexs[1].hash[y]
              IN  s \in Live' /\ heap'[s].idx \in Visited' /\ KeyOf(heap'[s], C) = y
  <2> DEFINE s == indexs[1].hash[y]
             i == heap[s].idx
  <2>1. /\ s \in RowIds /\ i \in DOMAIN rows \cap Visited /\ rows[i] = s
        /\ KeyOf(heap[s], C) = y
    BY <1>10, HeldFacts
  <2> HIDE DEF s, i
  <2>2. i # o /\ i # x
    <3>1. i # x
      BY <1>2, <2>1
    <3>2. i # o
      BY <1>2, <2>1
    <3> QED
      BY <3>1, <3>2
  <2> USE DEF s, i
  <2>3. rows'[i] = s /\ heap'[s] = heap[s]
    BY <1>8, <1>10, <2>1, <2>2
  <2>4. s \in Live'
    BY <1>10, <2>1, <2>3 DEF Live, Range
  <2> QED
    BY <2>1, <2>3, <2>4
<1> HIDE DEF C
<1>11. r # Null => r \in Live' /\ heap'[r].idx \in Visited' /\ KeyOf(heap'[r], C) = b
  BY <1>3, <1>4, <1>5, <1>7
<1>12. ASSUME NEW y \in Hash, indexs'[1].hash[y] # Null
       PROVE  LET s == indexs'[1].hash[y]
              IN  s \in Live' /\ heap'[s].idx \in Visited' /\ KeyOf(heap'[s], C) = y
  <2>1. CASE y = b
    BY <1>1, <1>11, <2>1
  <2>2. CASE y # b
    BY <1>1, <1>10, <1>12, <2>2
  <2> QED
    BY <2>1, <2>2
<1>13. DOMAIN indexs' = {1} /\ Len(indexs') = 1 /\ indexs'[1].cols = C
  BY <1>1
<1> QED
  BY <1>9, <1>12, <1>13, SingleIndexSafe

(* reCompute at a slot that holds a row.                                   *)
LEMMA ScanFacts ==
  ASSUME IndInv, pc = "scan", at <= Len(rows)
  PROVE  /\ at \in DOMAIN rows /\ at \in Nat /\ Len(indexs) >= 1
         /\ Visited = 1..(at - 1) /\ at \notin Visited
         /\ rows[at] # Null => /\ Len(indexs) = 1 /\ pos = 1
                               /\ \A x \in Hash : indexs[1].hash[x] # rows[at]
                               /\ \A i \in DOMAIN rows : rows[i] = rows[at] => i = at
<1>1. at \in DOMAIN rows /\ at \in Nat /\ pos \in 1..Len(indexs) /\ Len(indexs) \in Nat
  BY StoreFacts, IndexsFacts DEF IndInv, TypeOK, CtlType
<1>2. Len(indexs) >= 1
  BY <1>1
<1>3. Visited = 1..(at - 1) /\ at \notin Visited
  BY <1>1 DEF Visited
<1>4. ASSUME rows[at] # Null
      PROVE  /\ Len(indexs) = 1 /\ pos = 1
             /\ \A x \in Hash : indexs[1].hash[x] # rows[at]
             /\ \A i \in DOMAIN rows : rows[i] = rows[at] => i = at
  <2>1. Len(indexs) = 1 /\ heap[rows[at]].idx = at
    BY <1>1, <1>2, <1>4, SlotFacts
  <2>2. pos = 1
    BY <1>1, <2>1
  <2>3. \A x \in Hash : indexs[1].hash[x] # rows[at]
    BY <1>3, <1>4, <2>1, HeldFacts
  <2>4. \A i \in DOMAIN rows : rows[i] = rows[at] => i = at
    BY <1>2, <1>4, <2>1, SlotFacts
  <2> QED
    BY <2>1, <2>2, <2>3, <2>4
<1> QED
  BY <1>1, <1>2, <1>3, <1>4

(* One more slot is passed, which holds no row or loses it.                *)
LEMMA PassSafe ==
  ASSUME IndInv, pc = "scan", at <= Len(rows), at' = at + 1,
         UNCHANGED <<column, heap, freed, indexs, covered>>,
         (rows' = rows /\ rows[at] = Null) \/ rows' = [rows EXCEPT ![at] = Null]
  PROVE  SafeInv'
<1>1. /\ at \in DOMAIN rows /\ at \in Nat /\ Len(indexs) >= 1
      /\ Visited = 1..(at - 1) /\ at \notin Visited /\ Visited' = 1..at
      /\ rows[at] # Null => \A x \in Hash : indexs[1].hash[x] # rows[at]
  BY ScanFacts DEF Visited
<1>2. DOMAIN rows' = DOMAIN rows
      /\ \A i \in DOMAIN rows : rows'[i] = IF i = at THEN Null ELSE rows[i]
  BY <1>1
<1>3. Live' \subseteq Live
  BY <1>2 DEF Live, Range
<1>4. CASE Len(indexs) > 1
  <2>1. rows = <<>>
    BY <1>4 DEF IndInv, SafeInv, OneIndexWithRows
  <2> QED
    BY <1>1, <2>1, EmptySeq
<1>5. CASE Len(indexs) = 1
  <2>1. Len(indexs') = 1 /\ DOMAIN indexs' = {1} /\ 1 \in DOMAIN indexs
    BY <1>5, IndexsFacts DEF IndInv
  <2>2. ASSUME NEW i \in DOMAIN rows', rows'[i] # Null
        PROVE  /\ rows'[i] \notin freed' /\ heap'[rows'[i]].idx = i
               /\ Len(heap'[rows'[i]].data) = Len(column')
               /\ i \in Visited' =>
                    indexs'[1].hash[KeyOf(heap'[rows'[i]], indexs'[1].cols)] = rows'[i]
    <3>1. i \in DOMAIN rows /\ i # at /\ rows'[i] = rows[i] /\ rows[i] # Null
      BY <1>2, <2>2
    <3>2. i \in Visited' => i \in Visited
      BY <1>1, <3>1, StoreFacts DEF IndInv
    <3>3. /\ rows[i] \notin freed /\ heap[rows[i]].idx = i
          /\ Len(heap[rows[i]].data) = Len(column)
      BY <1>1, <3>1, SlotFacts
    <3>4. i \in Visited => indexs[1].hash[KeyOf(heap[rows[i]], indexs[1].cols)] = rows[i]
      BY <2>1, <3>1 DEF IndInv, SafeInv, HashExact, Bucket
    <3> QED
      BY <3>1, <3>2, <3>3, <3>4
  <2>3. ASSUME NEW x \in Hash, indexs'[1].hash[x] # Null
        PROVE  LET s == indexs'[1].hash[x]
               IN  /\ s \in Live' /\ heap'[s].idx \in Visited'
                   /\ KeyOf(heap'[s], indexs'[1].cols) = x
    <3> DEFINE s == indexs[1].hash[x]
    <3>1. /\ heap[s].idx \in DOMAIN rows \cap Visited /\ rows[heap[s].idx] = s
          /\ KeyOf(heap[s], indexs[1].cols) = x
      BY <1>5, <2>3, HeldFacts
    <3>2. heap[s].idx # at
      BY <1>1, <3>1
    <3>3. s \in Live'
      BY <1>2, <2>3, <3>1, <3>2 DEF Live, Range
    <3> QED
      BY <1>1, <3>1, <3>3
  <2> QED
    BY <2>1, <2>2, <2>3, SingleIndexSafe
<1>6. Len(indexs) = 1 \/ Len(indexs) > 1
  <2>1. \A n \in Nat : n >= 1 => n = 1 \/ n > 1
    OBVIOUS
  <2>2. Len(indexs) \in Nat
    BY IndexsFacts DEF IndInv
  <2>3. Len(indexs) >= 1
    BY <1>1
  <2> QED
    BY <2>1, <2>2, <2>3, Zenon
<1> QED
  BY <1>4, <1>5, <1>6

LEMMA ScanFirstSafe ==
  ASSUME IndInv, pc = "scan", at <= Len(rows), at' = at + 1, rows[at] # Null,
         UNCHANGED column, ScanFirst(rows[at])
  PROVE  SafeInv'
<1> DEFINE r == rows[at]
           C == indexs[1].cols
           b == KeyOf(heap[r], C)
<1>1. /\ at \in DOMAIN rows /\ at \in Nat /\ Len(indexs) = 1 /\ pos = 1
      /\ Visited = 1..(at - 1) /\ Visited' = 1..at
      /\ \A i \in DOMAIN rows : rows[i] = r => i = at
      /\ 1 \in DOMAIN indexs
  BY ScanFacts, IndexsFacts DEF Visited, IndInv
<1>2. r \in Live /\ heap[r] \in RowType /\ heap[r].idx = at /\ Len(heap[r].data) = Len(column)
      /\ b \in Hash
  BY <1>1, SlotFacts
<1>3. /\ indexs[1].hash[b] = Null /\ indexs' = Hashed(1, heap[r], r)
      /\ heap' = heap /\ rows' = rows /\ freed' = freed
  BY <1>1 DEF ScanFirst, Holder, store
<1>4. /\ Len(indexs') = 1 /\ DOMAIN indexs' = {1} /\ indexs'[1].cols = C
      /\ \A y \in Hash : indexs'[1].hash[y] = IF y = b THEN r ELSE indexs[1].hash[y]
  BY <1>1, <1>2, <1>3, HashedSingle DEF IndInv
<1>5. Live' = Live
  BY <1>3 DEF Live
<1>6. ASSUME NEW i \in DOMAIN rows', rows'[i] # Null
      PROVE  /\ rows'[i] \notin freed' /\ heap'[rows'[i]].idx = i
             /\ Len(heap'[rows'[i]].data) = Len(column')
             /\ i \in Visited' => indexs'[1].hash[KeyOf(heap'[rows'[i]], indexs'[1].cols)] = rows'[i]
  <2>1. /\ rows[i] \notin freed /\ heap[rows[i]].idx = i
        /\ Len(heap[rows[i]].data) = Len(column)
        /\ KeyOf(heap[rows[i]], C) \in Hash
    BY <1>1, <1>3, <1>6, SlotFacts
  <2>2. i \in Visited => indexs[1].hash[KeyOf(heap[rows[i]], C)] = rows[i]
    BY <1>1, <1>3, <1>6 DEF IndInv, SafeInv, HashExact, Bucket
  <2>3. i \in Visited' => i = at \/ i \in Visited
    BY <1>1
  <2> HIDE DEF C, b
  <2>4. i \in Visited => KeyOf(heap[rows[i]], C) # b
    BY <1>3, <1>6, <2>2
  <2>5. i = at => KeyOf(heap[rows[i]], C) = b
    BY DEF b
  <2>6. i \in Visited' => indexs'[1].hash[KeyOf(heap[rows[i]], C)] = rows[i]
    BY <1>4, <2>1, <2>2, <2>3, <2>4, <2>5
  <2> QED
    BY <1>3, <1>4, <2>1, <2>6
<1>7. ASSUME NEW y \in Hash, indexs'[1].hash[y] # Null
      PROVE  LET s == indexs'[1].hash[y]
             IN  s \in Live' /\ heap'[s].idx \in Visited' /\ KeyOf(heap'[s], indexs'[1].cols) = y
  <2>1. CASE y = b
    <3>1. indexs'[1].hash[y] = r /\ at \in Visited'
      BY <1>1, <1>4, <2>1
    <3> QED
      BY <1>2, <1>3, <1>4, <1>5, <2>1, <3>1
  <2>2. CASE y # b
    <3>1. indexs'[1].hash[y] = indexs[1].hash[y]
      BY <1>4, <2>2
    <3>2. LET s == indexs[1].hash[y]
          IN  s \in Live /\ heap[s].idx \in Visited /\ KeyOf(heap[s], C) = y
      BY <1>1, <1>7, <3>1, HeldFacts
    <3>3. Visited \subseteq Visited'
      BY <1>1
    <3> QED
      BY <1>3, <1>4, <1>5, <3>1, <3>2, <3>3
  <2> QED
    BY <2>1, <2>2
<1> HIDE DEF C, b, r
<1>8. DOMAIN indexs' = {1} /\ Len(indexs') = 1
  BY <1>4
<1> QED
  BY <1>6, <1>7, <1>8, SingleIndexSafe

LEMMA ScanNewerSafe ==
  ASSUME IndInv, pc = "scan", at <= Len(rows), at' = at + 1, rows[at] # Null,
         UNCHANGED column, ScanNewer(rows[at])
  PROVE  SafeInv'
<1> DEFINE r   == rows[at]
           row == heap[r]
           b   == KeyOf(row, indexs[1].cols)
           old == indexs[1].hash[b]
<1>1. /\ at \in DOMAIN rows /\ at \in Nat /\ Len(indexs) = 1 /\ pos = 1
      /\ Visited = 1..(at - 1) /\ Visited' = 1..at /\ at \notin Visited
      /\ \A i \in DOMAIN rows : rows[i] = r => i = at
      /\ \A y \in Hash : indexs[1].hash[y] # r
  BY ScanFacts DEF Visited
<1>2. r \in RowIds /\ r \notin freed /\ row \in RowType /\ Len(row.data) = Len(column)
      /\ b \in Hash
  BY <1>1, SlotFacts
<1>3. /\ old # Null /\ indexs' = Hashed(1, row, r)
      /\ rows' = [rows EXCEPT ![heap[old].idx] = r, ![at] = Null]
      /\ heap' = [heap EXCEPT ![r] = TakeSlot(row, old)]
      /\ freed' = freed \cup {old}
  BY <1>1 DEF ScanNewer, Holder, TakeSlot
<1> HIDE DEF b
<1>4. DOMAIN rows' = DOMAIN rows
      /\ \A i \in DOMAIN rows :
           rows'[i] = IF i = at THEN Null ELSE IF i = heap[old].idx THEN r ELSE rows[i]
  BY <1>1, <1>3
<1>5. heap'[r] = TakeSlot(row, old) /\ \A s \in RowIds \ {r} : heap'[s] = heap[s]
  BY <1>2, <1>3, StoreFacts DEF IndInv
<1>6. Visited \subseteq Visited' /\ Visited' \subseteq Visited \cup {at}
  BY <1>1
<1>7. b = KeyOf(row, indexs[1].cols) /\ r # Null
  BY DEF b
<1> HIDE DEF old, row, r
<1>8. old = indexs[1].hash[b] /\ old # Null /\ freed' = freed \cup {old}
      /\ indexs' = Hashed(1, row, r)
  BY <1>3 DEF old
<1>9. /\ Len(indexs) = 1 /\ at \in Nat /\ at \notin Visited
      /\ \A i \in DOMAIN rows : rows[i] = r => i = at
      /\ \A y \in Hash : indexs[1].hash[y] # r
  BY <1>1
<1> QED
  BY <1>2, <1>4, <1>5, <1>6, <1>7, <1>8, <1>9, TakeOver

LEMMA ScanRowSafe ==
  ASSUME IndInv, ScanRow
  PROVE  SafeInv'
<1>1. pc = "scan" /\ at <= Len(rows)
  BY DEF ScanRow
<1>2. CASE Fail
  BY <1>2, FailSafe
<1>3. CASE ~Fail
  <2>1. /\ at' = at + 1 /\ UNCHANGED <<column, covered>>
        /\ \/ ScanEmpty
           \/ /\ rows[at] # Null
              /\ ScanFirst(rows[at]) \/ ScanNewer(rows[at]) \/ ScanStale(rows[at])
    BY <1>3 DEF ScanRow, schema
  <2>2. CASE ScanEmpty
    BY <1>1, <2>1, <2>2, PassSafe DEF ScanEmpty, store
  <2>3. CASE rows[at] # Null /\ ScanFirst(rows[at])
    BY <1>1, <2>1, <2>3, ScanFirstSafe
  <2>4. CASE rows[at] # Null /\ ScanNewer(rows[at])
    BY <1>1, <2>1, <2>4, ScanNewerSafe
  <2>5. CASE rows[at] # Null /\ ScanStale(rows[at])
    BY <1>1, <2>1, <2>5, PassSafe DEF ScanStale
  <2> QED
    BY <2>1, <2>2, <2>3, <2>4, <2>5
<1> QED
  BY <1>2, <1>3

LEMMA InsertFacts ==
  ASSUME IndInv, pc = "call", OneIndex
  PROVE  /\ Len(indexs) = 1 /\ at = 0 /\ Visited = DOMAIN rows
         /\ NewId \notin RowIds /\ NewId # Null /\ NewId \notin freed /\ NewId \notin Live
         /\ \A i \in DOMAIN rows : rows[i] # NewId
         /\ \A y \in Hash : indexs[1].hash[y] # NewId
<1>1. Len(indexs) = 1 /\ at = 0 /\ Visited = DOMAIN rows
  BY DEF OneIndex, Visited, IndInv, TypeOK, CtlType
<1>2. NewId \notin RowIds /\ NewId # Null
  BY StoreFacts DEF NewId, IndInv
<1>3. NewId \notin freed /\ NewId \notin Live
  BY <1>2, StoreFacts DEF IndInv
<1>4. \A i \in DOMAIN rows : rows[i] # NewId
  BY <1>1, <1>2, SlotFacts
<1>5. \A y \in Hash : indexs[1].hash[y] # NewId
  BY <1>1, <1>2, HeldFacts
<1> QED
  BY <1>1, <1>2, <1>3, <1>4, <1>5

LEMMA InsertFirstSafe ==
  ASSUME IndInv, pc = "call", OneIndex, NEW row \in RowType, Len(row.data) = Len(column),
         InsertFirst(row), UNCHANGED <<column, at>>
  PROVE  SafeInv'
<1> DEFINE C == indexs[1].cols
           b == KeyOf(row, C)
           n == Len(rows) + 1
           new == [row EXCEPT !.idx = n]
<1>1. /\ Len(indexs) = 1 /\ at = 0 /\ Visited = DOMAIN rows /\ Len(rows) \in Nat
      /\ DOMAIN rows = 1..Len(rows)
      /\ NewId \notin RowIds /\ NewId # Null /\ NewId \notin freed
      /\ 1 \in DOMAIN indexs
  BY InsertFacts, IndexsFacts, StoreFacts DEF IndInv
<1>2. b \in Hash
  BY <1>1, HolderType DEF IndInv
<1>3. /\ indexs[1].hash[b] = Null /\ heap' = Append(heap, new)
      /\ rows' = Append(rows, NewId) /\ indexs' = Hashed(1, row, NewId) /\ freed' = freed
  BY DEF InsertFirst, Holder
<1>4. /\ Len(indexs') = 1 /\ DOMAIN indexs' = {1} /\ indexs'[1].cols = C
      /\ \A y \in Hash : indexs'[1].hash[y] = IF y = b THEN NewId ELSE indexs[1].hash[y]
  BY <1>1, <1>3, HashedSingle DEF IndInv
<1>5. new.idx = n /\ new.data = row.data
  BY DEF RowType
<1>6. KeyOf(new, C) = b
  BY <1>5, KeyKept
<1> HIDE DEF new
<1>7. heap'[NewId] = new /\ \A s \in RowIds : heap'[s] = heap[s]
  BY <1>3, StoreFacts, AppendProperties DEF NewId, IndInv
<1>8. /\ DOMAIN rows' = 1..n /\ rows'[n] = NewId /\ n \notin DOMAIN rows
      /\ \A i \in DOMAIN rows : i \in DOMAIN rows' /\ rows'[i] = rows[i]
      /\ \A i \in DOMAIN rows' : i = n \/ i \in DOMAIN rows
  BY <1>1, <1>3, StoreFacts, AppendProperties DEF IndInv
<1>9. Visited' = DOMAIN rows' /\ n \in DOMAIN rows'
  BY <1>1, <1>8 DEF Visited
<1>10. NewId \in Live' /\ Live \subseteq Live'
  BY <1>1, <1>8, <1>9 DEF Live, Range
<1> HIDE DEF C, b, n
<1>11. ASSUME NEW i \in DOMAIN rows', rows'[i] # Null
       PROVE  /\ rows'[i] \notin freed' /\ heap'[rows'[i]].idx = i
              /\ Len(heap'[rows'[i]].data) = Len(column')
              /\ i \in Visited' =>
                   indexs'[1].hash[KeyOf(heap'[rows'[i]], indexs'[1].cols)] = rows'[i]
  <2>1. CASE i = n
    <3>1. rows'[i] = NewId /\ heap'[NewId] = new /\ new.idx = i /\ NewId \notin freed'
      BY <1>1, <1>3, <1>5, <1>7, <1>8, <2>1
    <3>2. Len(new.data) = Len(column')
      BY <1>5
    <3>3. indexs'[1].hash[KeyOf(new, indexs'[1].cols)] = NewId
      BY <1>2, <1>4, <1>6
    <3> QED
      BY <3>1, <3>2, <3>3
  <2>2. CASE i \in DOMAIN rows
    <3>1. /\ rows[i] \in RowIds /\ rows[i] \notin freed /\ heap[rows[i]].idx = i
          /\ Len(heap[rows[i]].data) = Len(column)
          /\ KeyOf(heap[rows[i]], C) \in Hash
          /\ rows'[i] = rows[i] /\ rows[i] # Null
      BY <1>1, <1>8, <1>11, <2>2, SlotFacts DEF C
    <3>2. indexs[1].hash[KeyOf(heap[rows[i]], C)] = rows[i]
      BY <1>1, <2>2, <3>1 DEF IndInv, SafeInv, HashExact, Bucket, C
    <3>3. KeyOf(heap[rows[i]], C) # b
      BY <1>3, <3>1, <3>2
    <3> QED
      BY <1>3, <1>4, <1>7, <3>1, <3>2, <3>3
  <2> QED
    BY <1>8, <2>1, <2>2
<1>12. ASSUME NEW y \in Hash, indexs'[1].hash[y] # Null
       PROVE  LET s == indexs'[1].hash[y]
              IN  /\ s \in Live' /\ heap'[s].idx \in Visited'
                  /\ KeyOf(heap'[s], indexs'[1].cols) = y
  <2>1. CASE y = b
    BY <1>4, <1>5, <1>6, <1>7, <1>9, <1>10, <2>1
  <2>2. CASE y # b
    <3>1. indexs'[1].hash[y] = indexs[1].hash[y]
      BY <1>4, <2>2
    <3>2. LET s == indexs[1].hash[y]
          IN  /\ s \in Live /\ s \in RowIds /\ heap[s].idx \in DOMAIN rows
              /\ KeyOf(heap[s], C) = y
      BY <1>1, <1>12, <3>1, HeldFacts DEF C
    <3> QED
      BY <1>4, <1>7, <1>8, <1>9, <1>10, <3>1, <3>2
  <2> QED
    BY <2>1, <2>2
<1>13. DOMAIN indexs' = {1} /\ Len(indexs') = 1
  BY <1>4
<1> QED
  BY <1>11, <1>12, <1>13, SingleIndexSafe

LEMMA InsertNewerSafe ==
  ASSUME IndInv, pc = "call", OneIndex, NEW row \in RowType, Len(row.data) = Len(column),
         InsertNewer(row), UNCHANGED <<column, at>>
  PROVE  SafeInv'
<1> DEFINE b   == KeyOf(row, indexs[1].cols)
           old == indexs[1].hash[b]
<1>1. /\ Len(indexs) = 1 /\ at = 0 /\ Visited = DOMAIN rows /\ Len(rows) \in Nat
      /\ DOMAIN rows = 1..Len(rows)
      /\ NewId # Null /\ NewId \notin freed
      /\ \A i \in DOMAIN rows : rows[i] # NewId
      /\ \A y \in Hash : indexs[1].hash[y] # NewId
      /\ 1 \in 1..Len(indexs)
  BY InsertFacts, IndexsFacts, StoreFacts DEF IndInv
<1>2. b \in Hash
  BY <1>1, HolderType DEF IndInv
<1>3. /\ old # Null /\ heap' = Append(heap, TakeSlot(row, old))
      /\ rows' = [rows EXCEPT ![heap[old].idx] = NewId]
      /\ indexs' = Hashed(1, row, NewId) /\ freed' = freed \cup {old}
  BY DEF InsertNewer, Holder
<1> HIDE DEF b
<1>4. old \in RowIds
  BY <1>1, <1>2, <1>3, HeldFacts
<1>5. TakeSlot(row, old) \in RowType
  BY <1>4, StoreFacts, TakeSlotType DEF IndInv
<1>6. heap'[NewId] = TakeSlot(row, old) /\ \A s \in RowIds \ {NewId} : heap'[s] = heap[s]
  BY <1>3, <1>5, StoreFacts, AppendProperties DEF NewId, IndInv
<1>7. DOMAIN rows' = DOMAIN rows
      /\ \A i \in DOMAIN rows :
           rows'[i] = IF i = 0 THEN Null ELSE IF i = heap[old].idx THEN NewId ELSE rows[i]
  BY <1>1, <1>3
<1>8. Visited \subseteq Visited' /\ Visited' \subseteq Visited \cup {0} /\ 0 \notin Visited
  BY <1>1, <1>7 DEF Visited
<1>9. b = KeyOf(row, indexs[1].cols)
  BY DEF b
<1> HIDE DEF old
<1>10. old = indexs[1].hash[b] /\ old # Null /\ freed' = freed \cup {old}
       /\ indexs' = Hashed(1, row, NewId)
  BY <1>3 DEF old
<1>11. /\ Len(indexs) = 1 /\ NewId # Null /\ NewId \notin freed
       /\ \A i \in DOMAIN rows : rows[i] = NewId => i = 0
       /\ \A y \in Hash : indexs[1].hash[y] # NewId
  BY <1>1
<1> QED
  BY <1>2, <1>6, <1>7, <1>8, <1>9, <1>10, <1>11, TakeOver

LEMMA InsertStaleSafe ==
  ASSUME IndInv, pc = "call", OneIndex, NEW row \in RowType, InsertStale(row),
         covered' = covered \cup {NewId}, UNCHANGED <<column, at>>
  PROVE  SafeInv'
<1>1. /\ Len(indexs) = 1 /\ Visited = DOMAIN rows /\ DOMAIN indexs = {1}
  BY InsertFacts, IndexsFacts DEF IndInv
<1>2. heap' = Append(heap, row) /\ UNCHANGED <<rows, freed, indexs>>
  BY DEF InsertStale
<1>3. \A s \in RowIds : heap'[s] = heap[s]
  BY <1>2, StoreFacts, AppendProperties DEF IndInv
<1>4. Live' = Live /\ Visited' = Visited
  BY <1>2 DEF Live, Visited
<1>5. ASSUME NEW i \in DOMAIN rows', rows'[i] # Null
      PROVE  /\ rows'[i] \notin freed' /\ heap'[rows'[i]].idx = i
             /\ Len(heap'[rows'[i]].data) = Len(column')
             /\ i \in Visited' =>
                  indexs'[1].hash[KeyOf(heap'[rows'[i]], indexs'[1].cols)] = rows'[i]
  <2>1. /\ rows[i] \in RowIds /\ rows[i] \notin freed /\ heap[rows[i]].idx = i
        /\ Len(heap[rows[i]].data) = Len(column)
    BY <1>1, <1>2, <1>5, SlotFacts
  <2>2. i \in Visited => indexs[1].hash[KeyOf(heap[rows[i]], indexs[1].cols)] = rows[i]
    BY <1>1, <1>2, <1>5 DEF IndInv, SafeInv, HashExact, Bucket
  <2> QED
    BY <1>2, <1>3, <1>4, <2>1, <2>2
<1>6. ASSUME NEW y \in Hash, indexs'[1].hash[y] # Null
      PROVE  LET s == indexs'[1].hash[y]
             IN  /\ s \in Live' /\ heap'[s].idx \in Visited'
                 /\ KeyOf(heap'[s], indexs'[1].cols) = y
  BY <1>1, <1>2, <1>3, <1>4, <1>6, HeldFacts
<1>7. DOMAIN indexs' = {1} /\ Len(indexs') = 1
  BY <1>1, <1>2
<1> QED
  BY <1>5, <1>6, <1>7, SingleIndexSafe

LEMMA InsertRowSafe ==
  ASSUME IndInv, NEW s \in Source, NEW vals \in [InTable -> Value], InsertRow(s, vals)
  PROVE  SafeInv'
<1> DEFINE row == NewRow(s, vals)
<1>1. row \in RowType /\ Len(row.data) = Len(column)
  BY NewRowType DEF IndInv
<1> HIDE DEF row
<1>2. CASE Fail
  BY <1>2, FailSafe
<1>3. CASE ~Fail
  <2>1. /\ pc = "call" /\ OneIndex
        /\ InsertFirst(row) \/ InsertNewer(row) \/ InsertStale(row)
        /\ covered' = covered \cup {NewId}
        /\ UNCHANGED <<column, at>>
    BY <1>3 DEF InsertRow, schema, ctl, row
  <2> QED
    BY <1>1, <2>1, InsertFirstSafe, InsertNewerSafe, InsertStaleSafe
<1> QED
  BY <1>2, <1>3

-----------------------------------------------------------------------------
(* The temporary index.  That it is the whole row between two statements   *)
(* rests on what it is in the middle of a DROP COLUMN, when it has lost    *)
(* the column and the table has not, and on no column being twice in the   *)
(* table: RemoveAt takes out one position.                                 *)

ColumnsOnce == \A i, j \in DOMAIN colDes : colDes[i] = colDes[j] => i = j

(* The columns the temporary index must be over.                           *)
WholeRow ==
  IF dropping = 0 \/ (pc = "drop" /\ pos <= Len(indexs))
  THEN InTable \ {updCol}
  ELSE InTable \ {updCol, colDes[dropping]}

TempFits ==
  pc # "failed" =>
    \A k \in DOMAIN indexs : indexs[k].isTemp => Len(indexs) = 1 /\ indexs[k].cols = WholeRow

TempInv == ColumnsOnce /\ TempFits

LEMMA FailTemp == TempInv /\ Fail => TempInv'
BY DEF TempInv, ColumnsOnce, TempFits, Fail, schema

(* A step that builds the temporary index over the columns of the table.   *)
LEMMA TempBuilt ==
  ASSUME ColumnsOnce', NEW cd, NEW upd, colDes' = cd, updCol' = upd,
         indexs' = << TempIndex(cd, upd) >>, dropping' = 0
  PROVE  TempInv'
<1>1. /\ Len(indexs') = 1 /\ DOMAIN indexs' = {1} /\ indexs'[1] = TempIndex(cd, upd)
  OBVIOUS
<1>2. indexs'[1].cols = Range(cd) \ {upd}
  BY <1>1 DEF TempIndex
<1> QED
  BY <1>1, <1>2 DEF TempInv, TempFits, WholeRow, InTable

(* A step after which no index is temporary.                               *)
LEMMA NoTempLeft ==
  ASSUME ColumnsOnce', \A k \in DOMAIN indexs' : ~indexs'[k].isTemp
  PROVE  TempInv'
BY DEF TempInv, TempFits

LEMMA CreateTableTemp ==
  ASSUME IndInv, TempInv, NEW s, WellFormed(s), CreateTable(s)
  PROVE  TempInv'
<1> DEFINE all == [i \in DOMAIN s.cols |-> i]
           upd == UpdColOf(s.cols)
<1>1. CASE Fail
  BY <1>1, FailTemp
<1>2. CASE ~Fail
  <2>1. ColumnsOnce'
    BY <1>2 DEF CreateTable, ColumnsOnce
  <2> HIDE DEF all, upd
  <2>2. /\ colDes' = all /\ updCol' = upd /\ pc = "new" /\ Return
        /\ indexs' = IF s.keys = <<>>
                     THEN << TempIndex(all, upd) >>
                     ELSE [k \in DOMAIN s.keys |->
                            Index(s.keys[k].name, s.keys[k].isPrimary, s.keys[k].cols)]
    BY <1>2 DEF CreateTable, all, upd
  <2>3. CASE s.keys = <<>>
    <3>1. dropping' = 0
      BY <2>2 DEF Return, IndInv, TypeOK, CtlType
    <3> QED
      BY <2>1, <2>2, <2>3, <3>1, TempBuilt
  <2>4. CASE s.keys # <<>>
    BY <2>1, <2>2, <2>4, NoTempLeft DEF Index
  <2> QED
    BY <2>3, <2>4
<1> QED
  BY <1>1, <1>2

LEMMA AddColumnTemp ==
  ASSUME IndInv, TempInv, NEW c \in Column, NEW after \in DOMAIN colDes, AddColumn(c, after)
  PROVE  TempInv'
<1> DEFINE new   == Len(column) + 1
           order == InsertAt(colDes, after + 1, new)
           upd   == IF c.name = UpdName THEN new ELSE updCol
<1>1. CASE Fail
  BY <1>1, FailTemp
<1>2. CASE ~Fail
  <2>1. /\ pc = "call" /\ dropping = 0 /\ colDes' = order /\ updCol' = upd
        /\ IF HasTemp THEN indexs' = << TempIndex(order, upd) >> /\ dropping' = dropping
                      ELSE UNCHANGED indexs
    BY <1>2 DEF AddColumn, IndInv, TypeOK, CtlType
  <2>2. ColumnsOnce'
    <3> DEFINE S == 1..new
               i == after + 1
    <3>1. /\ colDes \in Seq(1..Len(column)) /\ Len(column) \in Nat
          /\ DOMAIN colDes = 1..Len(colDes) /\ Len(colDes) \in Nat
          /\ InTable \subseteq 1..Len(column)
      BY SchemaFacts DEF IndInv
    <3>2. /\ 1..Len(column) \subseteq S /\ new \in S /\ new \notin InTable
          /\ i \in 1..(Len(colDes) + 1)
      BY <3>1
    <3>3. colDes \in Seq(S)
      BY <3>1, <3>2, SeqMonotonic
    <3>4. \A j, k \in 1..Len(colDes) : colDes[j] = colDes[k] => j = k
      BY <3>1 DEF TempInv, ColumnsOnce
    <3>5. order = InsertAt(colDes, i, new) /\ new \notin Range(colDes)
      BY <3>2 DEF InTable
    <3> HIDE DEF S, i, new, order
    <3>6. \A j, k \in 1..Len(order) : order[j] = order[k] => j = k
      BY <3>2, <3>3, <3>4, <3>5, InsertAtOnce
    <3>7. order \in Seq(S)
      BY <3>2, <3>3, <3>5, InsertAtFacts
    <3>8. DOMAIN order = 1..Len(order)
      BY <3>7
    <3> QED
      BY <2>1, <3>6, <3>8 DEF ColumnsOnce
  <2> HIDE DEF order, upd
  <2>3. CASE HasTemp
    BY <2>1, <2>2, <2>3, TempBuilt
  <2>4. CASE ~HasTemp
    <3>1. \A k \in DOMAIN indexs : indexs[k].isTemp => k = 1 /\ indexs # <<>>
      BY <2>1, IndexsFacts DEF TempInv, TempFits, IndInv, TypeOK, CtlType
    <3> QED
      BY <2>1, <2>2, <2>4, <3>1, NoTempLeft DEF HasTemp
  <2> QED
    BY <2>3, <2>4
<1> QED
  BY <1>1, <1>2

LEMMA AddUniqueIndexTemp ==
  ASSUME TempInv, NEW key, AddUniqueIndex(key)
  PROVE  TempInv'
<1>1. Fail \/ \E nm, p, C : indexs' = <<Index(nm, p, C)>> /\ UNCHANGED colDes
  BY DEF AddUniqueIndex, schema
<1>2. ASSUME NEW nm, NEW p, NEW C, indexs' = <<Index(nm, p, C)>>, UNCHANGED colDes
      PROVE  TempInv'
  <2>1. DOMAIN indexs' = {1} /\ indexs'[1] = Index(nm, p, C)
    BY <1>2
  <2> QED
    BY <1>2, <2>1, NoTempLeft DEF Index, TempInv, ColumnsOnce
<1> QED
  BY <1>1, <1>2, FailTemp

LEMMA DropUniqueIndexTemp ==
  ASSUME IndInv, TempInv, NEW p, NEW nm, DropUniqueIndex(p, nm)
  PROVE  TempInv'
<1>1. /\ pc = "call" /\ dropping = 0
      /\ \E k \in DOMAIN indexs :
          \/ /\ Len(indexs) > 1
             /\ indexs' = RemoveAt(indexs, k)
             /\ UNCHANGED <<schema, store, stamp, ctl, covered>>
          \/ /\ indexs' = << TempIndex(colDes, updCol) >>
             /\ UNCHANGED <<schema, dropping>>
          \/ Fail
  BY DEF DropUniqueIndex, IndInv, TypeOK, CtlType
<1>2. ASSUME NEW k \in DOMAIN indexs, Len(indexs) > 1, indexs' = RemoveAt(indexs, k),
             UNCHANGED schema
      PROVE  TempInv'
  <2> DEFINE T == IndexType(Len(column), Len(heap))
  <2>1. indexs \in Seq(T) /\ k \in 1..Len(indexs) /\ Len(indexs) \in Nat
        /\ DOMAIN indexs = 1..Len(indexs)
    BY IndexsFacts DEF IndInv
  <2> HIDE DEF T
  <2>2. /\ indexs' \in Seq(T) /\ Len(indexs') = Len(indexs) - 1
        /\ \A j \in 1..(Len(indexs) - 1) :
             indexs'[j] = IF j < k THEN indexs[j] ELSE indexs[j + 1]
    BY <1>2, <2>1, RemoveAtFacts
  <2>3. \A j \in DOMAIN indexs : ~indexs[j].isTemp
    BY <1>1, <1>2, <2>1 DEF TempInv, TempFits
  <2>4. ASSUME NEW j \in DOMAIN indexs' PROVE ~indexs'[j].isTemp
    <3>1. j \in 1..(Len(indexs) - 1) /\ j \in DOMAIN indexs /\ j + 1 \in DOMAIN indexs
      BY <2>1, <2>2
    <3> QED
      BY <2>2, <2>3, <3>1
  <2>5. ColumnsOnce'
    BY <1>2 DEF TempInv, ColumnsOnce, schema
  <2> QED
    BY <2>4, <2>5, NoTempLeft
<1>3. ASSUME indexs' = << TempIndex(colDes, updCol) >>, UNCHANGED <<schema, dropping>>
      PROVE  TempInv'
  BY <1>1, <1>3, TempBuilt DEF TempInv, ColumnsOnce, schema
<1> QED
  BY <1>1, <1>2, <1>3, FailTemp

(* A step that keeps the indexes but for what their hashes hold, and the   *)
(* place the call has reached.                                             *)
LEMMA TempKept ==
  ASSUME TempInv, pc # "failed", UNCHANGED <<colDes, updCol>>,
         DOMAIN indexs' = DOMAIN indexs, Len(indexs') = Len(indexs),
         \A k \in DOMAIN indexs : /\ indexs'[k].isTemp = indexs[k].isTemp
                                  /\ indexs'[k].cols = indexs[k].cols,
         WholeRow' = WholeRow
  PROVE  TempInv'
BY DEF TempInv, ColumnsOnce, TempFits

LEMMA HashedTemp ==
  ASSUME TypeOK, NEW j \in 1..Len(indexs), NEW row, NEW r, indexs' = Hashed(j, row, r)
  PROVE  /\ DOMAIN indexs' = DOMAIN indexs /\ Len(indexs') = Len(indexs)
         /\ \A k \in DOMAIN indexs : /\ indexs'[k].isTemp = indexs[k].isTemp
                                     /\ indexs'[k].cols = indexs[k].cols
<1> DEFINE b == KeyOf(row, indexs[j].cols)
           T == IndexType(Len(column), Len(heap))
<1>1. /\ indexs \in Seq(T) /\ \A k \in DOMAIN indexs : indexs[k] \in T
      /\ indexs[j] \in IndexType(Len(column), Len(heap))
  BY IndexsFacts
<1>2. indexs' = [indexs EXCEPT ![j] = [indexs[j] EXCEPT !.hash[b] = r]]
  BY <1>1 DEF Hashed
<1>3. /\ [indexs[j] EXCEPT !.hash[b] = r].cols = indexs[j].cols
      /\ [indexs[j] EXCEPT !.hash[b] = r].isTemp = indexs[j].isTemp
  BY <1>1 DEF IndexType
<1> HIDE DEF b, T
<1>4. DOMAIN indexs' = DOMAIN indexs /\ Len(indexs') = Len(indexs)
  BY <1>1, <1>2, LenProperties
<1> QED
  BY <1>1, <1>2, <1>3, <1>4

LEMMA DropColumnTemp ==
  ASSUME IndInv, TempInv, NEW i \in DOMAIN colDes, DropColumn(i)
  PROVE  TempInv'
<1>1. /\ pc = "call" /\ pc' = "drop" /\ pos' = 1 /\ dropping = 0
      /\ UNCHANGED <<colDes, updCol, indexs>>
  BY DEF DropColumn, schema, IndInv, TypeOK, CtlType
<1>2. ColumnsOnce' /\ InTable' = InTable
  BY <1>1 DEF TempInv, ColumnsOnce, InTable
<1>3. ASSUME NEW k \in DOMAIN indexs, indexs[k].isTemp
      PROVE  Len(indexs) = 1 /\ indexs[k].cols = WholeRow'
  <2>1. Len(indexs) = 1 /\ indexs[k].cols = InTable \ {updCol}
    BY <1>1, <1>3 DEF TempInv, TempFits, WholeRow
  <2>2. WholeRow' = InTable \ {updCol}
    BY <1>1, <1>2, <2>1 DEF WholeRow
  <2> QED
    BY <2>1, <2>2
<1> QED
  BY <1>1, <1>2, <1>3 DEF TempInv, TempFits

(* Past the temporary index, the column is out of it.                      *)
LEMMA SweepTemp ==
  ASSUME IndInv, TempInv, pc \in {"drop", "scan"}, dropping # 0, pos \in 1..Len(indexs), Sweep,
         pc' = "drop", UNCHANGED <<colDes, updCol, dropping>>,
         pc = "drop" => colDes[dropping] \notin indexs[pos].cols
  PROVE  TempInv'
<1> DEFINE T == IndexType(Len(column), Len(heap))
<1>1. indexs \in Seq(T) /\ Len(indexs) \in Nat /\ DOMAIN indexs = 1..Len(indexs)
  BY IndexsFacts DEF IndInv
<1> HIDE DEF T
<1>2. ColumnsOnce' /\ InTable' = InTable
  BY DEF TempInv, ColumnsOnce, InTable
<1>3. CASE indexs[pos].cols = {}
  <2>1. indexs' = RemoveAt(indexs, pos)
    BY <1>3 DEF Sweep
  <2>2. /\ indexs' \in Seq(T) /\ Len(indexs') = Len(indexs) - 1
        /\ \A j \in 1..(Len(indexs) - 1) :
             indexs'[j] = IF j < pos THEN indexs[j] ELSE indexs[j + 1]
    BY <1>1, <2>1, RemoveAtFacts
  <2>3. ASSUME NEW j \in DOMAIN indexs' PROVE ~indexs'[j].isTemp
    <3>1. j \in 1..(Len(indexs) - 1) /\ j \in DOMAIN indexs /\ j + 1 \in DOMAIN indexs
          /\ Len(indexs) # 1
      BY <1>1, <2>2
    <3>2. \A k \in DOMAIN indexs : ~indexs[k].isTemp
      BY <3>1 DEF TempInv, TempFits
    <3> QED
      BY <2>2, <3>1, <3>2
  <2> QED
    BY <1>2, <2>3, NoTempLeft
<1>4. CASE indexs[pos].cols # {}
  <2>1. indexs' = indexs /\ pos' = pos + 1
    BY <1>4 DEF Sweep
  <2>2. ASSUME NEW k \in DOMAIN indexs, indexs[k].isTemp
        PROVE  Len(indexs) = 1 /\ indexs[k].cols = InTable \ {updCol, colDes[dropping]}
               /\ pos = 1
    <3>1. Len(indexs) = 1 /\ indexs[k].cols = WholeRow /\ k = 1 /\ pos = 1
      BY <1>1, <2>2 DEF TempInv, TempFits
    <3>2. CASE pc = "drop"
      BY <3>1, <3>2 DEF WholeRow
    <3>3. CASE pc = "scan"
      BY <3>1, <3>3 DEF WholeRow
    <3> QED
      BY <3>1, <3>2, <3>3
  <2>3. (\E k \in DOMAIN indexs : indexs[k].isTemp) =>
          WholeRow' = InTable \ {updCol, colDes[dropping]}
    <3> SUFFICES ASSUME NEW k \in DOMAIN indexs, indexs[k].isTemp
                 PROVE  WholeRow' = InTable \ {updCol, colDes[dropping]}
      OBVIOUS
    <3>1. ~(pos' <= Len(indexs')) /\ dropping' # 0
      BY <2>1, <2>2, SMTT(30)
    <3> QED
      BY <1>2, <3>1 DEF WholeRow
  <2> QED
    BY <1>2, <2>1, <2>2, <2>3 DEF TempInv, TempFits
<1> QED
  BY <1>3, <1>4

LEMMA DropFromIndexTemp ==
  ASSUME IndInv, TempInv, DropFromIndex
  PROVE  TempInv'
<1> DEFINE c == colDes[dropping]
<1>1. /\ pos \in 1..Len(indexs) /\ Len(indexs) \in Nat /\ DOMAIN indexs = 1..Len(indexs)
      /\ pc = "drop" /\ dropping # 0 /\ pos <= Len(indexs)
      /\ indexs[pos] \in IndexType(Len(column), Len(heap))
  BY IndexsFacts DEF IndInv, DropFromIndex, TypeOK, CtlType
<1>2. CASE c \in indexs[pos].cols
  <2>1. /\ indexs' = [indexs EXCEPT ![pos] = ReKeyed(indexs[pos], indexs[pos].cols \ {c})]
        /\ pc' = "scan" /\ UNCHANGED <<colDes, updCol, dropping>>
    BY <1>1, <1>2 DEF DropFromIndex, Scan, schema
  <2>2. ColumnsOnce' /\ InTable' = InTable
    BY <2>1 DEF TempInv, ColumnsOnce, InTable
  <2>3. DOMAIN indexs' = DOMAIN indexs /\ Len(indexs') = Len(indexs)
    <3>1. DOMAIN indexs' = 1..Len(indexs)
      BY <1>1, <2>1
    <3> QED
      BY <1>1, <2>1, <3>1
  <2>4. ASSUME NEW k \in DOMAIN indexs', indexs'[k].isTemp
        PROVE  Len(indexs') = 1 /\ indexs'[k].cols = InTable \ {updCol, c}
    <3>1. indexs[k].isTemp
      <4>1. CASE k = pos
        BY <1>1, <2>1, <2>4, <4>1 DEF ReKeyed, IndexType
      <4>2. CASE k # pos
        BY <1>1, <2>1, <2>3, <2>4, <4>2
      <4> QED
        BY <4>1, <4>2
    <3>2. Len(indexs) = 1 /\ indexs[k].cols = InTable \ {updCol} /\ k = pos
      BY <1>1, <2>3, <3>1 DEF TempInv, TempFits, WholeRow
    <3>3. indexs'[k].cols = indexs[k].cols \ {c}
      BY <1>1, <2>1, <3>2 DEF ReKeyed, IndexType
    <3> QED
      BY <2>3, <3>2, <3>3
  <2>5. WholeRow' = InTable \ {updCol, c}
    BY <1>1, <2>1, <2>2 DEF WholeRow
  <2> QED
    BY <2>2, <2>4, <2>5 DEF TempInv, TempFits
<1>3. CASE c \notin indexs[pos].cols
  <2>1. Sweep /\ pc' = "drop" /\ UNCHANGED <<colDes, updCol, dropping>>
    BY <1>1, <1>3 DEF DropFromIndex, schema
  <2> QED
    BY <1>1, <1>3, <2>1, SweepTemp
<1> QED
  BY <1>2, <1>3

LEMMA DropFinishTemp ==
  ASSUME IndInv, TempInv, DropFinish
  PROVE  TempInv'
<1> DEFINE order == RemoveAt(colDes, dropping)
           S == 1..Len(column)
<1>1. /\ pc = "drop" /\ pos > Len(indexs) /\ dropping # 0 /\ dropping \in 1..Len(colDes)
      /\ colDes \in Seq(S) /\ DOMAIN colDes = 1..Len(colDes)
      /\ pos \in Nat /\ Len(indexs) \in Nat
  BY SchemaFacts, StoreFacts, IndexsFacts DEF DropFinish, IndInv, TypeOK, CtlType
<1>2. /\ order \in Seq(S)
      /\ \A j, k \in 1..Len(order) : order[j] = order[k] => j = k
      /\ Range(order) = InTable \ {colDes[dropping]}
  <2>1. \A j, k \in 1..Len(colDes) : colDes[j] = colDes[k] => j = k
    BY <1>1 DEF TempInv, ColumnsOnce
  <2> HIDE DEF S
  <2>2. order \in Seq(S)
    BY <1>1, RemoveAtFacts
  <2>3. /\ \A j, k \in 1..Len(order) : order[j] = order[k] => j = k
        /\ Range(order) = Range(colDes) \ {colDes[dropping]}
    BY <1>1, <2>1, RemoveAtOnce
  <2> QED
    BY <2>2, <2>3 DEF InTable
<1>3. DOMAIN order = 1..Len(order)
  BY <1>2
<1> HIDE DEF order, S
<1>4. CASE Fail
  BY <1>4, FailTemp
<1>5. CASE ~Fail
  <2>1. /\ colDes' = order /\ dropping' = 0 /\ updCol' = updCol
        /\ indexs' = indexs \/ indexs' = << TempIndex(order, updCol) >>
    BY <1>5 DEF DropFinish, order
  <2>2. ColumnsOnce'
    BY <1>2, <1>3, <2>1 DEF ColumnsOnce
  <2>3. CASE indexs' = indexs
    <3>1. WholeRow = InTable \ {updCol, colDes[dropping]}
      BY <1>1 DEF WholeRow
    <3>2. WholeRow' = Range(order) \ {updCol}
      BY <2>1 DEF WholeRow, InTable
    <3>3. WholeRow' = WholeRow
      BY <1>2, <3>1, <3>2
    <3> QED
      BY <1>1, <2>2, <2>3, <3>3 DEF TempInv, TempFits
  <2>4. CASE indexs' = << TempIndex(order, updCol) >>
    BY <2>1, <2>2, <2>4, TempBuilt
  <2> QED
    BY <2>1, <2>3, <2>4
<1> QED
  BY <1>4, <1>5

LEMMA ScanRowTemp ==
  ASSUME IndInv, TempInv, ScanRow
  PROVE  TempInv'
<1>1. CASE Fail
  BY <1>1, FailTemp
<1>2. CASE ~Fail
  <2>1. /\ pc = "scan" /\ UNCHANGED <<colDes, updCol, pc, pos, dropping>>
        /\ indexs' = indexs \/ indexs' = Hashed(pos, heap[rows[at]], rows[at])
        /\ pos \in 1..Len(indexs)
    BY <1>2, IndexsFacts DEF ScanRow, ScanEmpty, ScanFirst, ScanNewer, ScanStale, schema,
                             IndInv, TypeOK, CtlType
  <2>2. /\ DOMAIN indexs' = DOMAIN indexs /\ Len(indexs') = Len(indexs)
        /\ \A k \in DOMAIN indexs : /\ indexs'[k].isTemp = indexs[k].isTemp
                                    /\ indexs'[k].cols = indexs[k].cols
    BY <2>1, HashedTemp DEF IndInv
  <2>3. WholeRow' = WholeRow
    BY <2>1 DEF WholeRow, InTable
  <2> QED
    BY <2>1, <2>2, <2>3, TempKept
<1> QED
  BY <1>1, <1>2

LEMMA ScanDoneTemp ==
  ASSUME IndInv, TempInv, ScanDone
  PROVE  TempInv'
<1>1. pc = "scan" /\ pos \in 1..Len(indexs) /\ UNCHANGED <<colDes, updCol, dropping>>
  BY IndexsFacts DEF ScanDone, schema, IndInv, TypeOK, CtlType
<1>2. CASE dropping = 0 /\ UNCHANGED indexs
  <2>1. WholeRow' = WholeRow
    BY <1>1, <1>2 DEF WholeRow, InTable
  <2> QED
    BY <1>1, <1>2, <2>1, TempKept
<1>3. CASE dropping # 0 /\ pc' = "drop" /\ Sweep
  BY <1>1, <1>3, SweepTemp
<1> QED
  BY <1>2, <1>3 DEF ScanDone

LEMMA InsertRowTemp ==
  ASSUME IndInv, TempInv, NEW s \in Source, NEW vals \in [InTable -> Value], InsertRow(s, vals)
  PROVE  TempInv'
<1>1. CASE Fail
  BY <1>1, FailTemp
<1>2. CASE ~Fail
  <2> DEFINE row == NewRow(s, vals)
  <2>1. /\ pc = "call" /\ Len(indexs) = 1 /\ UNCHANGED <<schema, ctl>>
        /\ InsertFirst(row) \/ InsertNewer(row) \/ InsertStale(row)
    BY <1>2 DEF InsertRow, OneIndex
  <2> HIDE DEF row
  <2>2. indexs' = indexs \/ indexs' = Hashed(1, row, NewId)
    BY <2>1 DEF InsertFirst, InsertNewer, InsertStale
  <2>3. dropping = 0 /\ dropping' = 0 /\ 1 \in 1..Len(indexs)
    BY <2>1 DEF ctl, IndInv, TypeOK, CtlType
  <2>4. /\ DOMAIN indexs' = DOMAIN indexs /\ Len(indexs') = Len(indexs)
        /\ \A k \in DOMAIN indexs : /\ indexs'[k].isTemp = indexs[k].isTemp
                                    /\ indexs'[k].cols = indexs[k].cols
    BY <2>2, <2>3, HashedTemp DEF IndInv
  <2>5. WholeRow' = WholeRow
    BY <2>1, <2>3 DEF WholeRow, InTable, schema
  <2> QED
    BY <2>1, <2>4, <2>5, TempKept DEF schema
<1> QED
  BY <1>1, <1>2

LEMMA NextKeepsTemp == IndInv /\ TempInv /\ [Next]_vars => TempInv'
<1> SUFFICES ASSUME IndInv, TempInv, [Next]_vars
             PROVE  TempInv'
  OBVIOUS
<1>1. CASE \E s \in Creates : CreateTable(s)
  BY <1>1, CreatesAssumption, CreateTableTemp DEF CreatesAssumption
<1>2. CASE Alter
  <2>1. CASE \E c \in Column, after \in DOMAIN colDes : AddColumn(c, after)
    BY <2>1, AddColumnTemp
  <2>2. CASE \E c \in Column, i \in DOMAIN colDes : ChangeColumn(i, c)
    <3>1. pc # "failed" /\ UNCHANGED <<colDes, updCol, indexs, pc, pos, dropping>>
      BY <2>2 DEF ChangeColumn, ctl
    <3>2. WholeRow' = WholeRow
      BY <3>1 DEF WholeRow, InTable
    <3> QED
      BY <3>1, <3>2, TempKept
  <2>3. CASE \E i \in DOMAIN colDes : DropColumn(i)
    BY <2>3, DropColumnTemp
  <2>4. CASE \E key \in AddedKeys : AddUniqueIndex(key)
    BY <2>4, AddUniqueIndexTemp
  <2>5. CASE \E p \in BOOLEAN, nm \in KeyName \cup {""} : DropUniqueIndex(p, nm)
    BY <2>5, DropUniqueIndexTemp
  <2> QED
    BY <1>2, <2>1, <2>2, <2>3, <2>4, <2>5 DEF Alter
<1>3. CASE Recompute
  BY <1>3, DropFromIndexTemp, DropFinishTemp, ScanRowTemp, ScanDoneTemp DEF Recompute
<1>4. CASE Insert
  BY <1>4, InsertRowTemp, FailTemp DEF Insert, InsertRefused
<1>5. CASE UNCHANGED vars
  BY <1>5 DEF vars, schema, ctl, TempInv, ColumnsOnce, TempFits, WholeRow, InTable
<1> QED
  BY <1>1, <1>2, <1>3, <1>4, <1>5 DEF Next

-----------------------------------------------------------------------------
(* The theorems.                                                           *)

(* Memory safety and type correctness are preserved by every step.         *)
LEMMA NextKeepsIndInv == IndInv /\ [Next]_vars => IndInv'
<1> SUFFICES ASSUME IndInv, [Next]_vars
             PROVE  IndInv'
  OBVIOUS
<1>0. TypeOK /\ SafeInv /\ \A r \in Live : Len(heap[r].data) = Len(column)
  BY DEF IndInv, SafeInv, DataAligned
<1>1. CASE \E s \in Creates : CreateTable(s)
  BY <1>0, <1>1, CreatesAssumption, CreateTableType, CreateTableSafe DEF CreatesAssumption, IndInv
<1>2. CASE Alter
  <2>1. CASE \E c \in Column, after \in DOMAIN colDes : AddColumn(c, after)
    BY <1>0, <2>1, AddColumnType, AddColumnSafe DEF IndInv
  <2>2. CASE \E c \in Column, i \in DOMAIN colDes : ChangeColumn(i, c)
    BY <1>0, <2>2, ChangeColumnType, ChangeColumnSafe DEF IndInv
  <2>3. CASE \E i \in DOMAIN colDes : DropColumn(i)
    BY <1>0, <2>3, DropColumnType, DropColumnSafe DEF IndInv
  <2>4. CASE \E key \in AddedKeys : AddUniqueIndex(key)
    BY <1>0, <2>4, ConstAssumption, AddUniqueIndexType, AddUniqueIndexSafe
       DEF ConstAssumption, IndInv
  <2>5. CASE \E p \in BOOLEAN, nm \in KeyName \cup {""} : DropUniqueIndex(p, nm)
    BY <1>0, <2>5, DropUniqueIndexType, DropUniqueIndexSafe DEF IndInv
  <2> QED
    BY <1>2, <2>1, <2>2, <2>3, <2>4, <2>5 DEF Alter
<1>3. CASE Recompute
  <2>1. CASE DropFromIndex
    BY <1>0, <2>1, DropFromIndexType, DropFromIndexSafe DEF IndInv
  <2>2. CASE DropFinish
    BY <1>0, <2>2, DropFinishType, DropFinishSafe DEF IndInv
  <2>3. CASE ScanRow
    BY <1>0, <2>3, ScanRowType, ScanRowSafe DEF IndInv
  <2>4. CASE ScanDone
    BY <1>0, <2>4, ScanDoneType, ScanDoneSafe DEF IndInv
  <2> QED
    BY <1>3, <2>1, <2>2, <2>3, <2>4 DEF Recompute
<1>4. CASE Insert
  <2>1. CASE \E s \in Source, vals \in [InTable -> Value] : InsertRow(s, vals)
    BY <1>0, <2>1, InsertRowType, InsertRowSafe DEF IndInv
  <2>2. CASE InsertRefused
    BY <1>0, <2>2, FailType, FailSafe DEF IndInv, InsertRefused
  <2> QED
    BY <1>4, <2>1, <2>2 DEF Insert
<1>5. CASE UNCHANGED vars
  <2>1. UNCHANGED <<schema, store, indexs, stamp, ctl, covered>>
    BY <1>5 DEF vars
  <2>2. TypeOK'
    BY <1>0, <2>1 DEF TypeOK, SchemaType, StoreType, IndexsType, CtlType, Columns, RowIds,
                      schema, store, ctl
  <2>3. SafeInv'
    BY <2>1, KeptSafe DEF schema, ctl
  <2> QED
    BY <2>2, <2>3 DEF IndInv
<1> QED
  BY <1>1, <1>2, <1>3, <1>4, <1>5 DEF Next

LEMMA SpecKeepsIndInv == Spec => []IndInv
<1>1. Init => IndInv
  BY InitType, InitSafe DEF IndInv
<1> QED
  BY <1>1, NextKeepsIndInv, PTL DEF Spec

(* Every variable of the table always has its type, and the phase of the   *)
(* call in progress agrees with the positions it keeps.                    *)
THEOREM TypeCorrect == Spec => []TypeOK
<1>1. IndInv => TypeOK
  BY DEF IndInv
<1> QED
  BY <1>1, SpecKeepsIndInv, PTL

(* No call uses a row after it was deleted, and doRowReplace overwrites    *)
(* the slot of the row that loses and no other.                            *)
THEOREM NoUseAfterDelete == Spec => []SlotsExact
<1>1. IndInv => SlotsExact
  BY DEF IndInv, SafeInv
<1> QED
  BY <1>1, SpecKeepsIndInv, PTL

(* The index and the slots agree after every call and at every row that    *)
(* reCompute visits: no two rows of the table share a key.                 *)
THEOREM OneRowPerKey == Spec => []HashExact
<1>1. IndInv => HashExact
  BY DEF IndInv, SafeInv
<1> QED
  BY <1>1, SpecKeepsIndInv, PTL

(* Every row of the table has a datum for every physical column.           *)
THEOREM RowsCoverTheColumns == Spec => []DataAligned
<1>1. IndInv => DataAligned
  BY DEF IndInv, SafeInv
<1> QED
  BY <1>1, SpecKeepsIndInv, PTL

(* A table with several unique keys never holds a row.                     *)
THEOREM SeveralKeysHoldNoRow == Spec => []OneIndexWithRows
<1>1. IndInv => OneIndexWithRows
  BY DEF IndInv, SafeInv
<1> QED
  BY <1>1, SpecKeepsIndInv, PTL

(* The temporary index is over every column but updated_at between any two *)
(* statements, and while reCompute runs, whatever columns came and went.   *)
THEOREM TempCoversTheRow == Spec => []TempIsWholeRow
<1>1. Init => IndInv /\ TempInv
  BY InitType, InitSafe, EmptySeq DEF IndInv, Init, TempInv, ColumnsOnce, TempFits
<1>2. IndInv /\ TempInv /\ [Next]_vars => (IndInv /\ TempInv)'
  BY NextKeepsIndInv, NextKeepsTemp
<1>3. TempInv => TempIsWholeRow
  BY DEF TempInv, TempFits, TempIsWholeRow, WholeRow
<1> QED
  BY <1>1, <1>2, <1>3, PTL DEF Spec

-----------------------------------------------------------------------------
(* Last write wins: no row is lost but to a newer one of its key           *)
(* (NewestSurvives), and UniqueTable implements LastWriteWins.             *)

(* NewestSurvives is not inductive: a row that loses is only outlived by   *)
(* the winner if the winner beats whatever it had beaten, which takes      *)
(* dates inside the data of every row, and two rows of a source that are   *)
(* told apart by their stamps.                                             *)

(* Rows of one source have stamps in the order they were read, all of them *)
(* used.                                                                   *)
StampsRise ==
  /\ \A r \in RowIds : heap[r].stamp < stamp[heap[r].source]
  /\ \A r, s \in RowIds :
       r < s /\ heap[r].source = heap[s].source => heap[r].stamp < heap[s].stamp

(* Every row that was offered has a date.                                  *)
Dated == \A r \in covered : updCol # Null => updCol <= Len(heap[r].data)

LiveCovered == Live \subseteq covered

(* No two rows of the table have one key.                                  *)
Apart == \A r, s \in Live : Bucket(r, KeyCols) = Bucket(s, KeyCols) => r = s

(* This is what HashExact says of a table with an index; DropFinish meets  *)
(* one without.                                                            *)
KeysApart == at = 0 => Apart

OrderInv == StampsRise /\ Dated /\ LiveCovered /\ KeysApart /\ NewestSurvives

-----------------------------------------------------------------------------
(* Supersedes orders the versions, and two that come from different rows   *)
(* of the logs are never equal.                                            *)

LEMMA VersionType ==
  ASSUME NEW row \in RowType, NEW u \in Nat, u # Null => u <= Len(row.data)
  PROVE  [upd |-> IF u = Null THEN Blank ELSE row.data[u],
          source |-> row.source, stamp |-> row.stamp] \in Version
<1>1. row.data \in Seq(Value) /\ row.source \in Nat /\ row.stamp \in Nat
  BY Constants DEF RowType
<1>2. (IF u = Null THEN Blank ELSE row.data[u]) \in Nat
  <2>1. CASE u = Null
    BY <2>1, Constants
  <2>2. CASE u # Null
    <3>1. u \in 1..Len(row.data)
      BY <1>1, <2>2
    <3>2. row.data[u] \in Value
      BY <1>1, <3>1
    <3> QED
      BY <2>2, <3>2, Constants
  <2> QED
    BY <2>1, <2>2
<1> QED
  BY <1>1, <1>2 DEF Version

LEMMA SupersedesTransitive ==
  ASSUME NEW a \in Version, NEW b \in Version, NEW c \in Version,
         Supersedes(a, b), Supersedes(b, c)
  PROVE  Supersedes(a, c)
BY DEF Version, Supersedes

LEMMA SupersedesTotal ==
  ASSUME NEW a \in Version, NEW b \in Version, ~Supersedes(a, b),
         a.source # b.source \/ a.stamp # b.stamp
  PROVE  Supersedes(b, a)
BY DEF Version, Supersedes

LEMMA SupersedesAsymmetric ==
  ASSUME NEW a \in Version, NEW b \in Version, Supersedes(a, b)
  PROVE  ~Supersedes(b, a)
BY DEF Version, Supersedes

-----------------------------------------------------------------------------
(* What the invariants give, ready to cite (and to prime).                 *)

LEMMA CoveredVersions ==
  IndInv /\ Dated => \A r \in covered : VersionOf(heap[r]) \in Version
<1> SUFFICES ASSUME IndInv, Dated, NEW r \in covered
             PROVE  VersionOf(heap[r]) \in Version
  OBVIOUS
<1>1. heap[r] \in RowType /\ updCol \in Nat
  BY SchemaFacts, StoreFacts DEF IndInv
<1>2. updCol # Null => updCol <= Len(heap[r].data)
  BY DEF Dated
<1> QED
  BY <1>1, <1>2, VersionType DEF VersionOf

(* A table that holds a row has at most one index.                         *)
LEMMA RowsMeanOneIndex ==
  ASSUME IndInv, indexs # <<>>, Live # {} \/ covered # {}
  PROVE  Len(indexs) = 1 /\ 1 \in DOMAIN indexs /\ KeyCols = indexs[1].cols
<1>1. Len(indexs) \in Nat /\ DOMAIN indexs = 1..Len(indexs) /\ Len(indexs) # 0
  BY IndexsFacts, EmptySeq DEF IndInv
<1>2. rows = <<>> => Live = {}
  BY EmptySeq DEF Live, Range
<1>3. ~(Len(indexs) > 1)
  BY <1>2 DEF IndInv, SafeInv, OneIndexWithRows
<1>4. Len(indexs) = 1
  BY <1>1, <1>3
<1> QED
  BY <1>1, <1>4 DEF KeyCols

LEMMA HashApart ==
  IndInv /\ indexs # <<>> /\ DOMAIN rows \subseteq Visited => Apart
<1> SUFFICES ASSUME IndInv, indexs # <<>>, DOMAIN rows \subseteq Visited,
                    NEW r \in Live, NEW s \in Live, Bucket(r, KeyCols) = Bucket(s, KeyCols)
             PROVE  r = s
  BY DEF Apart
<1>1. 1 \in DOMAIN indexs /\ KeyCols = indexs[1].cols
  BY RowsMeanOneIndex
<1>2. ASSUME NEW x \in Live
      PROVE  indexs[1].hash[Bucket(x, KeyCols)] = x
  <2>1. PICK i \in DOMAIN rows : rows[i] = x /\ rows[i] # Null
    BY DEF Live, Range
  <2> QED
    BY <1>1, <2>1 DEF IndInv, SafeInv, HashExact
<1> QED
  BY <1>2

LEMMA IndexedApart == IndInv /\ indexs # <<>> /\ at = 0 => Apart
<1>1. at = 0 => DOMAIN rows \subseteq Visited
  BY DEF Visited
<1> QED
  BY <1>1, HashApart

-----------------------------------------------------------------------------
(* How a step keeps the order.                                             *)

(* Every row that leaves the table leaves it to a newer one of its key,    *)
(* and every row that is offered stays or meets such a row.                *)
LEMMA Outlived ==
  ASSUME NewestSurvives, Live \subseteq covered, Live' \subseteq covered', covered \subseteq covered',
         \A r \in covered' : VersionOf(heap[r])' \in Version,
         \A r \in covered : /\ Bucket(r, KeyCols)' = Bucket(r, KeyCols)
                            /\ VersionOf(heap[r])' = VersionOf(heap[r]),
         \A s \in Live \ Live' : \E w \in Live' :
           Bucket(w, KeyCols)' = Bucket(s, KeyCols)' /\ Beats(w, s)',
         \A r \in covered' \ covered : \E s \in Live' :
           Bucket(s, KeyCols)' = Bucket(r, KeyCols)' /\ (s = r \/ Beats(s, r)')
  PROVE  NewestSurvives'
<1> SUFFICES ASSUME NEW r \in covered
             PROVE  \E s \in Live' :
                      Bucket(s, KeyCols)' = Bucket(r, KeyCols)' /\ (s = r \/ Beats(s, r)')
  BY DEF NewestSurvives
<1>1. PICK s \in Live : Bucket(s, KeyCols) = Bucket(r, KeyCols) /\ (s = r \/ Beats(s, r))
  BY DEF NewestSurvives
<1>2. Bucket(s, KeyCols)' = Bucket(r, KeyCols)' /\ (s = r \/ Beats(s, r)')
  BY <1>1 DEF Beats
<1>3. CASE s \in Live'
  BY <1>2, <1>3
<1>4. CASE s \notin Live'
  <2>1. PICK w \in Live' : Bucket(w, KeyCols)' = Bucket(s, KeyCols)' /\ Beats(w, s)'
    BY <1>4
  <2>2. Beats(s, r)' => Beats(w, r)'
    BY <2>1, SupersedesTransitive DEF Beats
  <2> QED
    BY <1>2, <2>1, <2>2
<1> QED
  BY <1>3, <1>4

(* The rows keep the places they have in the logs of their sources.        *)
PlacesKept ==
  /\ RowIds' = RowIds /\ stamp' = stamp
  /\ \A r \in RowIds : heap'[r].source = heap[r].source /\ heap'[r].stamp = heap[r].stamp

LEMMA PlacesKeptRise == StampsRise /\ PlacesKept => StampsRise'
BY DEF StampsRise, PlacesKept

(* A row keeps its key and its version.                                    *)
RowKept(r) ==
  /\ KeyOf(heap'[r], KeyCols') = KeyOf(heap[r], KeyCols)
  /\ updCol # Null => heap'[r].data[updCol] = heap[r].data[updCol]
  /\ Len(heap'[r].data) >= Len(heap[r].data)

LEMMA RowKeptFacts ==
  ASSUME IndInv, IndInv', PlacesKept, updCol' = updCol, NEW r \in covered, RowKept(r)
  PROVE  /\ Bucket(r, KeyCols)' = Bucket(r, KeyCols)
         /\ VersionOf(heap[r])' = VersionOf(heap[r])
<1>1. r \in RowIds
  BY StoreFacts DEF IndInv
<1> QED
  BY <1>1 DEF Bucket, VersionOf, RowKept, PlacesKept

(* The abstract step.  The contents of the table are the newest of the     *)
(* rows offered; of a table without a recomputation, all of them.          *)

LEMMA SameNewest == \A S : LWW!Newest(S) = Newest(S)
BY DEF LWW!Newest, LWW!Supersedes, Newest, Supersedes

LEMMA SameEntry == LWW!Entry = [key : Hash, ver : Version]
BY DEF LWW!Entry, LWW!Version, Version

LEMMA NewestCovered ==
  IndInv /\ OrderInv => Newest(Entries(Live)) = Newest(Entries(covered))
<1> SUFFICES ASSUME IndInv, OrderInv
             PROVE  Newest(Entries(Live)) = Newest(Entries(covered))
  OBVIOUS
<1> DEFINE E(r) == [key |-> Bucket(r, KeyCols), ver |-> VersionOf(heap[r])]
<1>1. /\ Live \subseteq covered
      /\ \A r \in covered : VersionOf(heap[r]) \in Version
      /\ \A r \in covered : \E s \in Live :
           E(s).key = E(r).key /\ (s = r \/ Supersedes(E(s).ver, E(r).ver))
  BY CoveredVersions DEF OrderInv, LiveCovered, NewestSurvives, Beats
<1>2. Entries(Live) = {E(r) : r \in Live} /\ Entries(covered) = {E(r) : r \in covered}
  BY DEF Entries
<1>3. \A r \in covered : E(r).ver \in Version
  BY <1>1
<1> HIDE DEF E
<1>4. ASSUME NEW e \in Newest(Entries(Live))
      PROVE  e \in Newest(Entries(covered))
  <2>1. PICK s \in Live : e = E(s)
    BY <1>2 DEF Newest
  <2> SUFFICES ASSUME NEW r \in covered, E(r).key = e.key, Supersedes(E(r).ver, e.ver)
               PROVE  FALSE
    BY <1>1, <1>2, <2>1 DEF Newest
  <2>2. PICK q \in Live : E(q).key = E(r).key /\ (q = r \/ Supersedes(E(q).ver, E(r).ver))
    BY <1>1
  <2>3. Supersedes(E(q).ver, e.ver)
    BY <1>1, <1>3, <2>1, <2>2, SupersedesTransitive
  <2> QED
    BY <1>2, <2>2, <2>3 DEF Newest
<1>5. ASSUME NEW e \in Newest(Entries(covered))
      PROVE  e \in Newest(Entries(Live))
  <2>1. PICK r \in covered : e = E(r)
    BY <1>2 DEF Newest
  <2>2. PICK q \in Live : E(q).key = E(r).key /\ (q = r \/ Supersedes(E(q).ver, E(r).ver))
    BY <1>1
  <2>3. q = r
    BY <1>1, <1>2, <2>1, <2>2 DEF Newest
  <2> QED
    BY <1>1, <1>2, <2>1, <2>2, <2>3 DEF Newest
<1> QED
  BY <1>4, <1>5

LEMMA NewestApart ==
  ASSUME IndInv, OrderInv, Apart
  PROVE  Newest(Entries(Live)) = Entries(Live)
<1>1. \A r \in Live : VersionOf(heap[r]) \in Version
  BY CoveredVersions DEF OrderInv, LiveCovered
<1>2. ASSUME NEW r \in Live, NEW s \in Live, Bucket(s, KeyCols) = Bucket(r, KeyCols)
      PROVE  ~Supersedes(VersionOf(heap[s]), VersionOf(heap[r]))
  <2>1. s = r
    BY <1>2 DEF Apart
  <2> QED
    BY <1>1, <2>1, SupersedesAsymmetric
<1> QED
  BY <1>2 DEF Newest, Entries

LEMMA LiveEntries ==
  IndInv /\ OrderInv /\ (indexs # <<>> \/ Live = {}) => Entries(Live) \subseteq LWW!Entry
<1> SUFFICES ASSUME IndInv, OrderInv, indexs # <<>> \/ Live = {}, NEW r \in Live
             PROVE  Bucket(r, KeyCols) \in Hash /\ VersionOf(heap[r]) \in Version
  BY SameEntry DEF Entries
<1>1. 1 \in DOMAIN indexs /\ KeyCols = indexs[1].cols
  BY RowsMeanOneIndex
<1>2. r \in RowIds /\ heap[r] \in RowType /\ Len(heap[r].data) = Len(column)
  BY StoreFacts DEF IndInv, SafeInv, DataAligned
<1>3. Bucket(r, KeyCols) \in Hash
  BY <1>1, <1>2, HolderType, IndexsFacts DEF Bucket, IndInv
<1> QED
  BY <1>3, CoveredVersions DEF OrderInv, LiveCovered

LEMMA LiveVersions ==
  /\ {e.ver : e \in Entries(Live)} = {VersionOf(heap[r]) : r \in Live}
  /\ {<<e.ver.source, e.ver.stamp>> : e \in Entries(Live)}
       = {<<heap[r].source, heap[r].stamp>> : r \in Live}
<1> DEFINE E(r) == [key |-> Bucket(r, KeyCols), ver |-> VersionOf(heap[r])]
<1>1. ASSUME NEW e \in Entries(Live)
      PROVE  \E r \in Live : e = E(r)
  BY DEF Entries
<1>2. ASSUME NEW r \in Live
      PROVE  E(r) \in Entries(Live)
  BY DEF Entries
<1>3. ASSUME NEW r
      PROVE  /\ E(r).ver = VersionOf(heap[r])
             /\ <<E(r).ver.source, E(r).ver.stamp>> = <<heap[r].source, heap[r].stamp>>
  BY DEF VersionOf
<1> HIDE DEF E
<1>4. ASSUME NEW e \in Entries(Live)
      PROVE  /\ e.ver \in {VersionOf(heap[r]) : r \in Live}
             /\ <<e.ver.source, e.ver.stamp>> \in {<<heap[r].source, heap[r].stamp>> : r \in Live}
  BY <1>1, <1>3
<1>5. ASSUME NEW r \in Live
      PROVE  /\ VersionOf(heap[r]) \in {e.ver : e \in Entries(Live)}
             /\ <<heap[r].source, heap[r].stamp>>
                  \in {<<e.ver.source, e.ver.stamp>> : e \in Entries(Live)}
  BY <1>2, <1>3
<1> QED
  BY <1>4, <1>5

LEMMA RegroupStep ==
  ASSUME IndInv, IndInv', OrderInv, OrderInv', Apart, indexs' # <<>>,
         covered' = Live, Live' = Live,
         \A r \in Live : VersionOf(heap[r])' = VersionOf(heap[r])
  PROVE  LWW!Regroup
<1>1. Newest(Entries(Live))' = Newest(Entries(covered))'
  <2>1. (IndInv /\ OrderInv => Newest(Entries(Live)) = Newest(Entries(covered)))'
    BY NewestCovered, PTL
  <2> QED
    BY <2>1
<1>2. Entries(covered)' = Entries(Live)'
  BY DEF Entries
<1>3. Entries(Live)' \subseteq LWW!Entry
  <2>1. (IndInv /\ OrderInv /\ (indexs # <<>> \/ Live = {}) =>
           Entries(Live) \subseteq LWW!Entry)'
    BY LiveEntries, PTL
  <2> QED
    BY <2>1
<1>4. {e.ver : e \in Entries(Live)'} = {e.ver : e \in Newest(Entries(Live))}
  <2>1. {e.ver : e \in Entries(Live)'} = {VersionOf(heap[r])' : r \in Live}
    <3>1. ({e.ver : e \in Entries(Live)} = {VersionOf(heap[r]) : r \in Live})'
      BY LiveVersions, PTL
    <3> QED
      BY <3>1
  <2>2. {VersionOf(heap[r])' : r \in Live} = {VersionOf(heap[r]) : r \in Live}
    OBVIOUS
  <2> QED
    BY <2>1, <2>2, LiveVersions, NewestApart
<1> QED
  BY <1>1, <1>2, <1>3, <1>4, SameNewest DEF LWW!Regroup, LWW!Versions

LEMMA RedateStep ==
  ASSUME IndInv, IndInv', OrderInv, OrderInv', Apart, indexs' # <<>>, PlacesKept,
         covered' = Live, Live' = Live, updCol' # Null,
         NEW v, \A r \in Live : heap'[r].data[updCol'] = v
  PROVE  LWW!Redate
<1>1. Newest(Entries(Live))' = Newest(Entries(covered))'
  <2>1. (IndInv /\ OrderInv => Newest(Entries(Live)) = Newest(Entries(covered)))'
    BY NewestCovered, PTL
  <2> QED
    BY <2>1
<1>2. Entries(covered)' = Entries(Live)'
  BY DEF Entries
<1>3. Entries(Live)' \subseteq LWW!Entry
  <2>1. (IndInv /\ OrderInv /\ (indexs # <<>> \/ Live = {}) =>
           Entries(Live) \subseteq LWW!Entry)'
    BY LiveEntries, PTL
  <2> QED
    BY <2>1
<1>4. \A e \in Entries(Live)' : e.ver.upd = v
  BY DEF Entries, VersionOf
<1>5. {<<e.ver.source, e.ver.stamp>> : e \in Entries(Live)'}
        = {<<e.ver.source, e.ver.stamp>> : e \in Newest(Entries(Live))}
  <2>1. {<<e.ver.source, e.ver.stamp>> : e \in Entries(Live)'}
          = {<<heap'[r].source, heap'[r].stamp>> : r \in Live}
    <3>1. ({<<e.ver.source, e.ver.stamp>> : e \in Entries(Live)}
             = {<<heap[r].source, heap[r].stamp>> : r \in Live})'
      BY LiveVersions, PTL
    <3> QED
      BY <3>1
  <2>2. \A r \in Live : heap'[r].source = heap[r].source /\ heap'[r].stamp = heap[r].stamp
    BY StoreFacts DEF PlacesKept, IndInv
  <2>3. {<<heap'[r].source, heap'[r].stamp>> : r \in Live}
          = {<<heap[r].source, heap[r].stamp>> : r \in Live}
    BY <2>2
  <2> QED
    BY <2>1, <2>3, LiveVersions, NewestApart
<1> QED
  BY <1>1, <1>2, <1>3, <1>4, <1>5, SameNewest DEF LWW!Redate, LWW!Undated

(* Every step is one of these, or leaves what is offered.                  *)
Judged == Entries(covered)' = Entries(covered) \/ LWW!Next

(* A step that offers no row.                                              *)
LEMMA KeptOrder ==
  ASSUME IndInv, IndInv', OrderInv, PlacesKept, updCol' = updCol, covered' = covered,
         \A r \in covered : RowKept(r),
         Live' \subseteq Live,
         \A s \in Live \ Live' : \E w \in Live' :
           Bucket(w, KeyCols) = Bucket(s, KeyCols) /\ Beats(w, s),
         at' = 0 /\ indexs' = <<>> => Apart
  PROVE  OrderInv' /\ Judged
<1>1. StampsRise'
  BY PlacesKeptRise DEF OrderInv
<1>2. Dated'
  <2> SUFFICES ASSUME NEW r \in covered, updCol # Null
               PROVE  updCol <= Len(heap'[r].data)
    BY DEF Dated
  <2>1. /\ updCol <= Len(heap[r].data) /\ Len(heap'[r].data) >= Len(heap[r].data)
        /\ updCol \in Nat
    BY SchemaFacts DEF OrderInv, Dated, RowKept, IndInv
  <2>2. heap[r].data \in Seq(Value) /\ heap'[r].data \in Seq(Value)
    <3>1. r \in 1..Len(heap) /\ r \in 1..Len(heap')
      BY StoreFacts DEF IndInv, PlacesKept, RowIds
    <3>2. heap \in Seq(RowType) /\ heap' \in Seq(RowType)
      BY DEF IndInv, TypeOK, StoreType
    <3>3. heap[r] \in RowType /\ heap'[r] \in RowType
      BY <3>1, <3>2
    <3> QED
      BY <3>3 DEF RowType
  <2> QED
    BY <2>1, <2>2
<1>3. LiveCovered' /\ Live \subseteq covered
  BY DEF OrderInv, LiveCovered
<1>4. \A r \in covered : /\ Bucket(r, KeyCols)' = Bucket(r, KeyCols)
                         /\ VersionOf(heap[r])' = VersionOf(heap[r])
  BY RowKeptFacts
<1>5. KeysApart'
  <2>1. (IndInv /\ indexs # <<>> /\ at = 0 => Apart)'
    BY IndexedApart, PTL
  <2>2. Apart => Apart'
    BY <1>3, <1>4 DEF Apart
  <2> QED
    BY <2>1, <2>2 DEF KeysApart
<1>6. NewestSurvives'
  <2>1. (IndInv /\ Dated => \A r \in covered : VersionOf(heap[r]) \in Version)'
    BY CoveredVersions, PTL
  <2>2. \A r \in covered' : VersionOf(heap[r])' \in Version
    BY <1>2, <2>1
  <2>3. \A s \in Live \ Live' : \E w \in Live' :
          Bucket(w, KeyCols)' = Bucket(s, KeyCols)' /\ Beats(w, s)'
    BY <1>3, <1>4 DEF Beats
  <2>4. NewestSurvives /\ covered' = covered
    BY DEF OrderInv
  <2> QED
    BY <1>3, <1>4, <2>2, <2>3, <2>4, Outlived DEF LiveCovered
<1>7. Judged
  BY <1>4 DEF Judged, Entries
<1> QED
  BY <1>1, <1>2, <1>3, <1>5, <1>6, <1>7 DEF OrderInv

(* A step after which the rows of the table, and only they, are offered.   *)
LEMMA BeginOrder ==
  ASSUME IndInv', OrderInv, PlacesKept, covered' = Live',
         at' # 0 \/ indexs' # <<>>
  PROVE  OrderInv'
<1>1. StampsRise'
  BY PlacesKeptRise DEF OrderInv
<1>2. Dated'
  <2>1. updCol' \in 1..Len(column') \cup {Null} /\ Len(column') \in Nat
    <3>1. (TypeOK => updCol \in 1..Len(column) \cup {Null} /\ Len(column) \in Nat)'
      BY SchemaFacts, PTL
    <3> QED
      BY <3>1 DEF IndInv
  <2>2. \A r \in Live' : Len(heap'[r].data) = Len(column')
    BY DEF IndInv, SafeInv, DataAligned
  <2> QED
    BY <2>1, <2>2 DEF Dated
<1>3. LiveCovered'
  BY DEF LiveCovered
<1>4. KeysApart'
  <2>1. (IndInv /\ indexs # <<>> /\ at = 0 => Apart)'
    BY IndexedApart, PTL
  <2> QED
    BY <2>1 DEF KeysApart
<1>5. NewestSurvives'
  BY DEF NewestSurvives
<1> QED
  BY <1>1, <1>2, <1>3, <1>4, <1>5 DEF OrderInv

LEMMA StoreKeptPlaces == UNCHANGED <<store, stamp>> => PlacesKept
BY DEF store, RowIds, PlacesKept

LEMMA SlotsKeptLive == UNCHANGED rows => Live' = Live
BY DEF Live

(* A step that touches no row.                                             *)
LEMMA UntouchedOrder ==
  ASSUME IndInv, IndInv', OrderInv, UNCHANGED <<store, stamp, updCol, covered>>,
         covered # {} => KeyCols' = KeyCols,
         at' = 0 /\ indexs' = <<>> => Apart
  PROVE  OrderInv' /\ Judged
<1>1. PlacesKept /\ Live' = Live /\ heap' = heap
  BY StoreKeptPlaces, SlotsKeptLive DEF store
<1>2. \A r \in covered : RowKept(r)
  <2> SUFFICES ASSUME NEW r \in covered PROVE RowKept(r)
    OBVIOUS
  <2>1. heap[r].data \in Seq(Value)
    BY StoreFacts DEF IndInv, RowType
  <2> QED
    BY <1>1, <2>1 DEF RowKept
<1> QED
  BY <1>1, <1>2, KeptOrder

LEMMA IndexsKeptOrder ==
  ASSUME IndInv, IndInv', OrderInv, UNCHANGED <<store, stamp, updCol, covered, indexs, at>>
  PROVE  OrderInv' /\ Judged
<1>1. KeyCols' = KeyCols
  BY DEF KeyCols
<1>2. at' = 0 /\ indexs' = <<>> => Apart
  BY DEF OrderInv, KeysApart
<1> QED
  BY <1>1, <1>2, UntouchedOrder

LEMMA FailOrder ==
  ASSUME IndInv, IndInv', OrderInv, Fail
  PROVE  OrderInv' /\ Judged
BY IndexsKeptOrder DEF Fail, schema

(* A recomputation begins.                                                 *)
LEMMA ScanOrder ==
  ASSUME IndInv, IndInv', OrderInv, at = 0, NEW p, Scan(p), UNCHANGED <<store, stamp, updCol>>
  PROVE  OrderInv' /\ Judged
<1>1. PlacesKept /\ covered' = Live /\ Live' = Live /\ heap' = heap /\ at' # 0
  BY StoreKeptPlaces, SlotsKeptLive DEF Scan, store
<1>2. OrderInv'
  BY <1>1, BeginOrder
<1>3. indexs' # <<>>
  <2>1. pos' \in DOMAIN indexs'
    BY DEF Scan, IndInv, TypeOK, CtlType
  <2> QED
    BY <2>1, DOMAIN <<>> = {}
<1>4. \A r \in Live : VersionOf(heap[r])' = VersionOf(heap[r])
  BY <1>1 DEF VersionOf
<1>5. Apart
  BY DEF OrderInv, KeysApart
<1>6. LWW!Regroup
  BY <1>1, <1>2, <1>3, <1>4, <1>5, RegroupStep
<1> QED
  BY <1>2, <1>6 DEF Judged, LWW!Next

LEMMA CreateTableOrder ==
  ASSUME IndInv, IndInv', OrderInv, NEW s, WellFormed(s), CreateTable(s)
  PROVE  OrderInv' /\ Judged
<1>1. CASE Fail
  BY <1>1, FailOrder
<1>2. CASE ~Fail
  <2>1. pc = "new" /\ Return /\ UNCHANGED <<store, stamp>>
    BY <1>2 DEF CreateTable
  <2>2. rows = <<>> /\ covered' = {} /\ indexs' # <<>>
    BY <2>1 DEF Return, IndInv, TypeOK, CtlType
  <2>3. Live' = {}
    BY <2>1, <2>2, EmptySeq DEF Live, Range, store
  <2>4. Judged
    <3>1. covered = {}
      BY <2>1 DEF IndInv, TypeOK, CtlType
    <3> QED
      BY <2>2, <3>1 DEF Judged, Entries
  <2> QED
    BY <2>1, <2>2, <2>3, <2>4, BeginOrder, StoreKeptPlaces
<1> QED
  BY <1>1, <1>2

(* ADD COLUMN appends a datum to the rows of the table, to each the same.  *)
LEMMA AddColumnRows ==
  ASSUME IndInv, NEW c \in Column, NEW after \in DOMAIN colDes, AddColumn(c, after), ~Fail
  PROVE  /\ pc = "call" /\ PlacesKept /\ Live' = Live
         /\ \/ Scan(1)
            \/ /\ covered' = IF updCol' = updCol THEN covered ELSE Live
               /\ UNCHANGED <<indexs, ctl>>
         /\ \A r \in RowIds \ Live : heap'[r] = heap[r]
         /\ \A r \in RowIds :
              /\ Len(heap'[r].data) >= Len(heap[r].data)
              /\ \A x \in 1..Len(heap[r].data) : heap'[r].data[x] = heap[r].data[x]
         /\ updCol' # updCol => \E v : \A r \in Live : heap'[r].data[updCol'] = v
<1> DEFINE upd == IF c.name = UpdName THEN Len(column) + 1 ELSE updCol
           v   == IF c.def = -1 THEN Blank ELSE c.def
<1>1. /\ pc = "call" /\ updCol' = upd
      /\ heap' = [r \in RowIds |->
                    IF r \in Live THEN [heap[r] EXCEPT !.data = Append(@, v)] ELSE heap[r]]
      /\ \/ Scan(1)
         \/ /\ covered' = IF upd = updCol THEN covered ELSE Live
            /\ UNCHANGED <<indexs, ctl>>
      /\ UNCHANGED <<rows, stamp>>
  BY DEF AddColumn
<1>2. v \in Value
  BY Constants DEF Column
<1>3. upd # updCol => upd = Len(column) + 1
  OBVIOUS
<1> HIDE DEF upd, v
<1>4. Live' = Live
  BY <1>1, SlotsKeptLive
<1>5. ASSUME NEW r \in RowIds
      PROVE  /\ heap'[r].source = heap[r].source /\ heap'[r].stamp = heap[r].stamp
             /\ Len(heap'[r].data) >= Len(heap[r].data)
             /\ \A x \in 1..Len(heap[r].data) : heap'[r].data[x] = heap[r].data[x]
             /\ r \in Live => heap'[r].data[Len(heap[r].data) + 1] = v
             /\ r \notin Live => heap'[r] = heap[r]
  <2>1. heap[r] \in RowType /\ heap[r].data \in Seq(Value)
    BY StoreFacts DEF IndInv, RowType
  <2>2. CASE r \in Live
    <3>1. heap'[r] = [heap[r] EXCEPT !.data = Append(@, v)]
      BY <1>1, <2>2
    <3>2. Len(heap[r].data) \in Nat /\ Len(heap'[r].data) = Len(heap[r].data) + 1
      BY <1>2, <2>1, <3>1, GrownRow
    <3>3. heap'[r].data = Append(heap[r].data, v)
      BY <2>1, <3>1 DEF RowType
    <3>4. heap'[r].data[Len(heap[r].data) + 1] = v
      BY <1>2, <2>1, <3>3, AppendProperties
    <3> QED
      BY <1>2, <2>1, <2>2, <3>1, <3>2, <3>4, GrownRow
  <2>3. CASE r \notin Live
    BY <1>1, <2>1, <2>3
  <2> QED
    BY <2>2, <2>3
<1>6. PlacesKept
  <2>1. Len(heap') = Len(heap)
    BY <1>1, StoreFacts, LenProperties DEF IndInv
  <2> QED
    BY <1>1, <1>5, <2>1 DEF PlacesKept, RowIds
<1>7. updCol' # updCol => \A r \in Live : heap'[r].data[updCol'] = v
  <2>1. \A r \in Live : r \in RowIds /\ Len(heap[r].data) = Len(column)
    BY StoreFacts DEF IndInv, SafeInv, DataAligned
  <2> QED
    BY <1>1, <1>3, <1>5, <2>1
<1>8. \/ Scan(1)
      \/ /\ covered' = IF updCol' = updCol THEN covered ELSE Live
         /\ UNCHANGED <<indexs, ctl>>
  BY <1>1
<1> QED
  BY <1>1, <1>4, <1>5, <1>6, <1>7, <1>8

(* A row has a datum for every column of the key as long as it is offered  *)
(* under it: those that left the table keep the data they had.             *)
LEMMA AddColumnKept ==
  ASSUME IndInv, OrderInv, NEW c \in Column, NEW after \in DOMAIN colDes, AddColumn(c, after),
         ~Fail, indexs' = indexs, NEW r \in covered
  PROVE  RowKept(r)
<1>1. /\ pc = "call"
      /\ r \notin Live => heap'[r] = heap[r]
      /\ Len(heap'[r].data) >= Len(heap[r].data)
      /\ \A x \in 1..Len(heap[r].data) : heap'[r].data[x] = heap[r].data[x]
  BY AddColumnRows, StoreFacts DEF IndInv
<1>2. indexs # <<>> /\ KeyCols' = KeyCols
  BY <1>1 DEF IndInv, TypeOK, CtlType, KeyCols
<1>3. 1 \in DOMAIN indexs /\ KeyCols = indexs[1].cols
  BY <1>2, RowsMeanOneIndex
<1>4. heap[r].data \in Seq(Value)
  BY StoreFacts DEF IndInv, RowType
<1>5. updCol # Null => updCol \in 1..Len(heap[r].data)
  BY <1>4, SchemaFacts DEF IndInv, OrderInv, Dated
<1>6. KeyOf(heap'[r], KeyCols) = KeyOf(heap[r], KeyCols)
  <2>1. CASE r \in Live
    <3>1. KeyCols \in SUBSET (1..Len(heap[r].data))
      BY <1>3, <2>1, IndexsFacts, IndexFacts DEF IndInv, SafeInv, DataAligned
    <3> QED
      BY <1>1, <3>1, KeyKept
  <2>2. CASE r \notin Live
    BY <1>1, <2>2
  <2> QED
    BY <2>1, <2>2
<1> QED
  BY <1>1, <1>2, <1>5, <1>6 DEF RowKept

LEMMA AddColumnOrder ==
  ASSUME IndInv, IndInv', OrderInv,
         NEW c \in Column, NEW after \in DOMAIN colDes, AddColumn(c, after)
  PROVE  OrderInv' /\ Judged
<1>1. CASE Fail
  BY <1>1, FailOrder
<1>2. CASE ~Fail
  <2>1. /\ pc = "call" /\ PlacesKept /\ Live' = Live
        /\ \/ Scan(1)
           \/ /\ covered' = IF updCol' = updCol THEN covered ELSE Live
              /\ UNCHANGED <<indexs, ctl>>
    BY <1>2, AddColumnRows
  <2>2. indexs # <<>>
    BY <2>1 DEF IndInv, TypeOK, CtlType
  <2>3. Apart
    BY <2>1 DEF OrderInv, KeysApart, IndInv, TypeOK, CtlType
  <2>4. ASSUME covered' = Live, at' # 0 \/ updCol' # updCol, indexs' # <<>>
        PROVE  OrderInv' /\ Judged
    <3>1. OrderInv'
      BY <2>1, <2>4, BeginOrder
    <3>2. CASE updCol' = updCol
      <4>1. ASSUME NEW r \in Live
            PROVE  VersionOf(heap[r])' = VersionOf(heap[r])
        <5>1. /\ r \in RowIds /\ heap'[r].source = heap[r].source
              /\ heap'[r].stamp = heap[r].stamp
          BY <2>1, StoreFacts DEF PlacesKept, IndInv
        <5>2. updCol # Null => updCol \in 1..Len(heap[r].data)
          BY SchemaFacts DEF IndInv, SafeInv, DataAligned
        <5>3. updCol # Null => heap'[r].data[updCol] = heap[r].data[updCol]
          BY <1>2, <5>1, <5>2, AddColumnRows
        <5> QED
          BY <3>2, <5>1, <5>3 DEF VersionOf
      <4>2. LWW!Regroup
        BY <2>1, <2>3, <2>4, <3>1, <4>1, RegroupStep
      <4> QED
        BY <3>1, <4>2 DEF Judged, LWW!Next
    <3>3. CASE updCol' # updCol
      <4>1. updCol' # Null
        BY <1>2, <3>3, SchemaFacts DEF AddColumn, IndInv
      <4>2. PICK v : \A r \in Live : heap'[r].data[updCol'] = v
        BY <1>2, <3>3, AddColumnRows
      <4>3. LWW!Redate
        BY <2>1, <2>3, <2>4, <3>1, <4>1, <4>2, RedateStep
      <4> QED
        BY <3>1, <4>3 DEF Judged, LWW!Next
    <3> QED
      BY <3>2, <3>3
  <2>5. CASE Scan(1)
    <3>1. pos' \in DOMAIN indexs'
      BY <2>5 DEF Scan, IndInv, TypeOK, CtlType
    <3>2. indexs' # <<>>
      BY <3>1, DOMAIN <<>> = {}
    <3> QED
      BY <2>4, <2>5, <3>2 DEF Scan
  <2>6. CASE updCol' # updCol /\ covered' = Live /\ UNCHANGED <<indexs, ctl>>
    BY <2>2, <2>4, <2>6
  <2>7. CASE updCol' = updCol /\ covered' = covered /\ UNCHANGED <<indexs, ctl>>
    <3>1. \A r \in covered : RowKept(r)
      BY <1>2, <2>7, AddColumnKept
    <3> QED
      BY <2>1, <2>2, <2>7, <3>1, KeptOrder
  <2> QED
    BY <2>1, <2>5, <2>6, <2>7
<1> QED
  BY <1>1, <1>2

LEMMA DropUniqueIndexOrder ==
  ASSUME IndInv, IndInv', OrderInv, NEW p, NEW nm, DropUniqueIndex(p, nm)
  PROVE  OrderInv' /\ Judged
<1>1. PICK k \in DOMAIN indexs :
        \/ /\ Len(indexs) > 1
           /\ indexs' = RemoveAt(indexs, k)
           /\ UNCHANGED <<schema, store, stamp, ctl, covered>>
        \/ at = 0 /\ Scan(1) /\ UNCHANGED <<store, stamp, updCol>>
        \/ Fail
  BY DEF DropUniqueIndex, schema, IndInv, TypeOK, CtlType
<1>2. CASE /\ Len(indexs) > 1
           /\ UNCHANGED <<schema, store, stamp, ctl, covered>>
  <2>1. covered = {} /\ (at = 0 => Apart)
    BY <1>2 DEF IndInv, SafeInv, OneIndexWithRows, OrderInv, KeysApart
  <2> QED
    BY <1>2, <2>1, UntouchedOrder DEF schema, ctl
<1> QED
  BY <1>1, <1>2, ScanOrder, FailOrder

(* An index left without columns is erased: the key of a table without an  *)
(* index is the empty one, as it was.                                      *)
LEMMA SweepKey ==
  ASSUME IndInv, pos \in 1..Len(indexs), Sweep, covered # {}
  PROVE  KeyCols' = KeyCols
<1>1. Len(indexs) = 1 /\ pos = 1 /\ indexs # <<>> /\ KeyCols = indexs[1].cols
      /\ indexs \in Seq(IndexType(Len(column), Len(heap)))
  <2>1. Len(indexs) \in Nat /\ indexs # <<>>
    BY IndexsFacts, EmptySeq DEF IndInv
  <2>2. Len(indexs) = 1 /\ KeyCols = indexs[1].cols
    BY <2>1, RowsMeanOneIndex
  <2> QED
    BY <2>1, <2>2, IndexsFacts DEF IndInv
<1>2. CASE indexs[1].cols = {}
  <2> DEFINE T == IndexType(Len(column), Len(heap))
  <2>1. indexs \in Seq(T) /\ indexs' = RemoveAt(indexs, 1) /\ 1 \in 1..Len(indexs)
    BY <1>1, <1>2 DEF Sweep
  <2> HIDE DEF T
  <2>2. indexs' \in Seq(T) /\ Len(indexs') = 0
    BY <1>1, <2>1, RemoveAtFacts
  <2>3. indexs' = <<>>
    BY <2>2, EmptySeq
  <2> QED
    BY <1>1, <1>2, <2>3 DEF KeyCols
<1>3. CASE indexs[1].cols # {}
  BY <1>1, <1>3 DEF Sweep, KeyCols
<1> QED
  BY <1>2, <1>3

LEMMA SweepOrder ==
  ASSUME IndInv, IndInv', OrderInv, pos \in 1..Len(indexs), Sweep, Apart,
         UNCHANGED <<schema, store, stamp, covered>>
  PROVE  OrderInv' /\ Judged
BY SweepKey, UntouchedOrder DEF schema

LEMMA DropFromIndexOrder ==
  ASSUME IndInv, IndInv', OrderInv, DropFromIndex
  PROVE  OrderInv' /\ Judged
<1>1. pos \in 1..Len(indexs) /\ Apart /\ at = 0
  BY IndexsFacts DEF DropFromIndex, IndInv, TypeOK, CtlType, OrderInv, KeysApart
<1>2. CASE colDes[dropping] \in indexs[pos].cols
  BY <1>1, <1>2, ScanOrder DEF DropFromIndex, schema
<1>3. CASE colDes[dropping] \notin indexs[pos].cols
  BY <1>1, <1>3, SweepOrder DEF DropFromIndex
<1> QED
  BY <1>2, <1>3

LEMMA DropFinishOrder ==
  ASSUME IndInv, IndInv', OrderInv, DropFinish
  PROVE  OrderInv' /\ Judged
<1>1. \/ UNCHANGED <<store, stamp, updCol, covered, indexs, at>>
      \/ at = 0 /\ Scan(1) /\ UNCHANGED <<store, stamp, updCol>>
      \/ Fail
  BY DEF DropFinish, IndInv, TypeOK, CtlType
<1> QED
  BY <1>1, IndexsKeptOrder, ScanOrder, FailOrder

LEMMA ScanDoneOrder ==
  ASSUME IndInv, IndInv', OrderInv, ScanDone
  PROVE  OrderInv' /\ Judged
<1>1. /\ at > Len(rows) /\ pc = "scan"
      /\ UNCHANGED <<schema, store, stamp, dropping, covered>>
  BY DEF ScanDone
<1>2. pos \in 1..Len(indexs) /\ Len(indexs) \in Nat /\ indexs # <<>>
  BY <1>1, IndexsFacts, EmptySeq DEF IndInv, TypeOK, CtlType
<1>3. Apart
  <2>1. DOMAIN rows \subseteq Visited
    BY <1>1, StoreFacts DEF Visited, IndInv
  <2> QED
    BY <1>2, <2>1, HashApart
<1>4. CASE UNCHANGED indexs
  BY <1>1, <1>3, <1>4, UntouchedOrder DEF schema, KeyCols
<1>5. CASE Sweep
  BY <1>1, <1>2, <1>3, <1>5, SweepOrder
<1> QED
  BY <1>4, <1>5 DEF ScanDone

LEMMA StampsDiffer ==
  IndInv /\ StampsRise =>
    \A q, r \in RowIds :
      q # r /\ heap[q].source = heap[r].source => heap[q].stamp # heap[r].stamp
<1> SUFFICES ASSUME IndInv, StampsRise, NEW q \in RowIds, NEW r \in RowIds, q # r,
                    heap[q].source = heap[r].source
             PROVE  heap[q].stamp # heap[r].stamp
  OBVIOUS
<1>1. heap[q].stamp \in Nat /\ heap[r].stamp \in Nat
  BY StoreFacts DEF IndInv, RowType
<1>2. q < r \/ r < q
  BY DEF RowIds
<1> QED
  BY <1>1, <1>2 DEF StampsRise

(* Of two rows one beats the other.                                        *)
LEMMA BeatsTotal ==
  ASSUME IndInv, OrderInv, NEW r \in covered, NEW s \in covered, r # s, ~Beats(r, s)
  PROVE  Beats(s, r)
<1> DEFINE a == VersionOf(heap[r])
           b == VersionOf(heap[s])
<1>1. a \in Version /\ b \in Version
  BY CoveredVersions DEF OrderInv
<1>2. a.source # b.source \/ a.stamp # b.stamp
  <2>1. r \in RowIds /\ s \in RowIds
    BY StoreFacts DEF IndInv
  <2> QED
    BY <2>1, StampsDiffer DEF OrderInv, VersionOf
<1> HIDE DEF a, b
<1>3. ~Supersedes(a, b) => Supersedes(b, a)
  BY <1>1, <1>2, SupersedesTotal
<1> QED
  BY <1>3 DEF a, b, Beats

LEMMA ScanNewerOrder ==
  ASSUME IndInv, IndInv', OrderInv, pc = "scan", at <= Len(rows), at' = at + 1,
         rows[at] # Null, UNCHANGED <<stamp, updCol, covered>>, ScanNewer(rows[at])
  PROVE  OrderInv' /\ Judged
<1> DEFINE r   == rows[at]
           b   == KeyOf(heap[r], indexs[1].cols)
           old == indexs[1].hash[b]
<1>1. /\ at \in DOMAIN rows /\ at \in Nat /\ Len(indexs) = 1 /\ pos = 1 /\ at \notin Visited
      /\ \A y \in Hash : indexs[1].hash[y] # r
      /\ indexs # <<>>
  BY ScanFacts, EmptySeq
<1>2. r \in Live /\ r \in RowIds /\ heap[r] \in RowType /\ Len(heap[r].data) = Len(column) /\ b \in Hash
  BY <1>1, SlotFacts
<1>3. /\ old # Null /\ Wins(heap[r], old) /\ indexs' = Hashed(1, heap[r], r)
      /\ rows' = [rows EXCEPT ![heap[old].idx] = r, ![at] = Null]
      /\ heap' = [heap EXCEPT ![r] = TakeSlot(heap[r], old)]
  BY <1>1 DEF ScanNewer, Holder
<1>4. /\ old \in Live /\ old \in RowIds /\ heap[old].idx \in DOMAIN rows \cap Visited
      /\ rows[heap[old].idx] = old /\ KeyOf(heap[old], indexs[1].cols) = b
  BY <1>1, <1>2, <1>3, HeldFacts
<1>5. KeyCols = indexs[1].cols /\ KeyCols' = KeyCols
  <2>1. DOMAIN indexs' = {1} /\ indexs'[1].cols = indexs[1].cols
    BY <1>1, <1>2, <1>3, HashedSingle DEF IndInv
  <2>2. indexs' # <<>>
    BY <2>1, DOMAIN <<>> = {}
  <2> QED
    BY <1>1, <2>1, <2>2 DEF KeyCols
<1>6. Bucket(r, KeyCols) = Bucket(old, KeyCols) /\ Beats(r, old)
  BY <1>3, <1>4, <1>5 DEF Bucket, Beats, Wins
<1> HIDE DEF b, r
<1>7. heap'[r] = TakeSlot(heap[r], old) /\ \A s \in RowIds \ {r} : heap'[s] = heap[s]
  BY <1>2, <1>3, StoreFacts DEF IndInv
<1>8. heap'[r].data = heap[r].data /\ heap'[r].source = heap[r].source
      /\ heap'[r].stamp = heap[r].stamp
  BY <1>2, <1>7 DEF TakeSlot, RowType
<1>9. PlacesKept
  <2>1. Len(heap') = Len(heap)
    BY <1>3, StoreFacts, LenProperties DEF IndInv
  <2> QED
    BY <1>7, <1>8, <2>1 DEF PlacesKept, RowIds
<1>10. ASSUME NEW s \in covered PROVE RowKept(s)
  <2>1. s \in RowIds /\ heap[s].data \in Seq(Value)
    BY StoreFacts DEF IndInv, RowType
  <2>2. heap'[s].data = heap[s].data
    BY <1>7, <1>8, <2>1
  <2> QED
    BY <1>5, <2>1, <2>2, KeyKept DEF RowKept
<1> HIDE DEF old
<1>11. /\ DOMAIN rows' = DOMAIN rows /\ heap[old].idx # at
       /\ \A i \in DOMAIN rows :
            rows'[i] = IF i = at THEN Null ELSE IF i = heap[old].idx THEN r ELSE rows[i]
  BY <1>1, <1>3, <1>4
<1>12. r \in Live'
  BY <1>2, <1>4, <1>11, StoreFacts DEF Live, Range, IndInv
<1>13. Live' \subseteq Live
  BY <1>2, <1>11 DEF Live, Range
<1>14. ASSUME NEW s \in Live \ Live'
       PROVE  s = old
  <2>1. PICK i \in DOMAIN rows : rows[i] = s /\ s # Null
    BY DEF Live, Range
  <2>2. rows[i] = rows[at] => s = r
    BY <2>1 DEF r
  <2>3. rows'[i] # s
    BY <1>11, <1>14, <2>1 DEF Live, Range
  <2>4. i = at \/ i = heap[old].idx
    BY <1>11, <2>1, <2>3
  <2> QED
    BY <1>4, <1>12, <1>14, <2>1, <2>2, <2>4
<1>15. at' # 0
  BY <1>1
<1> QED
  BY <1>6, <1>9, <1>10, <1>12, <1>13, <1>14, <1>15, KeptOrder

LEMMA ScanStaleOrder ==
  ASSUME IndInv, IndInv', OrderInv, pc = "scan", at <= Len(rows), at' = at + 1,
         rows[at] # Null, UNCHANGED <<stamp, updCol, covered>>, ScanStale(rows[at])
  PROVE  OrderInv' /\ Judged
<1> DEFINE r   == rows[at]
           b   == KeyOf(heap[r], indexs[1].cols)
           old == indexs[1].hash[b]
<1>1. /\ at \in DOMAIN rows /\ at \in Nat /\ Len(indexs) = 1 /\ pos = 1 /\ at \notin Visited
      /\ \A y \in Hash : indexs[1].hash[y] # r
      /\ indexs # <<>>
  BY ScanFacts, EmptySeq
<1>2. r \in Live /\ b \in Hash
  BY <1>1, SlotFacts
<1>3. /\ old # Null /\ ~Wins(heap[r], old)
      /\ rows' = [rows EXCEPT ![at] = Null] /\ UNCHANGED <<heap, indexs>>
  BY <1>1 DEF ScanStale, Holder
<1>4. /\ old \in Live /\ heap[old].idx \in DOMAIN rows \cap Visited
      /\ rows[heap[old].idx] = old /\ KeyOf(heap[old], indexs[1].cols) = b
  BY <1>1, <1>2, <1>3, HeldFacts
<1>5. KeyCols = indexs[1].cols /\ KeyCols' = KeyCols
  BY <1>1, <1>3 DEF KeyCols
<1>6. Bucket(old, KeyCols) = Bucket(r, KeyCols) /\ ~Beats(r, old) /\ old # r
  BY <1>1, <1>2, <1>3, <1>4, <1>5 DEF Bucket, Beats, Wins
<1> HIDE DEF b, old
<1>7. Beats(old, r)
  BY <1>2, <1>4, <1>6, BeatsTotal DEF OrderInv, LiveCovered
<1>8. /\ DOMAIN rows' = DOMAIN rows
      /\ \A i \in DOMAIN rows : rows'[i] = IF i = at THEN Null ELSE rows[i]
  BY <1>1, <1>3
<1>9. old \in Live' /\ Live' \subseteq Live
  BY <1>1, <1>4, <1>8 DEF Live, Range
<1>10. \A s \in Live \ Live' : s = r
  BY <1>8 DEF Live, Range
<1>11. PlacesKept /\ at' # 0
  BY <1>1, <1>3 DEF PlacesKept, RowIds
<1>12. ASSUME NEW s \in covered PROVE RowKept(s)
  <2>1. heap[s].data \in Seq(Value)
    BY StoreFacts DEF IndInv, RowType
  <2> QED
    BY <1>3, <1>5, <2>1 DEF RowKept
<1> HIDE DEF r
<1> QED
  BY <1>6, <1>7, <1>9, <1>10, <1>11, <1>12, KeptOrder

LEMMA ScanRowOrder ==
  ASSUME IndInv, IndInv', OrderInv, ScanRow
  PROVE  OrderInv' /\ Judged
<1>1. CASE Fail
  BY <1>1, FailOrder
<1>2. CASE ~Fail
  <2>1. /\ pc = "scan" /\ at <= Len(rows) /\ at' = at + 1
        /\ UNCHANGED <<stamp, updCol, covered>>
        /\ \/ ScanEmpty
           \/ /\ rows[at] # Null
              /\ ScanFirst(rows[at]) \/ ScanNewer(rows[at]) \/ ScanStale(rows[at])
    BY <1>2 DEF ScanRow, schema
  <2>2. at' # 0
    BY <2>1, ScanFacts
  <2>3. CASE ScanEmpty
    BY <2>1, <2>2, <2>3, UntouchedOrder DEF ScanEmpty, KeyCols
  <2>4. CASE rows[at] # Null /\ ScanFirst(rows[at])
    <3> DEFINE r == rows[at]
    <3>1. /\ at \in DOMAIN rows /\ Len(indexs) = 1 /\ pos = 1 /\ indexs # <<>>
      BY <2>1, <2>4, ScanFacts, EmptySeq
    <3>2. heap[r] \in RowType /\ Len(heap[r].data) = Len(column)
      BY <2>4, <3>1, SlotFacts
    <3>3. indexs' = Hashed(1, heap[r], r) /\ UNCHANGED store
      BY <2>4, <3>1 DEF ScanFirst
    <3>4. Len(indexs') = 1 /\ indexs'[1].cols = indexs[1].cols
      BY <3>1, <3>2, <3>3, HashedSingle DEF IndInv
    <3>5. KeyCols' = KeyCols
      BY <3>1, <3>4, EmptySeq DEF KeyCols
    <3> QED
      BY <2>1, <2>2, <3>3, <3>5, UntouchedOrder
  <2>5. CASE rows[at] # Null /\ ScanNewer(rows[at])
    BY <2>1, <2>5, ScanNewerOrder
  <2>6. CASE rows[at] # Null /\ ScanStale(rows[at])
    BY <2>1, <2>6, ScanStaleOrder
  <2> QED
    BY <2>1, <2>3, <2>4, <2>5, <2>6
<1> QED
  BY <1>1, <1>2

(* A row that arrives is numbered after the rows of its source, and either *)
(* it or the row of its key it meets stays.                                *)
LEMMA InsertedRow ==
  ASSUME IndInv, IndInv', OrderInv, NEW s \in Source, NEW vals \in [InTable -> Value],
         InsertRow(s, vals), ~Fail
  PROVE  /\ pc = "call" /\ OneIndex /\ indexs # <<>> /\ KeyCols = indexs[1].cols
         /\ LET row == NewRow(s, vals)
            IN  /\ row \in RowType /\ Len(row.data) = Len(column)
                /\ InsertFirst(row) \/ InsertNewer(row) \/ InsertStale(row)
                /\ heap'[NewId].data = row.data /\ heap'[NewId].source = s
                /\ heap'[NewId].stamp = stamp[s]
         /\ Len(heap') = NewId /\ \A r \in RowIds : heap'[r] = heap[r]
         /\ covered' = covered \cup {NewId} /\ stamp' = [stamp EXCEPT ![s] = @ + 1]
         /\ UNCHANGED <<schema, ctl>>
         /\ KeyCols' = KeyCols
<1> DEFINE row == NewRow(s, vals)
<1>1. /\ pc = "call" /\ OneIndex
      /\ InsertFirst(row) \/ InsertNewer(row) \/ InsertStale(row)
      /\ stamp' = [stamp EXCEPT ![s] = @ + 1]
      /\ covered' = covered \cup {NewId}
      /\ UNCHANGED <<schema, ctl>>
  BY DEF InsertRow
<1>2. row \in RowType /\ Len(row.data) = Len(column)
  BY NewRowType DEF IndInv
<1>3. row.source = s /\ row.stamp = stamp[s]
  BY DEF NewRow
<1> HIDE DEF row
<1>4. /\ Len(indexs) = 1 /\ indexs # <<>> /\ KeyCols = indexs[1].cols
      /\ 1 \in 1..Len(indexs) /\ indexs \in Seq(IndexType(Len(column), Len(heap)))
  <2>1. Len(indexs) = 1 /\ indexs \in Seq(IndexType(Len(column), Len(heap)))
    BY <1>1, IndexsFacts DEF OneIndex, IndInv
  <2>2. indexs # <<>>
    BY <1>1 DEF IndInv, TypeOK, CtlType
  <2> QED
    BY <2>1, <2>2 DEF KeyCols
<1>5. PICK x \in RowType : /\ heap' = Append(heap, x) /\ x.data = row.data
                           /\ x.source = s /\ x.stamp = stamp[s]
  <2>1. CASE InsertFirst(row)
    <3> DEFINE x == [row EXCEPT !.idx = Len(rows) + 1]
    <3>1. Len(rows) + 1 \in Nat
      BY StoreFacts DEF IndInv
    <3>2. x \in RowType
      BY <1>2, <3>1, RowAtType
    <3>3. x.data = row.data /\ x.source = s /\ x.stamp = stamp[s]
      BY <1>2, <1>3 DEF RowType
    <3> QED
      BY <2>1, <3>2, <3>3 DEF InsertFirst
  <2>2. CASE InsertNewer(row)
    <3> DEFINE x == TakeSlot(row, Holder(1, row))
    <3>1. Holder(1, row) \in RowIds
      BY <1>2, <1>4, <2>2, HolderType DEF InsertNewer, IndInv
    <3>2. heap[Holder(1, row)] \in RowType
      BY <3>1, StoreFacts DEF IndInv
    <3>3. x \in RowType
      BY <1>2, <3>2, TakeSlotType
    <3>4. x.data = row.data /\ x.source = s /\ x.stamp = stamp[s]
      BY <1>2, <1>3 DEF TakeSlot, RowType
    <3> QED
      BY <2>2, <3>3, <3>4 DEF InsertNewer
  <2>3. CASE InsertStale(row)
    BY <1>2, <1>3, <2>3 DEF InsertStale
  <2> QED
    BY <1>1, <2>1, <2>2, <2>3
<1>6. /\ Len(heap') = NewId /\ heap'[NewId] = x
      /\ \A r \in RowIds : heap'[r] = heap[r]
  BY <1>5, StoreFacts, AppendProperties DEF NewId, IndInv
<1>7. KeyCols' = KeyCols
  <2>1. CASE indexs' = indexs
    BY <2>1 DEF KeyCols
  <2>2. CASE indexs' = Hashed(1, row, NewId)
    <3>1. DOMAIN indexs' = {1} /\ indexs'[1].cols = indexs[1].cols
      BY <1>2, <1>4, <2>2, HashedSingle DEF IndInv
    <3>2. indexs' # <<>>
      BY <3>1, DOMAIN <<>> = {}
    <3> QED
      BY <1>4, <3>1, <3>2 DEF KeyCols
  <2> QED
    BY <1>1, <2>1, <2>2 DEF InsertFirst, InsertNewer, InsertStale
<1> QED
  BY <1>1, <1>2, <1>4, <1>5, <1>6, <1>7 DEF row

LEMMA InsertStamps ==
  ASSUME IndInv, StampsRise, NEW s \in Source,
         Len(heap') = NewId, \A r \in RowIds : heap'[r] = heap[r],
         heap'[NewId].source = s, heap'[NewId].stamp = stamp[s],
         stamp' = [stamp EXCEPT ![s] = @ + 1]
  PROVE  StampsRise'
<1>1. /\ stamp \in [Source -> Nat] /\ RowIds' = RowIds \cup {NewId} /\ NewId \notin RowIds
      /\ \A r \in RowIds : heap[r].source \in Source /\ heap[r].stamp \in Nat
  <2>1. Len(heap) \in Nat /\ RowIds' = 1..(Len(heap) + 1) /\ RowIds = 1..Len(heap)
    BY DEF IndInv, TypeOK, StoreType, RowIds, NewId
  <2> QED
    BY <2>1, StoreFacts, SMTT(30) DEF IndInv, RowType, NewId
<1>2. ASSUME NEW r \in RowIds'
      PROVE  heap'[r].stamp < stamp'[heap'[r].source]
  <2>1. CASE r = NewId
    BY <1>1, <2>1
  <2>2. CASE r \in RowIds
    <3>1. heap[r].stamp < stamp[heap[r].source] /\ stamp'[heap[r].source] >= stamp[heap[r].source]
      BY <1>1, <2>2 DEF StampsRise
    <3>2. /\ heap'[r] = heap[r] /\ stamp[heap[r].source] \in Nat
          /\ stamp'[heap[r].source] \in Nat
      BY <1>1, <2>2
    <3> QED
      BY <1>1, <2>2, <3>1, <3>2
  <2> QED
    BY <1>1, <2>1, <2>2
<1>3. ASSUME NEW r \in RowIds', NEW q \in RowIds', r < q, heap'[r].source = heap'[q].source
      PROVE  heap'[r].stamp < heap'[q].stamp
  <2>1. r \in RowIds /\ heap'[r] = heap[r]
    BY <1>1, <1>3 DEF RowIds, NewId, IndInv, TypeOK, StoreType
  <2>2. CASE q = NewId
    BY <1>3, <2>1, <2>2 DEF StampsRise
  <2>3. CASE q \in RowIds
    BY <1>3, <2>1, <2>3 DEF StampsRise
  <2> QED
    BY <1>1, <2>2, <2>3
<1> QED
  BY <1>2, <1>3 DEF StampsRise

LEMMA InsertRowOrder ==
  ASSUME IndInv, IndInv', OrderInv, NEW s \in Source, NEW vals \in [InTable -> Value],
         InsertRow(s, vals)
  PROVE  OrderInv' /\ Judged
<1> DEFINE row == NewRow(s, vals)
           b   == KeyOf(row, indexs[1].cols)
           old == indexs[1].hash[b]
<1>1. CASE Fail
  BY <1>1, FailOrder
<1>2. CASE ~Fail
  <2>1. /\ pc = "call" /\ OneIndex /\ indexs # <<>> /\ KeyCols = indexs[1].cols
        /\ row \in RowType /\ Len(row.data) = Len(column)
        /\ InsertFirst(row) \/ InsertNewer(row) \/ InsertStale(row)
        /\ heap'[NewId].data = row.data /\ heap'[NewId].source = s
        /\ heap'[NewId].stamp = stamp[s]
        /\ row.source = s /\ row.stamp = stamp[s]
        /\ Len(heap') = NewId /\ \A r \in RowIds : heap'[r] = heap[r]
        /\ covered' = covered \cup {NewId} /\ stamp' = [stamp EXCEPT ![s] = @ + 1]
        /\ updCol' = updCol /\ column' = column /\ at' = at /\ at = 0
        /\ KeyCols' = KeyCols
    BY <1>2, InsertedRow DEF schema, ctl, NewRow, IndInv, TypeOK, CtlType
  <2>2. /\ Len(indexs) = 1 /\ NewId \notin RowIds /\ NewId # Null /\ NewId \notin Live
        /\ \A y \in Hash : indexs[1].hash[y] # NewId
    BY <2>1, InsertFacts
  <2> HIDE DEF row
  <2>3. b \in Hash
    BY <2>1, <2>2, HolderType DEF IndInv
  <2>4. StampsRise'
    BY <2>1, InsertStamps DEF OrderInv
  <2>5. Dated'
    <3>1. updCol \in 1..Len(column) \cup {Null} /\ Len(column) \in Nat
      BY SchemaFacts DEF IndInv
    <3>2. \A r \in covered : r \in RowIds
      BY StoreFacts DEF IndInv
    <3> QED
      BY <2>1, <3>1, <3>2 DEF OrderInv, Dated
  <2>6. \A r \in covered' : VersionOf(heap[r])' \in Version
    <3>1. (IndInv /\ Dated => \A r \in covered : VersionOf(heap[r]) \in Version)'
      BY CoveredVersions, PTL
    <3> QED
      BY <2>5, <3>1
  <2>7. \A r \in covered : /\ Bucket(r, KeyCols)' = Bucket(r, KeyCols)
                           /\ VersionOf(heap[r])' = VersionOf(heap[r])
    <3>1. \A r \in covered : r \in RowIds
      BY StoreFacts DEF IndInv
    <3> QED
      BY <2>1, <3>1 DEF Bucket, VersionOf
  <2>8. PICK n, o : n = NewId /\ o = old
    OBVIOUS
  <2>9. Bucket(n, KeyCols)' = b /\ VersionOf(heap[n])' = VersionOf(row)
    <3>1. KeyOf(heap'[n], KeyCols') = KeyOf(row, KeyCols)
      BY <2>1, <2>8, KeyKept
    <3>2. Bucket(n, KeyCols)' = b
      BY <2>1, <3>1 DEF Bucket
    <3> QED
      BY <2>1, <2>8, <3>2 DEF VersionOf
  <2>10. o # Null => /\ o \in Live /\ o \in covered /\ o # n
                       /\ heap[o].idx \in DOMAIN rows /\ rows[heap[o].idx] = o
                       /\ Bucket(o, KeyCols) = b
    BY <2>1, <2>2, <2>3, <2>8, HeldFacts DEF Bucket, OrderInv, LiveCovered
  <2>11. \/ InsertFirst(row)
         \/ o # Null /\ Wins(row, o) /\ rows' = [rows EXCEPT ![heap[o].idx] = n]
         \/ o # Null /\ ~Wins(row, o) /\ rows' = rows
    BY <2>1, <2>8 DEF InsertNewer, InsertStale, Holder
  <2> HIDE DEF b, old
  <2>12. Wins(row, o) /\ o # Null => Beats(n, o)'
    BY <2>7, <2>9, <2>10 DEF Wins, Beats
  <2>13. ~Wins(row, o) /\ o # Null => Beats(o, n)'
    <3> SUFFICES ASSUME ~Wins(row, o), o # Null PROVE Beats(o, n)'
      OBVIOUS
    <3> DEFINE u == VersionOf(heap[n])'
               w == VersionOf(heap[o])'
    <3>1. u \in Version /\ w \in Version
      BY <2>1, <2>6, <2>8, <2>10
    <3>2. ~Supersedes(u, w)
      BY <2>7, <2>9, <2>10 DEF Wins
    <3>3. u.source # w.source \/ u.stamp # w.stamp
      <4>1. n \in RowIds' /\ o \in RowIds'
        BY <2>1, <2>8, <2>10, StoreFacts DEF RowIds, NewId, IndInv
      <4>2. (IndInv /\ StampsRise =>
               \A q, r \in RowIds :
                 q # r /\ heap[q].source = heap[r].source => heap[q].stamp # heap[r].stamp)'
        BY StampsDiffer, PTL
      <4> QED
        BY <2>4, <2>10, <4>1, <4>2 DEF VersionOf
    <3> HIDE DEF u, w
    <3>4. Supersedes(w, u)
      BY <3>1, <3>2, <3>3, SupersedesTotal
    <3> QED
      BY <3>4 DEF Beats, u, w
  <2>14. /\ Live' \subseteq Live \cup {n}
         /\ n \in Live' \/ (o # Null /\ o \in Live' /\ ~Wins(row, o))
         /\ \A q \in Live \ Live' : q = o /\ o # Null /\ Wins(row, o) /\ n \in Live'
    <3>1. rows \in Seq(RowIds \cup {Null}) /\ DOMAIN rows = 1..Len(rows) /\ Len(rows) \in Nat
      BY StoreFacts DEF IndInv
    <3>2. CASE InsertFirst(row)
      <4>1. /\ DOMAIN rows' = 1..(Len(rows) + 1) /\ rows'[Len(rows) + 1] = n
            /\ \A i \in DOMAIN rows : i \in DOMAIN rows' /\ rows'[i] = rows[i]
        BY <2>8, <3>1, <3>2, AppendProperties DEF InsertFirst
      <4>2. \A i \in DOMAIN rows' : i = Len(rows) + 1 \/ i \in DOMAIN rows
        BY <3>1, <4>1
      <4>3. Len(rows) + 1 \in DOMAIN rows'
        BY <3>1, <4>1
      <4>4. n \in Live' /\ Live \subseteq Live'
        BY <2>2, <2>8, <4>1, <4>3 DEF Live, Range
      <4>5. Live' \subseteq Live \cup {n}
        BY <4>1, <4>2 DEF Live, Range
      <4> QED
        BY <4>4, <4>5
    <3>3. CASE o # Null /\ Wins(row, o) /\ rows' = [rows EXCEPT ![heap[o].idx] = n]
      <4>1. /\ DOMAIN rows' = DOMAIN rows /\ heap[o].idx \in DOMAIN rows
            /\ \A i \in DOMAIN rows : rows'[i] = IF i = heap[o].idx THEN n ELSE rows[i]
        BY <2>10, <3>3
      <4>2. n \in Live'
        BY <2>2, <2>8, <4>1 DEF Live, Range
      <4>3. Live' \subseteq Live \cup {n} /\ \A q \in Live \ Live' : q = o
        BY <2>10, <3>3, <4>1 DEF Live, Range
      <4> QED
        BY <3>3, <4>2, <4>3
    <3>4. CASE o # Null /\ ~Wins(row, o) /\ rows' = rows
      BY <2>10, <3>4, SlotsKeptLive
    <3> QED
      BY <2>11, <3>2, <3>3, <3>4
  <2>15. LiveCovered' /\ Live \subseteq covered /\ Live' \subseteq covered'
    BY <2>1, <2>8, <2>14 DEF OrderInv, LiveCovered
  <2>16. KeysApart'
    <3>1. (IndInv /\ indexs # <<>> /\ at = 0 => Apart)'
      BY IndexedApart, PTL
    <3>2. indexs' # <<>>
      BY <1>2, InsertedRow DEF ctl, IndInv, TypeOK, CtlType
    <3> QED
      BY <3>1, <3>2 DEF KeysApart
  <2>17. NewestSurvives'
    <3>1. \A q \in Live \ Live' : \E w \in Live' :
            Bucket(w, KeyCols)' = Bucket(q, KeyCols)' /\ Beats(w, q)'
      BY <2>7, <2>9, <2>10, <2>12, <2>14
    <3>2. \A r \in covered' \ covered : \E q \in Live' :
            Bucket(q, KeyCols)' = Bucket(r, KeyCols)' /\ (q = r \/ Beats(q, r)')
      BY <2>1, <2>7, <2>8, <2>9, <2>10, <2>13, <2>14
    <3>3. NewestSurvives /\ covered \subseteq covered'
      BY <2>1 DEF OrderInv
    <3> QED
      BY <2>6, <2>7, <2>15, <3>1, <3>2, <3>3, Outlived
  <2>18. OrderInv'
    BY <2>4, <2>5, <2>15, <2>16, <2>17 DEF OrderInv
  <2>19. LWW!Offer
    <3> DEFINE e == [key |-> b, ver |-> VersionOf(heap[n])']
    <3>1. Entries(covered)' = Entries(covered) \cup {e}
      BY <2>1, <2>7, <2>8, <2>9 DEF Entries
    <3>2. e \in LWW!Entry
      BY <2>1, <2>3, <2>6, <2>8, SameEntry
    <3>3. Newest(Entries(Live))' = Newest(Entries(covered))'
      <4>1. (IndInv /\ OrderInv => Newest(Entries(Live)) = Newest(Entries(covered)))'
        BY NewestCovered, PTL
      <4> QED
        BY <2>18, <4>1
    <3>4. e \in Entries(covered)'
      BY <3>1
    <3> HIDE DEF e
    <3> QED
      BY <3>1, <3>2, <3>3, <3>4, SameNewest DEF LWW!Offer
  <2> QED
    BY <2>18, <2>19 DEF Judged, LWW!Next
<1> QED
  BY <1>1, <1>2

-----------------------------------------------------------------------------
(* The theorem on the rows.                                                *)

LEMMA InitOrder == Init => OrderInv
<1> SUFFICES ASSUME Init PROVE OrderInv
  OBVIOUS
<1>1. covered = {} /\ Live = {} /\ RowIds = {}
  BY EmptySeq DEF Init, Live, Range, RowIds
<1> QED
  BY <1>1 DEF OrderInv, StampsRise, Dated, LiveCovered, KeysApart, Apart, NewestSurvives

LEMMA NextKeepsOrder == IndInv /\ IndInv' /\ OrderInv /\ [Next]_vars => OrderInv' /\ Judged
<1> SUFFICES ASSUME IndInv, IndInv', OrderInv, [Next]_vars
             PROVE  OrderInv' /\ Judged
  OBVIOUS
<1>1. CASE \E s \in Creates : CreateTable(s)
  BY <1>1, CreatesAssumption, CreateTableOrder DEF CreatesAssumption
<1>2. CASE Alter
  <2>1. CASE \E c \in Column, after \in DOMAIN colDes : AddColumn(c, after)
    BY <2>1, AddColumnOrder
  <2>2. CASE \E c \in Column, i \in DOMAIN colDes : ChangeColumn(i, c)
    BY <2>2, IndexsKeptOrder DEF ChangeColumn, ctl
  <2>3. CASE \E i \in DOMAIN colDes : DropColumn(i)
    BY <2>3, IndexsKeptOrder DEF DropColumn, schema
  <2>4. CASE \E key \in AddedKeys : AddUniqueIndex(key)
    BY <2>4, ScanOrder, FailOrder DEF AddUniqueIndex, schema, IndInv, TypeOK, CtlType
  <2>5. CASE \E p \in BOOLEAN, nm \in KeyName \cup {""} : DropUniqueIndex(p, nm)
    BY <2>5, DropUniqueIndexOrder
  <2> QED
    BY <1>2, <2>1, <2>2, <2>3, <2>4, <2>5 DEF Alter
<1>3. CASE Recompute
  BY <1>3, DropFromIndexOrder, DropFinishOrder, ScanRowOrder, ScanDoneOrder DEF Recompute
<1>4. CASE Insert
  BY <1>4, InsertRowOrder, FailOrder DEF Insert, InsertRefused
<1>5. CASE UNCHANGED vars
  BY <1>5, IndexsKeptOrder DEF vars, schema, ctl
<1> QED
  BY <1>1, <1>2, <1>3, <1>4, <1>5 DEF Next

LEMMA SpecKeepsOrder == Spec => [](IndInv /\ OrderInv)
<1>1. Init => IndInv /\ OrderInv
  BY InitType, InitSafe, InitOrder DEF IndInv
<1>2. IndInv /\ OrderInv /\ [Next]_vars => (IndInv /\ OrderInv)'
  BY NextKeepsIndInv, NextKeepsOrder
<1> QED
  BY <1>1, <1>2, PTL DEF Spec

(* No update is lost, in the insertion, in reCompute at any row of it or   *)
(* between the steps of a DROP COLUMN: of the rows offered under the       *)
(* present key each is in the table, or a row of its key that beats it is. *)
THEOREM NewestRowsSurvive == Spec => []NewestSurvives
<1>1. OrderInv => NewestSurvives
  BY DEF OrderInv
<1> QED
  BY <1>1, SpecKeepsOrder, PTL

-----------------------------------------------------------------------------
(* The refinement.                                                         *)

LEMMA InitImplements == Init => LWW!Init
<1> SUFFICES ASSUME Init PROVE LWW!Init
  OBVIOUS
<1>1. covered = {} /\ Live = {}
  BY EmptySeq DEF Init, Live, Range
<1> QED
  BY <1>1 DEF LWW!Init, Entries, Newest

LEMMA StepImplements ==
  (IndInv /\ OrderInv) /\ (IndInv /\ OrderInv)' /\ [Next]_vars
    => [LWW!Next]_<<Entries(covered), Newest(Entries(Live))>>
<1> SUFFICES ASSUME IndInv, IndInv', OrderInv, OrderInv', [Next]_vars
             PROVE  [LWW!Next]_<<Entries(covered), Newest(Entries(Live))>>
  OBVIOUS
<1>1. CASE LWW!Next
  BY <1>1
<1>2. CASE Entries(covered)' = Entries(covered)
  <2>1. (IndInv /\ OrderInv => Newest(Entries(Live)) = Newest(Entries(covered)))'
    BY NewestCovered, PTL
  <2>2. Newest(Entries(Live)) = Newest(Entries(covered))
    BY NewestCovered
  <2>3. Newest(Entries(covered))' = Newest(Entries(covered)')
    OBVIOUS
  <2> QED
    BY <1>2, <2>1, <2>2, <2>3
<1> QED
  BY <1>1, <1>2, NextKeepsOrder DEF Judged

(* The table implements last-write-wins: whatever the schema, the          *)
(* statements, the order in which the sources' rows come and the collisions*)
(* of the hash, every step of the index and of its recomputations is a row *)
(* offered to a register per key, a regrouping under a new key, a new date *)
(* for every row, or invisible.                                            *)
THEOREM TableIsLastWriteWins == Spec => LastWriteWins
<1>1. Spec => [](IndInv /\ OrderInv)
  BY SpecKeepsOrder
<1> QED
  BY <1>1, InitImplements, StepImplements, PTL DEF Spec, LastWriteWins, LWW!Spec
=============================================================================
