---------------------------- MODULE SchemaTrace ----------------------------
(***************************************************************************)
(* The statements of a source on their way into the table: the splitter    *)
(* writes each to <state>.ddl (DDLCompatWriter), SubWorker reads it back   *)
(* (Statement, IOHelper) and carries it out on the table of UniqueTable.   *)
(* Rows are left out: what counts is whether the table still has the       *)
(* columns and the keys of the source, since the rows of <state>.dat have  *)
(* the source's columns in the source's order.                             *)
(*                                                                         *)
(* The writer strips backquotes from some names and not from others, so    *)
(* that "v" and "'v'" (for v in backquotes) are two names to the table.    *)
(***************************************************************************)
EXTENDS UniqueTable

CONSTANTS
  SourceCreates,  \* CREATE TABLE statements of the source
  SourceNames,    \* columns its ALTER statements add, drop and change
  SourceKeys,     \* unique keys they add
  Quote,          \* each name of the source, put in backquotes
  MaxMet          \* bound on the kinds of oddity after which a log goes on

AtEnd   == ""       \* where a column goes if the statement does not say, or
InFront == "FIRST"  \* in front; else it is the name of the column before it

(* Names of the source that the table may have, as they are or in          *)
(* backquotes.                                                             *)
SourceColumn ==
  {nm \in DOMAIN Quote \cap Name : Quote[nm] \in Name} \ {AtEnd, InFront}
SourceKeyName == {nm \in DOMAIN Quote \cap KeyName : Quote[nm] \in KeyName}

(* A primary key has no name of its own; a unique key that its statement   *)
(* does not name gets a name from the server.                              *)
SourceKey ==
  {key \in [name : SourceKeyName \cup {""}, isPrimary : BOOLEAN,
            names : (SUBSET SourceColumn) \ {{}}] :
     key.isPrimary <=> key.name = ""}

ASSUME TraceAssumption ==
  /\ IsInjective(Quote) /\ DOMAIN Quote \cap Range(Quote) = {}
  /\ "" \notin DOMAIN Quote /\ {"", "___TEMP_PRIMARY"} \cap KeyName = {}
  /\ SourceNames \subseteq SourceColumn
  /\ SourceKeys \subseteq SourceKey
  /\ MaxMet \in Nat

ASSUME SourceAssumption ==
  \A s \in SourceCreates :
    /\ s.cols \in Seq(SourceColumn) /\ s.cols # <<>> /\ Len(s.cols) <= MaxCols
    /\ IsInjective(s.cols)
    /\ s.keys \in Seq(SourceKey)
    /\ \A k \in DOMAIN s.keys : s.keys[k].names \subseteq Range(s.cols)
    /\ \A k, l \in DOMAIN s.keys : s.keys[k].name = s.keys[l].name => k = l

(* The code takes for granted that every table has its updated_at          *)
(* (design.txt:9), and keeps it.                                           *)
ASSUME UpdatedAtAssumption ==
  UpdName \notin SourceNames /\ \A s \in SourceCreates : UpdName \in Range(s.cols)

VARIABLES
  cols,   \* the source's columns, in order
  keys,   \* its unique keys
  met     \* history: what the statements so far had in them

sourceVars == <<cols, keys, met>>
traceVars  == <<vars, sourceVars>>

TraceInit == Init /\ cols = <<>> /\ keys = {} /\ met = {}

-----------------------------------------------------------------------------
(* A name in a statement, in backquotes if q, as getColumnName,            *)
(* getSimpleName and toString give it.                                     *)
Text(nm, q) == IF q /\ nm \in DOMAIN Quote THEN Quote[nm] ELSE nm

Bare(text) ==
  IF text \in Range(Quote) THEN CHOOSE nm \in DOMAIN Quote : Quote[nm] = text ELSE text

Met(things) == met' = met \cup things

(* If the condition holds, the thing.                                      *)
When(condition, thing) == IF condition THEN {thing} ELSE {}

(* What a lookup by name finds in the table.                               *)
Found(text) == \E i \in DOMAIN colDes : column[colDes[i]].name = text
At(text) == CHOOSE i \in DOMAIN colDes : column[colDes[i]].name = text

PlaceIn(list, nm) == CHOOSE i \in DOMAIN list : list[i] = nm

(* The list with a new name where the statement says, and without a name.  *)
Placed(list, nm, where) ==
  InsertAt(list, IF where = InFront THEN 1
                 ELSE IF where = AtEnd THEN Len(list) + 1
                 ELSE 1 + PlaceIn(list, where), nm)

Without(list, nm) == RemoveAt(list, PlaceIn(list, nm))

Places == {AtEnd, InFront} \cup Range(cols)

Ready == pc = "call" /\ Cardinality(met) <= MaxMet

-----------------------------------------------------------------------------
(* CREATE TABLE.  A statement written as SHOW CREATE TABLE does has its    *)
(* names in backquotes; only the names of keys keep them.  A column's own  *)
(* PRIMARY KEY is not among getMysqlKeys.                                  *)

(* Wrong: the names of columns keep them too.                              *)
StaysQuoted(nm, q) == Text(nm, q)

Stripped(nm, q) == nm

(* Wrong: only the primary key is a key.                                   *)
PrimaryOnly(ks) == SelectSeq(ks, LAMBDA k : k.isPrimary)

UniqueKeys(ks) == ks

(* The name the file has for a key.                                        *)
KeyText(key, q, unnamed) == IF key \in unnamed THEN "" ELSE Text(key.name, q)

(* A unique key without a name stays without one in the table.  One over   *)
(* the first ten letters of a column ("v(10)") is looked up under that     *)
(* name: the end of colDes is read.                                        *)
LogCreate(s, q, inline, prefix, unnamed) ==
  LET ks == UniqueKeys(s.keys)
      positions(key) == {i \in DOMAIN s.cols : s.cols[i] \in key.names}
  IN  /\ pc = "new"
      /\ cols' = s.cols /\ keys' = Range(s.keys)
      /\ inline => Len(s.keys) = 1
      /\ \A k \in unnamed : ~k.isPrimary
      /\ Met(When(inline, "inline") \cup When(prefix, "prefix") \cup When(unnamed # {}, "unnamed")
           \cup When(q /\ \E k \in keys' : k.name # "", "quotedKeys"))
      /\ IF prefix THEN Fail ELSE
           CreateTable([cols |-> [i \in DOMAIN s.cols |->
                                   [name |-> Stripped(s.cols[i], q), def |-> -1]],
                        keys |-> IF inline THEN <<>> ELSE
                                   [k \in DOMAIN ks |->
                                     [name |-> KeyText(ks[k], q, unnamed),
                                      isPrimary |-> ks[k].isPrimary,
                                      cols |-> positions(ks[k])]]])

-----------------------------------------------------------------------------
(* ALTER TABLE.  Only the first item is written, and of ADD (a, b) only    *)
(* the first column; here the item left out adds a column.                 *)

Another(list, more) ==
  IF more = AtEnd THEN list ELSE Append(list, more)

Mores(taken) == {AtEnd} \cup (SourceNames \ (Range(cols) \cup taken))

(* Wrong: AFTER is not written.                                            *)
AfterLost(where) == AtEnd

(* The column after AFTER, stripped; FIRST is not written.                 *)
AfterWritten(where) == IF where = InFront THEN AtEnd ELSE where

LogAddColumn(nm, where, q, more) ==
  LET after == AfterWritten(where)
      new   == [name |-> Text(nm, q), def |-> -1]
  IN  /\ Ready /\ nm \notin Range(cols) /\ Len(column) < MaxCols
      /\ cols' = Another(Placed(cols, nm, where), more)
      /\ UNCHANGED keys
      /\ Met(When(where = InFront, "first") \cup When(q, "quoted") \cup When(more # AtEnd, "several"))
      /\ \/ after = AtEnd /\ AddColumn(new, Len(colDes))
         \/ after # AtEnd /\ Found(after) /\ AddColumn(new, At(after))
         \/ after # AtEnd /\ ~Found(after) /\ Fail

(* The keys of the source without a column; one without any is gone.       *)
WithoutColumn(ks, nm) ==
  {k \in {[k EXCEPT !.names = @ \ {nm}] : k \in ks} : k.names # {}}

LogDropColumn(nm, q, more) ==
  /\ Ready /\ nm \in Range(cols) /\ Len(cols) > 1
  /\ cols' = Another(Without(cols, nm), more)
  /\ keys' = WithoutColumn(keys, nm)
  /\ Met(When(q, "quoted") \cup When(more # AtEnd, "several"))
  /\ \/ Found(Text(nm, q)) /\ DropColumn(At(Text(nm, q)))
     \/ ~Found(Text(nm, q)) /\ Fail

(* CHANGE COLUMN: where the column goes is not written.                    *)
LogChangeColumn(nm, to, where, q) ==
  LET renamed == [i \in DOMAIN cols |-> IF cols[i] = nm THEN to ELSE cols[i]]
  IN  /\ Ready /\ nm \in Range(cols) /\ to \notin Range(cols) \ {nm}
      /\ where \in {AtEnd, InFront}
      /\ cols' = IF where = AtEnd THEN renamed
                 ELSE Placed(Without(renamed, to), to, InFront)
      /\ keys' = {[k EXCEPT !.names = {IF c = nm THEN to ELSE c : c \in @}] : k \in keys}
      /\ Met(When(q, "quoted") \cup When(where # AtEnd, "moved"))
      /\ \/ Found(Text(nm, q)) /\ ChangeColumn(At(Text(nm, q)), [name |-> Text(to, q), def |-> -1])
         \/ ~Found(Text(nm, q)) /\ Fail

(* ADD PRIMARY KEY and ADD UNIQUE KEY.  A unique key without a name is a   *)
(* NullPointerException of the writer; a name that is not found, a prefix  *)
(* of a column among them, reads the end of colDes; a second key ends the  *)
(* SubWorker.                                                              *)
LogAddKey(key, q, named, prefix) ==
  LET texts == {Text(nm, q) : nm \in key.names}
      fine  == named /\ ~prefix /\ \A t \in texts : Found(t)
  IN  /\ Ready /\ key.names \subseteq Range(cols)
      /\ \A k \in keys : k.name # key.name
      /\ key.isPrimary => named
      /\ keys' = keys \cup {key} /\ UNCHANGED cols
      /\ Met(When(q, "quoted") \cup When(~named, "unnamed") \cup When(prefix, "prefix")
           \cup When(keys # {}, "second"))
      /\ \/ /\ fine
            /\ AddUniqueIndex([name |-> Text(key.name, q), isPrimary |-> key.isPrimary,
                               names |-> texts])
         \/ ~fine /\ Fail

DropsPrimary(key) == key.isPrimary

(* DROP PRIMARY KEY and DROP INDEX.  When the table has no such index it   *)
(* only says so.                                                           *)
LogDropKey(key, q) ==
  LET text == Text(key.name, q)
      fits == \E k \in DOMAIN indexs : Fits(k, DropsPrimary(key), text)
  IN  /\ Ready /\ key \in keys
      /\ keys' = keys \ {key} /\ UNCHANGED cols
      /\ Met(When(q, "quoted"))
      /\ \/ fits /\ DropUniqueIndex(DropsPrimary(key), text)
         \/ ~fits /\ UNCHANGED vars

(* CREATE UNIQUE INDEX and DROP INDEX as statements of their own are none  *)
(* of those dealEventData handles: the splitter passes them by.            *)
LogCreateIndex(key) ==
  /\ Ready /\ ~key.isPrimary /\ key.names \subseteq Range(cols)
  /\ \A k \in keys : k.name # key.name
  /\ keys' = keys \cup {key}
  /\ Met({"apart"}) /\ UNCHANGED <<vars, cols>>

LogDropIndex(key) ==
  /\ Ready /\ key \in keys
  /\ keys' = keys \ {key}
  /\ Met({"apart"}) /\ UNCHANGED <<vars, cols>>

(* ADD INDEX is written as NOTHING; a CREATE TABLE of a table that exists  *)
(* is refused by Trace.                                                    *)
LogNothing == Ready /\ UNCHANGED traceVars

(* MODIFY COLUMN, RENAME and whatever else the writer does not handle      *)
(* leaves a file that says ALTER and no more: no type to read.  Another    *)
(* constraint, as a foreign key, is a NullPointerException of the writer.  *)
LogUnhandled == Ready /\ Fail /\ Met({"unhandled"}) /\ UNCHANGED <<cols, keys>>

Log ==
  \/ \E s \in SourceCreates, q, inline, prefix \in BOOLEAN :
       \E unnamed \in SUBSET Range(s.keys) : LogCreate(s, q, inline, prefix, unnamed)
  \/ \E nm \in SourceNames, q \in BOOLEAN :
       \/ \E where \in Places, more \in Mores({nm}) : LogAddColumn(nm, where, q, more)
       \/ \E more \in Mores({nm}) : LogDropColumn(nm, q, more)
       \/ \E to \in SourceNames, where \in {AtEnd, InFront} : LogChangeColumn(nm, to, where, q)
  \/ \E key \in SourceKeys :
       \/ \E q, named, prefix \in BOOLEAN : LogAddKey(key, q, named, prefix)
       \/ LogCreateIndex(key)
  \/ \E key \in keys :
       \/ \E q \in BOOLEAN : LogDropKey(key, q)
       \/ LogDropIndex(key)
  \/ LogNothing \/ LogUnhandled

TraceNext == Log \/ (Recompute /\ UNCHANGED sourceVars)

TraceSpec == TraceInit /\ [][TraceNext]_traceVars

-----------------------------------------------------------------------------
(* What holds of the way.                                                  *)

(* The table's columns are the source's, in the source's order, so that    *)
(* each value of a row lands in its own column: unless a column was put    *)
(* FIRST or moved by CHANGE, or a statement had several items.  Backquotes *)
(* may end the process but never misplace a value.                         *)
ColumnsFollow ==
  pc = "call" /\ met \cap {"first", "moved", "several"} = {} =>
    cols = [i \in DOMAIN colDes |-> Bare(column[colDes[i]].name)]

KeyNames(ix) == [isPrimary |-> ix.isPrimary, names |-> {Bare(column[c].name) : c \in ix.cols}]

(* Rows compete in the table exactly if they do in the source: the unique  *)
(* keys are the source's, whatever columns they lost or had renamed;       *)
(* unless a key was written at its column, without a name (it is not found *)
(* under the one the server gave it) or in a CREATE or DROP INDEX          *)
(* statement, a statement had several items, or backquotes were used (a    *)
(* key keeps them in its name, and is not found when dropped without).     *)
KeysFollow ==
  pc = "call" /\ met \cap {"inline", "unnamed", "apart", "several", "quoted", "quotedKeys"} = {} =>
    {[isPrimary |-> k.isPrimary, names |-> k.names] : k \in keys}
      = {KeyNames(indexs[k]) : k \in {j \in DOMAIN indexs : ~indexs[j].isTemp}}

(* What ends the process, or the splitter, while the source went on: a log *)
(* with none of these never does.  A key that was dropped apart, or has no *)
(* name, stays in the table, and the next one is its second.               *)
EndsForAReason ==
  pc = "failed" =>
    met \cap {"prefix", "several", "quoted", "quotedKeys", "unnamed", "apart", "second",
              "unhandled"} # {}
=============================================================================
