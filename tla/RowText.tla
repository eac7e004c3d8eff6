------------------------------ MODULE RowText ------------------------------
(***************************************************************************)
(* The way of one row as text: RowParser and EscapeConvert write it to a   *)
(* .dat file, DATParser and EscapedResolver read it into the table, where  *)
(* a later ADD COLUMN may widen it, dumpToFile writes it to result.csv,    *)
(* Pusher makes it part of an INSERT, and the target reads that.           *)
(*                                                                         *)
(* A text is a sequence of characters.  Those that matter have names; the  *)
(* seven characters "_NUll_&" count as one, Marker.  A definition under    *)
(* "Wrong:" is a plausible mistake in the one after it, which no           *)
(* specification uses.                                                     *)
(***************************************************************************)
EXTENDS Integers, SequencesExt

CONSTANTS
  Width,     \* columns of the table
  Values,    \* texts a column may hold at the source
  Defaults,  \* DEFAULT clauses of the last column, NoDefault among them
  DQ, Esc, NL, Apos, Comma, Marker,  \* " \ line break ' , _NUll_&
  Zero       \* the character 0

(* What SQL writes without quotes.                                         *)
Null    == <<"NULL">>
Default == <<"DEFAULT">>

(* What DATParser and ADD COLUMN put where nothing was written.            *)
Blank == <<>>

Char == {DQ, Esc, NL, Apos, Comma, Marker, Zero, "x"}

(* The text of a DEFAULT clause without its quotes, and what it stands for *)
(* at source and target.                                                   *)
NoDefault == [text |-> <<NL, NL>>, value |-> Null]

ASSUME RowTextAssumption ==
  /\ Width \in Nat /\ Width > 2
  /\ IsInjective(<<DQ, Esc, NL, Apos, Comma, Marker, Zero, "x",
                   Null[1], Default[1]>>)
  /\ Values \subseteq Seq(Char)
  /\ Defaults \subseteq [text : Seq(Char), value : Values \cup {Null}]

Columns == 1..Width

VARIABLES
  row,      \* the row at the source, once all its columns are there
  image,    \* the columns that are in its event (binlog_row_image)
  late,     \* the last column was added by ALTER TABLE after the event
  deflt,    \* the DEFAULT clause of the last column
  pc,
  rest,     \* text not read
  line, i,  \* the line being read, and the next character
  cur,      \* parseEscaped's curPos, or the column the target reads
  vec,      \* the columns of the row being read
  rows,     \* the rows the table gets
  target    \* the rows the target gets

vars == <<row, image, late, deflt, pc, rest, line, i, cur, vec, rows, target>>
given == <<row, image, late, deflt>>

-----------------------------------------------------------------------------
(* EscapeConvert.convert: a backslash before each c.                       *)
Escaped(v, c) ==
  FlattenSeq([k \in DOMAIN v |-> IF v[k] = c THEN <<Esc, c>> ELSE <<v[k]>>])

(* Wrong: no escape.                                                       *)
Unescaped(v) == v

Convert(v) == Escaped(v, DQ)

(* RowParser.parseOneRow.                                                  *)
Field(v) == <<DQ>> \o (IF v = Null THEN <<Marker>> ELSE Convert(v)) \o <<DQ, Comma>>

(* The columns the table has when the row is read.                         *)
Read == IF late THEN Width - 1 ELSE Width

ParseOneRow ==
  Front(FlattenSeq([c \in 1..Read |-> IF c \in image THEN Field(row[c]) ELSE <<>>])) \o <<NL>>

Init ==
  /\ late \in BOOLEAN /\ deflt \in Defaults
  /\ row \in [Columns -> Values \cup {Null}]
  /\ late => row[Width] = deflt.value
  /\ image \in {1..Read, 2..Read}
  /\ pc = "line" /\ rest = ParseOneRow
  /\ line = <<>> /\ i = 1 /\ cur = 1 /\ vec = <<>> /\ rows = <<>> /\ target = <<>>

-----------------------------------------------------------------------------
(* DATParser::parseData and EscapedResolver::parseEscaped.                 *)

LineEnd == IF NL \in Range(rest) THEN SelectInSeq(rest, LAMBDA c : c = NL) ELSE Len(rest) + 1

GetLine ==
  /\ pc = "line" /\ rest # <<>>
  /\ line' = SubSeq(rest, 1, LineEnd - 1) /\ rest' = SubSeq(rest, LineEnd + 1, Len(rest))
  /\ i' = 2 /\ cur' = 1 /\ vec' = [c \in 1..Read |-> Blank]
  /\ pc' = "parse"
  /\ UNCHANGED <<given, rows, target>>

(* Wrong: the opening quote of the next column is not passed over.         *)
NextChar(k) == k + 2

(* From a closing quote to the text of the next column.                    *)
NextColumn(k) == k + 3

(* A character after the last column is written outside of the vector.     *)
Put(c) ==
  \/ cur <= Read /\ vec' = [vec EXCEPT ![cur] = Append(@, c)] /\ UNCHANGED pc
  \/ cur > Read /\ pc' = "failed" /\ UNCHANGED vec

ParseChar ==
  /\ pc = "parse" /\ i <= Len(line)
  /\ LET c == line[i]
     IN  \/ /\ c = Esc /\ i' = i + 2 /\ UNCHANGED cur
            /\ Put(IF i < Len(line) THEN line[i + 1] ELSE Zero)
         \/ c = DQ /\ cur' = cur + 1 /\ i' = NextColumn(i) /\ UNCHANGED <<vec, pc>>
         \/ c \notin {Esc, DQ} /\ i' = i + 1 /\ Put(c) /\ UNCHANGED cur
  /\ UNCHANGED <<given, rest, line, rows, target>>

EndOfLine ==
  /\ pc = "parse" /\ i > Len(line)
  /\ rows' = Append(rows, vec) /\ pc' = "line"
  /\ UNCHANGED <<given, rest, line, i, cur, vec, target>>

-----------------------------------------------------------------------------
(* Table::addColumn, dumpToFile, and Pusher::pushFromFile, of one row.     *)

Widened(r) ==
  IF late THEN Append(r, IF deflt = NoDefault THEN Blank ELSE deflt.text) ELSE r

(* Wrong: no escape.                                                       *)
PutPlain(v) == v

QuotedToStream(v) == Escaped(v, Apos)

Dumped(r, c) ==
  IF c = Width /\ deflt # NoDefault /\ r[c] = deflt.text THEN Default
  ELSE <<Apos>> \o QuotedToStream(r[c]) \o <<Apos>>

(* boost::replace_all(line, "'_NUll_&'", "null"): an apostrophe that is    *)
(* not escaped ends a value, so only its last characters can be replaced.  *)
NullPut(text) ==
  LET n == Len(text) - 3
  IN  IF n >= 0 /\ SubSeq(text, n + 1, n + 3) = <<Apos, Marker, Apos>>
      THEN SubSeq(text, 1, n) \o Null ELSE text

Csv(r) == Front(FlattenSeq([c \in Columns |-> Append(NullPut(Dumped(r, c)), Comma)]))

Push ==
  /\ pc = "line" /\ rest = <<>> /\ rows # <<>>
  /\ line' = Csv(Widened(Head(rows))) /\ rows' = Tail(rows)
  /\ i' = 1 /\ cur' = 1 /\ vec' = <<>>
  /\ pc' = "value"
  /\ UNCHANGED <<given, rest, target>>

-----------------------------------------------------------------------------
(* The target reads the values of a row.                                   *)

Value(v) == vec' = Append(vec, v) /\ pc' = "comma" /\ i' = i + 1

Here(c) == i <= Len(line) /\ line[i] = c

BeginValue ==
  /\ pc = "value"
  /\ \/ Here(Null[1]) /\ Value(Null)
     \/ Here(Default[1]) /\ Value(deflt.value)
     \/ Here(Apos) /\ vec' = Append(vec, <<>>) /\ pc' = "text" /\ i' = i + 1
     \/ /\ ~(\E c \in {Null[1], Default[1], Apos} : Here(c))
        /\ pc' = "refused" /\ UNCHANGED <<vec, i>>
  /\ UNCHANGED <<given, rest, line, cur, rows, target>>

Add(c) == vec' = [vec EXCEPT ![Len(vec)] = Append(@, c)] /\ UNCHANGED pc

ReadText ==
  /\ pc = "text" /\ i <= Len(line)
  /\ LET twice == i < Len(line) /\ line[i + 1] = Apos
     IN  \/ line[i] = Esc /\ i < Len(line) /\ Add(line[i + 1]) /\ i' = i + 2
         \/ line[i] = Apos /\ twice /\ Add(Apos) /\ i' = i + 2
         \/ line[i] = Apos /\ ~twice /\ pc' = "comma" /\ i' = i + 1 /\ UNCHANGED vec
         \/ line[i] \notin {Esc, Apos} /\ Add(line[i]) /\ i' = i + 1
  /\ UNCHANGED <<given, rest, line, cur, rows, target>>

EndValue ==
  /\ \/ pc = "comma" /\ Here(Comma) /\ pc' = "value" /\ i' = i + 1 /\ UNCHANGED target
     \/ pc = "comma" /\ i > Len(line) /\ Len(vec) = Width
        /\ target' = Append(target, vec) /\ pc' = "line" /\ UNCHANGED i
     \/ /\ \/ pc = "comma" /\ ~Here(Comma) /\ ~(i > Len(line) /\ Len(vec) = Width)
           \/ pc = "text" /\ (i > Len(line) \/ (i = Len(line) /\ line[i] = Esc))
        /\ pc' = "refused" /\ UNCHANGED <<i, target>>
  /\ UNCHANGED <<given, rest, line, cur, vec, rows>>

Done ==
  /\ pc = "line" /\ rest = <<>> /\ rows = <<>>
  /\ pc' = "done"
  /\ UNCHANGED <<given, rest, line, i, cur, vec, rows, target>>

Next ==
  \/ GetLine \/ ParseChar \/ EndOfLine \/ Push
  \/ BeginValue \/ ReadText \/ EndValue \/ Done

Spec == Init /\ [][Next]_vars

-----------------------------------------------------------------------------
(* What holds of the way.                                                  *)

Holds(c) == \E k \in Columns : c \in Range(row[k])

(* How the table keeps a value.                                            *)
Stored(v) == IF v = Null THEN <<Marker>> ELSE v

Whole == image = 1..Read

(* The row arrives as it was, and alone, if its event has every column, no *)
(* value has a backslash, a line break or the marker of NULL in it, the    *)
(* last one is not kept as the text of a DEFAULT that stands for something *)
(* else, and it was not added late without a DEFAULT (NULL at the source,  *)
(* an empty text at the target).  Quotes, apostrophes and commas are no    *)
(* matter.                                                                 *)
ArrivesAsWritten ==
  Whole /\ ~Holds(Esc) /\ ~Holds(NL) /\ ~Holds(Marker)
        /\ (deflt # NoDefault /\ Stored(row[Width]) = deflt.text => deflt.value = row[Width])
        /\ ~(late /\ deflt = NoDefault)
  => pc \notin {"failed", "refused"} /\ (pc = "done" => target = <<row>>)

(* parseEscaped never writes outside of its vector but for a backslash or  *)
(* a line break in a value: not for an event that lacks a column either.   *)
NeverOutside == pc = "failed" => Holds(Esc) \/ Holds(NL)

(* The target refuses a row, and with it all of its batch, only for one of *)
(* those or for a text with the marker in it: the marker alone is read as  *)
(* NULL.                                                                   *)
RefusedForAReason ==
  pc = "refused" =>
    Holds(Esc) \/ Holds(NL) \/ \E k \in Columns : Len(row[k]) > 1 /\ Marker \in Range(row[k])
=============================================================================
