---------------------------- MODULE RowTextProofs ----------------------------
(***************************************************************************)
(* Proofs that a row survives its way as text, for every width, every      *)
(* values and every DEFAULT clauses: what parseEscaped and the target have *)
(* read, and what is still ahead of them, is always the row.               *)
(***************************************************************************)
EXTENDS RowText, SequenceFacts

(* What can stand in a line.                                               *)
Sign == Char \cup {Null[1], Default[1]}

LEMMA SignsDiffer ==
  /\ Esc # DQ /\ Esc # Apos /\ Esc # Comma /\ Esc # Marker /\ Esc # NL
  /\ DQ # Comma /\ DQ # Marker /\ DQ # NL /\ Comma # NL /\ Marker # NL
  /\ Apos # Comma /\ Apos # Marker /\ Comma # Marker
  /\ Null[1] \notin Char /\ Default[1] \notin Char /\ Null[1] # Default[1]
<1> DEFINE signs == <<DQ, Esc, NL, Apos, Comma, Marker, Zero, "x", Null[1], Default[1]>>
<1>1. DOMAIN signs = 1..10 /\ signs[1] = DQ /\ signs[2] = Esc /\ signs[3] = NL
      /\ signs[4] = Apos /\ signs[5] = Comma /\ signs[6] = Marker /\ signs[7] = Zero
      /\ signs[8] = "x" /\ signs[9] = Null[1] /\ signs[10] = Default[1]
  OBVIOUS
<1>2. IsInjective(signs)
  BY RowTextAssumption DEF RowTextAssumption
<1> HIDE DEF signs
<1>3. \A j, k \in 1..10 : signs[j] = signs[k] => j = k
  BY <1>1, <1>2 DEF IsInjective
<1> QED
  BY <1>1, <1>3 DEF Char

LEMMA Signs ==
  /\ Char \subseteq Sign /\ {DQ, Esc, NL, Apos, Comma, Marker} \subseteq Char
  /\ Null \in Seq(Sign) /\ Default \in Seq(Sign)
BY SingletonSeq DEF Sign, Char, Null, Default

-----------------------------------------------------------------------------
(* Texts with a backslash before each c.                                   *)

Pieces(v, c) == [k \in DOMAIN v |-> IF v[k] = c THEN <<Esc, c>> ELSE <<v[k]>>]

LEMMA PiecesType ==
  ASSUME NEW S, NEW v \in Seq(S), NEW c \in S, Esc \in S
  PROVE  Pieces(v, c) \in Seq(Seq(S)) /\ Len(Pieces(v, c)) = Len(v)
<1>1. DOMAIN v = 1..Len(v) /\ Len(v) \in Nat /\ \A k \in 1..Len(v) : v[k] \in S
  OBVIOUS
<1>2. \A x \in S : <<x>> \in Seq(S)
  OBVIOUS
<1>3. <<Esc, c>> \in Seq(S)
  OBVIOUS
<1>4. Pieces(v, c) \in [1..Len(v) -> Seq(S)]
  BY <1>1, <1>2, <1>3 DEF Pieces
<1> QED
  BY <1>1, <1>4, FunctionIsSeq

LEMMA EscapedType ==
  ASSUME NEW S, NEW v \in Seq(S), NEW c \in S, Esc \in S
  PROVE  Escaped(v, c) \in Seq(S)
<1>1. Escaped(v, c) = FlattenSeq(Pieces(v, c))
  BY DEF Escaped, Pieces
<1> QED
  BY <1>1, PiecesType, FlattenType

LEMMA EscapedEmpty ==
  ASSUME NEW c
  PROVE  Escaped(<<>>, c) = <<>>
<1>1. [k \in DOMAIN <<>> |-> IF <<>>[k] = c THEN <<Esc, c>> ELSE << <<>>[k] >>] = <<>>
  OBVIOUS
<1> QED
  BY <1>1, FlattenEmpty DEF Escaped

LEMMA EscapedOn ==
  ASSUME NEW S, NEW v \in Seq(S), v # <<>>, NEW c \in S, Esc \in S
  PROVE  Escaped(v, c) = (IF v[1] = c THEN <<Esc, c>> ELSE <<v[1]>>) \o Escaped(Tail(v), c)
<1> DEFINE p == Pieces(v, c)
<1>1. p \in Seq(Seq(S)) /\ Len(p) = Len(v) /\ Len(v) \in Nat /\ Len(v) # 0 /\ DOMAIN v = 1..Len(v)
  BY PiecesType
<1>2. p # <<>>
  BY <1>1
<1>3. p[1] = IF v[1] = c THEN <<Esc, c>> ELSE <<v[1]>>
  BY <1>1 DEF Pieces
<1> DEFINE u == Tail(v)
<1>4. Tail(p) = Pieces(u, c)
  <2>1. u \in Seq(S) /\ Len(u) = Len(v) - 1 /\ \A k \in 1..(Len(v) - 1) : u[k] = v[k + 1]
    BY <1>1, HeadTailProperties
  <2> HIDE DEF u
  <2>2. Pieces(u, c) \in Seq(Seq(S)) /\ Len(Pieces(u, c)) = Len(u) /\ DOMAIN u = 1..Len(u)
    BY <2>1, PiecesType, LenProperties
  <2>3. Tail(p) \in Seq(Seq(S)) /\ Len(Tail(p)) = Len(v) - 1 /\ \A k \in 1..(Len(v) - 1) : Tail(p)[k] = p[k + 1]
    <3> HIDE DEF p
    <3> QED
      BY <1>1, <1>2, HeadTailProperties
  <2>4. ASSUME NEW k \in 1..(Len(v) - 1)
        PROVE  Tail(p)[k] = Pieces(u, c)[k]
    <3>1. k + 1 \in DOMAIN v /\ k \in DOMAIN u /\ u[k] = v[k + 1]
      BY <1>1, <2>1, <2>2
    <3>2. p[k + 1] = (IF v[k + 1] = c THEN <<Esc, c>> ELSE <<v[k + 1]>>)
      BY <3>1 DEF Pieces
    <3>3. Pieces(u, c)[k] = (IF u[k] = c THEN <<Esc, c>> ELSE <<u[k]>>)
      BY <3>1 DEF Pieces
    <3> QED
      BY <2>3, <3>1, <3>2, <3>3
  <2> HIDE DEF p
  <2> QED
    BY <2>1, <2>2, <2>3, <2>4, SeqEqual
<1>5. Escaped(v, c) = FlattenSeq(p) /\ Escaped(u, c) = FlattenSeq(Pieces(u, c))
  BY DEF Escaped, Pieces
<1> HIDE DEF p
<1>6. FlattenSeq(p) = Head(p) \o FlattenSeq(Tail(p)) /\ Head(p) = p[1]
  BY <1>1, <1>2, FlattenCons
<1> QED
  BY <1>3, <1>4, <1>5, <1>6

LEMMA EscapedSigns ==
  ASSUME NEW S, NEW v \in Seq(S), NEW c
  PROVE  Range(Escaped(v, c)) \subseteq Range(v) \cup {Esc, c}
<1>1. v \in Seq(Range(v))
  BY SeqOfRange
<1>2. v \in Seq(Range(v) \cup {Esc, c})
  BY <1>1, SeqMonotonic
<1>3. Escaped(v, c) \in Seq(Range(v) \cup {Esc, c})
  BY <1>2, EscapedType
<1> QED
  BY <1>3, RangeOfSeq

-----------------------------------------------------------------------------
(* What is ahead in a line, and the comma that would follow.               *)

Ahead(s, k) == SubSeq(s, k, Len(s)) \o <<Comma>>

LEMMA TailOfConcat ==
  ASSUME NEW S, NEW a \in S, NEW r \in Seq(S)
  PROVE  <<a>> \o r \in Seq(S) /\ <<a>> \o r # <<>> /\ (<<a>> \o r)[1] = a /\ Tail(<<a>> \o r) = r
<1> DEFINE s == <<a>> \o r
<1>1. <<a>> \in Seq(S) /\ Len(<<a>>) = 1 /\ <<a>>[1] = a /\ Len(r) \in Nat
  OBVIOUS
<1>2. s \in Seq(S) /\ Len(s) = 1 + Len(r)
      /\ \A j \in 1..(1 + Len(r)) : s[j] = IF j <= 1 THEN <<a>>[j] ELSE r[j - 1]
  BY <1>1, ConcatProperties
<1>3. s # <<>> /\ s[1] = a
  BY <1>1, <1>2
<1> HIDE DEF s
<1>4. Tail(s) \in Seq(S) /\ Len(Tail(s)) = Len(r) /\ \A j \in 1..Len(r) : Tail(s)[j] = s[j + 1]
  BY <1>1, <1>2, <1>3, HeadTailProperties
<1>5. \A j \in 1..Len(r) : Tail(s)[j] = r[j]
  BY <1>1, <1>2, <1>4
<1>6. Tail(s) = r
  BY <1>4, <1>5, SeqEqual
<1> QED
  BY <1>2, <1>3, <1>6 DEF s

LEMMA AheadType ==
  ASSUME NEW s \in Seq(Sign), NEW k \in Nat \ {0}
  PROVE  /\ Ahead(s, k) \in Seq(Sign)
         /\ k > Len(s) => Ahead(s, k) = <<Comma>>
         /\ k <= Len(s) => Ahead(s, k) = <<s[k]>> \o Ahead(s, k + 1)
<1>1. Comma \in Sign /\ <<Comma>> \in Seq(Sign) /\ Len(s) \in Nat
  BY Signs
<1>2. SubSeq(s, k, Len(s)) \in Seq(Sign)
  BY <1>1
<1>2a. Ahead(s, k) \in Seq(Sign)
  BY <1>1, <1>2, ConcatProperties DEF Ahead
<1>3. CASE k > Len(s)
  <2>1. SubSeq(s, k, Len(s)) = <<>>
    BY <1>1, <1>3, SubSeqEmpty
  <2>1a. Ahead(s, k) = <<Comma>>
    BY <1>1, <2>1, ConcatEmptySeq DEF Ahead
  <2> QED
    BY <1>1, <1>2a, <1>3, <2>1a
<1>4. CASE k <= Len(s)
  <2>1. k \in 1..Len(s) /\ Len(s) \in k..Len(s)
    BY <1>1, <1>4
  <2> DEFINE u == SubSeq(s, k + 1, Len(s))
  <2>2. SubSeq(s, k, Len(s)) = <<s[k]>> \o u
    BY <2>1, SubSeqRecursiveFirst
  <2>3. <<s[k]>> \in Seq(Sign) /\ u \in Seq(Sign)
    BY <1>1, <2>1
  <2>5. Ahead(s, k + 1) = u \o <<Comma>>
    BY DEF Ahead
  <2> HIDE DEF u
  <2>4. (<<s[k]>> \o u) \o <<Comma>> = <<s[k]>> \o (u \o <<Comma>>)
    BY <1>1, <2>3, ConcatAssociative
  <2>6. Ahead(s, k) = <<s[k]>> \o Ahead(s, k + 1)
    BY <2>2, <2>4, <2>5 DEF Ahead
  <2> QED
    BY <1>1, <1>2a, <1>4, <2>6
<1> QED
  BY <1>1, <1>2a, <1>3, <1>4

(* The next character, if more than one is ahead.                          *)
LEMMA NextSign ==
  ASSUME NEW s \in Seq(Sign), NEW k \in Nat \ {0}, NEW a \in Sign, NEW r \in Seq(Sign),
         Ahead(s, k) = Cons(a, r), r # <<>>
  PROVE  k <= Len(s) /\ s[k] = a /\ Ahead(s, k + 1) = r
<1>0. Ahead(s, k) = <<a>> \o r
  BY DEF Cons
<1>1. Len(<<a>> \o r) = 1 + Len(r) /\ (<<a>> \o r)[1] = a /\ Len(r) \in Nat /\ Len(r) # 0
      /\ <<a>> \in Seq(Sign)
  OBVIOUS
<1>2. k <= Len(s)
  <2>1. SUFFICES ASSUME k > Len(s) PROVE FALSE
    OBVIOUS
  <2>2. Ahead(s, k) = <<Comma>>
    BY <2>1, AheadType
  <2>3. Len(<<Comma>>) = 1
    OBVIOUS
  <2> QED
    BY <1>0, <1>1, <2>2, <2>3
<1>3. /\ Ahead(s, k) = <<s[k]>> \o Ahead(s, k + 1)
      /\ Ahead(s, k + 1) \in Seq(Sign) /\ s[k] \in Sign
  <2>1. k + 1 \in Nat \ {0} /\ k \in 1..Len(s)
    BY <1>2
  <2>2. s[k] \in Sign
    BY <2>1
  <2> QED
    BY <1>2, <2>1, <2>2, AheadType
<1>4. s[k] = a
  <2>1. (<<s[k]>> \o Ahead(s, k + 1))[1] = s[k]
    BY <1>3, TailOfConcat
  <2> QED
    BY <1>0, <1>1, <1>3, <2>1
<1>5. <<a>> \o Ahead(s, k + 1) = <<a>> \o r
  BY <1>0, <1>3, <1>4
<1>6. Ahead(s, k + 1) = r
  <2>1. Tail(<<a>> \o Ahead(s, k + 1)) = Ahead(s, k + 1) /\ Tail(<<a>> \o r) = r
    BY <1>3, TailOfConcat
  <2> QED
    BY <1>5, <2>1
<1> QED
  BY <1>2, <1>4, <1>6

-----------------------------------------------------------------------------
(* Texts from the k-th on, end to end.                                     *)

From(s, k) == FlattenSeq(SubSeq(s, k, Len(s)))

LEMMA FromType ==
  ASSUME NEW s \in Seq(Seq(Sign)), NEW k \in Nat \ {0}
  PROVE  /\ From(s, k) \in Seq(Sign)
         /\ k > Len(s) => From(s, k) = <<>>
         /\ k <= Len(s) => From(s, k) = s[k] \o From(s, k + 1)
<1>1. Len(s) \in Nat /\ SubSeq(s, k, Len(s)) \in Seq(Seq(Sign))
  OBVIOUS
<1>2. From(s, k) \in Seq(Sign)
  BY <1>1, FlattenType DEF From
<1>3. ASSUME k > Len(s)
      PROVE  From(s, k) = <<>>
  <2>1. SubSeq(s, k, Len(s)) = <<>>
    BY <1>1, <1>3, SubSeqEmpty
  <2> QED
    BY <2>1, FlattenEmpty DEF From
<1>4. ASSUME k <= Len(s)
      PROVE  From(s, k) = s[k] \o From(s, k + 1)
  <2> DEFINE u == SubSeq(s, k, Len(s))
  <2>1. k \in 1..Len(s) /\ Len(s) \in k..Len(s)
    BY <1>1, <1>4
  <2>2. Head(u) = s[k] /\ Tail(u) = SubSeq(s, k + 1, Len(s))
    BY <2>1, HeadTailOfSubSeq
  <2>3. u \in Seq(Seq(Sign)) /\ u # <<>>
    <3>1. u = <<s[k]>> \o SubSeq(s, k + 1, Len(s))
      BY <2>1, SubSeqRecursiveFirst
    <3>2. SubSeq(s, k + 1, Len(s)) \in Seq(Seq(Sign)) /\ s[k] \in Seq(Sign)
      BY <1>1, <2>1
    <3> QED
      BY <1>1, <3>1, <3>2, TailOfConcat
  <2> HIDE DEF u
  <2>4. FlattenSeq(u) = Head(u) \o FlattenSeq(Tail(u))
    BY <2>3, FlattenCons
  <2> QED
    BY <2>2, <2>4 DEF From, u
<1> QED
  BY <1>2, <1>3, <1>4

LEMMA FromFirst ==
  ASSUME NEW s \in Seq(Seq(Sign))
  PROVE  From(s, 1) = FlattenSeq(s)
BY SubSeqFull DEF From

(* A line is the front of what is written.                                 *)
LEMMA LineAhead ==
  ASSUME NEW t \in Seq(Sign), t # <<>>, Last(t) = Comma
  PROVE  Front(t) \in Seq(Sign) /\ Ahead(Front(t), 1) = t
<1>1. /\ Front(t) \in Seq(Sign) /\ t = Append(Front(t), Comma)
  BY FrontAndLast
<1>2. t = Front(t) \o <<Comma>>
  BY <1>1, Signs, AppendIsConcat
<1>3. SubSeq(Front(t), 1, Len(Front(t))) = Front(t)
  BY <1>1, SubSeqFull
<1> QED
  BY <1>1, <1>2, <1>3 DEF Ahead

-----------------------------------------------------------------------------
(* One character of a text that ends with c: a backslash comes with the c  *)
(* behind it.                                                              *)

Ended(w, c, tail) == Escaped(w, c) \o tail

LEMMA ReadEscaped ==
  ASSUME NEW s \in Seq(Sign), NEW k \in Nat \ {0}, NEW w \in Seq(Sign), NEW c \in Sign,
         NEW tail \in Seq(Sign), tail # <<>>, w # <<>>, Ahead(s, k) = Ended(w, c, tail)
  PROVE  /\ k <= Len(s)
         /\ w[1] = c => /\ s[k] = Esc /\ k < Len(s) /\ s[k + 1] = c
                        /\ Ahead(s, k + 2) = Ended(Tail(w), c, tail)
         /\ w[1] # c => s[k] = w[1] /\ Ahead(s, k + 1) = Ended(Tail(w), c, tail)
<1>0. \A j \in Nat \ {0}, a \in Sign, q \in Seq(Sign) :
        Ahead(s, j) = Cons(a, q) /\ q # <<>> => j <= Len(s) /\ s[j] = a /\ Ahead(s, j + 1) = q
  <2> SUFFICES ASSUME NEW j \in Nat \ {0}, NEW a \in Sign, NEW q \in Seq(Sign),
                      Ahead(s, j) = Cons(a, q), q # <<>>
               PROVE  j <= Len(s) /\ s[j] = a /\ Ahead(s, j + 1) = q
    OBVIOUS
  <2> QED
    BY NextSign
<1> DEFINE more == Escaped(Tail(w), c)
           r == more \o tail
<1>1. Esc \in Sign /\ Tail(w) \in Seq(Sign) /\ w[1] \in Sign
  BY Signs, FirstAndRest
<1>2. more \in Seq(Sign)
  BY <1>1, EscapedType
<1>3. Escaped(w, c) = (IF w[1] = c THEN <<Esc, c>> ELSE <<w[1]>>) \o more
  BY <1>1, EscapedOn
<1> HIDE DEF more
<1>4. r \in Seq(Sign) /\ r # <<>>
  BY <1>2
<1>5. \A x \in Sign : (<<x>> \o more) \o tail = <<x>> \o r
  <2> SUFFICES ASSUME NEW x \in Sign PROVE (<<x>> \o more) \o tail = <<x>> \o r
    OBVIOUS
  <2>1. <<x>> \in Seq(Sign)
    OBVIOUS
  <2> QED
    BY <1>2, <2>1, ConcatAssociative
<1>6. CASE w[1] # c
  <2>1. Ahead(s, k) = Cons(w[1], r)
    BY <1>1, <1>3, <1>5, <1>6 DEF Cons, Ended
  <2> HIDE DEF r
  <2>2. k <= Len(s) /\ s[k] = w[1] /\ Ahead(s, k + 1) = r
    BY <1>0, <1>1, <1>4, <2>1
  <2> QED
    BY <1>6, <2>2 DEF r, more, Ended
<1>7. CASE w[1] = c
  <2>1. <<Esc, c>> = <<Esc>> \o <<c>> /\ <<Esc>> \in Seq(Sign) /\ <<c>> \in Seq(Sign)
    BY <1>1
  <2>2. <<Esc, c>> \o more = <<Esc>> \o (<<c>> \o more) /\ <<c>> \o more \in Seq(Sign)
    BY <1>2, <2>1, ConcatAssociative, ConcatProperties
  <2>3. (<<Esc>> \o (<<c>> \o more)) \o tail = <<Esc>> \o ((<<c>> \o more) \o tail)
    BY <2>1, <2>2, ConcatAssociative
  <2>4. Ahead(s, k) = Cons(Esc, Cons(c, r))
    BY <1>3, <1>5, <1>7, <2>2, <2>3 DEF Cons, Ended
  <2> HIDE DEF r
  <2>5. Cons(c, r) \in Seq(Sign) /\ Cons(c, r) # <<>>
    BY <1>4, TailOfConcat DEF Cons
  <2>6. k <= Len(s) /\ s[k] = Esc /\ Ahead(s, k + 1) = Cons(c, r)
    BY <1>0, <1>1, <2>4, <2>5
  <2>7. k + 1 \in Nat \ {0} /\ (k + 1) + 1 = k + 2
    OBVIOUS
  <2>8. k + 1 <= Len(s) /\ s[k + 1] = c /\ Ahead(s, (k + 1) + 1) = r
    BY <1>0, <1>4, <2>6, <2>7
  <2> QED
    BY <1>7, <2>6, <2>7, <2>8 DEF r, more, Ended
<1> QED
  BY <1>6, <1>7

(* A character goes from what is left to what is read.                     *)
LEMMA OneOver ==
  ASSUME NEW S, NEW u \in Seq(S), NEW w \in Seq(S), w # <<>>
  PROVE  /\ Append(u, w[1]) \in Seq(S) /\ Tail(w) \in Seq(S) /\ w[1] \in Range(u \o w)
         /\ Append(u, w[1]) \o Tail(w) = u \o w
<1>1. w[1] \in S /\ Tail(w) \in Seq(S) /\ w = <<w[1]>> \o Tail(w) /\ 1 \in DOMAIN w
  BY FirstAndRest
<1>2. Append(u, w[1]) = u \o <<w[1]>> /\ Append(u, w[1]) \in Seq(S) /\ <<w[1]>> \in Seq(S)
  BY <1>1, AppendIsConcat
<1>3. (u \o <<w[1]>>) \o Tail(w) = u \o (<<w[1]>> \o Tail(w))
  BY <1>1, <1>2, ConcatAssociative
<1>4. w[1] \in Range(w)
  BY <1>1 DEF Range
<1>5. Range(u \o w) = Range(u) \cup Range(w)
  BY RangeConcatenation
<1> QED
  BY <1>1, <1>2, <1>3, <1>4, <1>5

-----------------------------------------------------------------------------
(* The row and its event.                                                  *)

GivenInv ==
  /\ late \in BOOLEAN /\ deflt \in Defaults
  /\ row \in [Columns -> Values \cup {Null}]
  /\ late => row[Width] = deflt.value
  /\ image \in {1..Read, 2..Read}

Clean == ~Holds(Esc) /\ ~Holds(NL)

(* The first column of the event, and the number of its columns.           *)
First == IF 1 \in image THEN 1 ELSE 2
Count == Read - First + 1

(* The text of a column in the event, and what is written for it.          *)
Text(c) == Stored(row[c])
Fields == [c \in 1..Read |-> IF c \in image THEN Field(row[c]) ELSE <<>>]

Closing == <<DQ, Comma>>

LEMMA Numbers ==
  ASSUME GivenInv
  PROVE  /\ Width \in Nat /\ Read \in Nat /\ 2 <= Read /\ Read <= Width /\ Width <= Read + 1
         /\ (late <=> Read = Width - 1)
         /\ First \in {1, 2} /\ image = First..Read /\ Count \in 1..Read
         /\ 1..Read \subseteq Columns
<1>1. Width \in Nat /\ Width > 2
  BY RowTextAssumption DEF RowTextAssumption
<1>2. Read \in Nat /\ 2 <= Read /\ Read <= Width /\ Width <= Read + 1 /\ (late <=> Read = Width - 1)
  BY <1>1 DEF Read, GivenInv
<1>3. First \in {1, 2} /\ image = First..Read
  BY <1>2 DEF First, GivenInv
<1> QED
  BY <1>1, <1>2, <1>3 DEF Count, Columns

LEMMA TextType ==
  ASSUME GivenInv, NEW c \in Columns
  PROVE  /\ Text(c) \in Seq(Char) /\ Text(c) \in Seq(Sign)
         /\ \A x \in Range(Text(c)) : Holds(x) \/ x = Marker
<1>1. row[c] \in Values \cup {Null}
  BY DEF GivenInv
<1>2. Values \subseteq Seq(Char) /\ Char \subseteq Sign /\ Marker \in Char
  BY RowTextAssumption, Signs DEF RowTextAssumption
<1>3. CASE row[c] = Null
  <2>1. Text(c) = <<Marker>>
    BY <1>3 DEF Text, Stored
  <2>2. <<Marker>> \in Seq(Char) /\ <<Marker>> \in Seq(Sign) /\ Range(<<Marker>>) = {Marker}
    BY <1>2 DEF Range
  <2> QED
    BY <2>1, <2>2
<1>4. CASE row[c] # Null
  <2>1. Text(c) = row[c] /\ row[c] \in Seq(Char)
    BY <1>1, <1>2, <1>4 DEF Text, Stored
  <2>2. row[c] \in Seq(Sign)
    BY <1>2, <2>1, SeqMonotonic
  <2> QED
    BY <2>1, <2>2 DEF Holds
<1> QED
  BY <1>3, <1>4

LEMMA MarkerEscaped ==
  ASSUME NEW c \in Sign, c # Marker
  PROVE  Escaped(<<Marker>>, c) = <<Marker>>
<1> DEFINE v == <<Marker>>
<1>1. v \in Seq(Sign) /\ v # <<>> /\ v[1] = Marker /\ Tail(v) = <<>> /\ Esc \in Sign
  BY Signs
<1>2. Escaped(v, c) = <<v[1]>> \o Escaped(Tail(v), c)
  BY <1>1, EscapedOn
<1>3. Escaped(Tail(v), c) = <<>>
  BY <1>1, EscapedEmpty
<1>4. <<Marker>> \o <<>> = <<Marker>>
  BY <1>1, ConcatEmptySeq
<1> QED
  BY <1>1, <1>2, <1>3, <1>4

LEMMA FieldIs ==
  ASSUME GivenInv, NEW c \in Columns
  PROVE  Field(row[c]) = <<DQ>> \o (Escaped(Text(c), DQ) \o Closing)
<1> DEFINE t == Escaped(Text(c), DQ)
<1>1. DQ \in Sign /\ DQ # Marker /\ Esc \in Sign /\ Comma \in Sign
  BY Signs, SignsDiffer
<1>2. t \in Seq(Sign)
  BY <1>1, TextType, EscapedType
<1>3. (IF row[c] = Null THEN <<Marker>> ELSE Convert(row[c])) = t
  BY <1>1, MarkerEscaped DEF Convert, Text, Stored
<1>4. Field(row[c]) = (<<DQ>> \o t) \o Closing
  BY <1>3 DEF Field, Closing
<1> HIDE DEF t
<1>5. <<DQ>> \in Seq(Sign) /\ Closing \in Seq(Sign)
  BY <1>1 DEF Closing
<1>6. (<<DQ>> \o t) \o Closing = <<DQ>> \o (t \o Closing)
  BY <1>2, <1>5, ConcatAssociative
<1> QED
  BY <1>4, <1>6 DEF t

(* Without a line break in a value there is none in what is written.       *)
Inline == Sign \ {NL}

LEMMA FieldType ==
  ASSUME GivenInv, NEW c \in Columns
  PROVE  /\ Field(row[c]) \in Seq(Sign)
         /\ Clean => Field(row[c]) \in Seq(Inline)
<1>1. /\ {DQ, Comma, Esc, Marker} \subseteq Inline /\ Inline \subseteq Sign
  BY Signs, SignsDiffer DEF Inline
<1>2. ASSUME NEW S, {DQ, Comma, Esc} \subseteq S, Text(c) \in Seq(S)
      PROVE  Field(row[c]) \in Seq(S)
  <2>1. Escaped(Text(c), DQ) \in Seq(S)
    BY <1>2, EscapedType
  <2>2. Closing \in Seq(S) /\ <<DQ>> \in Seq(S)
    BY <1>2 DEF Closing
  <2>3. Escaped(Text(c), DQ) \o Closing \in Seq(S)
    BY <2>1, <2>2, ConcatProperties
  <2>4. <<DQ>> \o (Escaped(Text(c), DQ) \o Closing) \in Seq(S)
    BY <2>2, <2>3, ConcatProperties
  <2> QED
    BY <2>4, FieldIs
<1>3. Field(row[c]) \in Seq(Sign)
  BY <1>1, <1>2, TextType
<1>4. ASSUME Clean
      PROVE  Text(c) \in Seq(Inline)
  <2>1. Text(c) \in Seq(Sign) /\ \A x \in Range(Text(c)) : Holds(x) \/ x = Marker
    BY TextType
  <2>2. Range(Text(c)) \subseteq Sign
    BY <2>1, RangeOfSeq
  <2>3. Range(Text(c)) \subseteq Inline
    BY <1>1, <1>4, <2>1, <2>2 DEF Clean, Inline
  <2>4. Text(c) \in Seq(Range(Text(c)))
    BY <2>1, SeqOfRange
  <2> QED
    BY <2>3, <2>4, SeqMonotonic
<1>5. Clean => Field(row[c]) \in Seq(Inline)
  BY <1>1, <1>2, <1>4
<1> QED
  BY <1>3, <1>5

LEMMA FieldsType ==
  ASSUME GivenInv
  PROVE  /\ Fields \in Seq(Seq(Sign)) /\ Len(Fields) = Read
         /\ Clean => Fields \in Seq(Seq(Inline))
         /\ \A c \in 1..Read : Fields[c] = IF c \in First..Read THEN Field(row[c]) ELSE <<>>
<1>1. Read \in Nat /\ 1..Read \subseteq Columns /\ image = First..Read
  BY Numbers
<1>2. \A c \in 1..Read : Fields[c] = IF c \in First..Read THEN Field(row[c]) ELSE <<>>
  BY <1>1 DEF Fields
<1>3. ASSUME NEW S, \A c \in 1..Read : Field(row[c]) \in Seq(S)
      PROVE  Fields \in Seq(Seq(S)) /\ Len(Fields) = Read
  <2>1. Fields \in [1..Read -> Seq(S)]
    BY <1>3, EmptySeq DEF Fields
  <2> QED
    BY <1>1, <2>1, FunctionIsSeq
<1>4. \A c \in 1..Read : Field(row[c]) \in Seq(Sign) /\ (Clean => Field(row[c]) \in Seq(Inline))
  BY <1>1, FieldType
<1>5. Fields \in Seq(Seq(Sign)) /\ Len(Fields) = Read
  BY <1>3, <1>4
<1>6. Clean => Fields \in Seq(Seq(Inline))
  BY <1>3, <1>4
<1> QED
  BY <1>2, <1>5, <1>6

(* What comes after the text of a column.                                  *)
After(c) == Cons(DQ, Cons(Comma, From(Fields, c + 1)))

LEMMA ConsType ==
  ASSUME NEW S, NEW a \in S, NEW r \in Seq(S)
  PROVE  Cons(a, r) \in Seq(S) /\ Cons(a, r) # <<>>
BY TailOfConcat DEF Cons

LEMMA AfterType ==
  ASSUME GivenInv, NEW c \in Nat
  PROVE  /\ From(Fields, c + 1) \in Seq(Sign) /\ Cons(Comma, From(Fields, c + 1)) \in Seq(Sign)
         /\ After(c) \in Seq(Sign) /\ After(c) # <<>>
<1>1. Fields \in Seq(Seq(Sign)) /\ c + 1 \in Nat \ {0}
  BY FieldsType
<1>2. From(Fields, c + 1) \in Seq(Sign)
  BY <1>1, FromType
<1>3. DQ \in Sign /\ Comma \in Sign
  BY Signs
<1>4. Cons(Comma, From(Fields, c + 1)) \in Seq(Sign)
  BY <1>2, <1>3, ConsType
<1>5. After(c) \in Seq(Sign) /\ After(c) # <<>>
  BY <1>3, <1>4, ConsType DEF After
<1> QED
  BY <1>2, <1>4, <1>5

LEMMA FieldAhead ==
  ASSUME GivenInv, NEW c \in First..Read
  PROVE  /\ From(Fields, c) = Cons(DQ, Ended(Text(c), DQ, After(c)))
         /\ Ended(Text(c), DQ, After(c)) \in Seq(Sign)
         /\ Ended(Text(c), DQ, After(c)) # <<>>
<1> DEFINE t == Escaped(Text(c), DQ)
           f == From(Fields, c + 1)
<1>1. /\ c \in 1..Read /\ c \in Nat \ {0} /\ c \in Columns /\ Read \in Nat
      /\ DQ \in Sign /\ Comma \in Sign /\ Esc \in Sign
  BY Numbers, Signs
<1>2. Fields \in Seq(Seq(Sign)) /\ Len(Fields) = Read /\ Fields[c] = Field(row[c])
  BY <1>1, FieldsType
<1>3. From(Fields, c) = Field(row[c]) \o f
  <2>1. c <= Len(Fields)
    BY <1>1, <1>2
  <2> QED
    BY <1>1, <1>2, <2>1, FromType
<1>4. t \in Seq(Sign)
  BY <1>1, TextType, EscapedType
<1>5. f \in Seq(Sign) /\ After(c) \in Seq(Sign) /\ After(c) # <<>>
  BY <1>1, AfterType
<1>6. Field(row[c]) = <<DQ>> \o (t \o Closing)
  BY <1>1, FieldIs
<1> HIDE DEF t
<1>7. After(c) = Closing \o f
  <2>1. Closing = <<DQ>> \o <<Comma>> /\ <<DQ>> \in Seq(Sign) /\ <<Comma>> \in Seq(Sign)
    BY <1>1 DEF Closing
  <2>2. After(c) = <<DQ>> \o (<<Comma>> \o f)
    BY DEF After, Cons
  <2> HIDE DEF f
  <2>3. (<<DQ>> \o <<Comma>>) \o f = <<DQ>> \o (<<Comma>> \o f)
    BY <1>5, <2>1, ConcatAssociative
  <2> QED
    BY <2>1, <2>2, <2>3
<1> HIDE DEF f
<1>8. Closing \in Seq(Sign) /\ <<DQ>> \in Seq(Sign) /\ t \o Closing \in Seq(Sign)
  BY <1>1, <1>4 DEF Closing
<1>9. (<<DQ>> \o (t \o Closing)) \o f = <<DQ>> \o ((t \o Closing) \o f)
  BY <1>5, <1>8, ConcatAssociative
<1>10. (t \o Closing) \o f = t \o (Closing \o f)
  BY <1>4, <1>5, <1>8, ConcatAssociative
<1>11. From(Fields, c) = Cons(DQ, t \o After(c))
  BY <1>3, <1>6, <1>7, <1>9, <1>10 DEF Cons
<1>12. t \o After(c) \in Seq(Sign)
  BY <1>4, <1>5, ConcatProperties
<1>13. t \o After(c) # <<>>
  BY <1>4, <1>5, ConcatEqualIffEmpty
<1> QED
  BY <1>11, <1>12, <1>13 DEF t, Ended

-----------------------------------------------------------------------------
(* The line that is written, without its line break, and with a comma.     *)

Written == FlattenSeq(Fields)

LEMMA WrittenFacts ==
  ASSUME GivenInv
  PROVE  /\ Written = From(Fields, First) /\ Written \in Seq(Sign) /\ Written # <<>>
         /\ Last(Written) = Comma
         /\ Clean => Written \in Seq(Inline)
         /\ ParseOneRow = Front(Written) \o <<NL>>
<1>1. /\ Fields \in Seq(Seq(Sign)) /\ Len(Fields) = Read
      /\ Clean => Fields \in Seq(Seq(Inline))
      /\ \A c \in 1..Read : Fields[c] = IF c \in First..Read THEN Field(row[c]) ELSE <<>>
  BY FieldsType
<1>2. Read \in Nat /\ 2 <= Read /\ First \in {1, 2} /\ Read \in Columns /\ Read \in First..Read
  BY Numbers
<1>3. ParseOneRow = Front(Written) \o <<NL>>
  BY DEF ParseOneRow, Written, Fields
<1>4. Written \in Seq(Sign) /\ (Clean => Written \in Seq(Inline))
  BY <1>1, FlattenType DEF Written
<1>5. Written = From(Fields, First)
  <2>1. Written = From(Fields, 1)
    BY <1>1, FromFirst DEF Written
  <2>2. CASE First = 1
    BY <2>1, <2>2
  <2>3. CASE First = 2
    <3>1. 1 \in Nat \ {0} /\ 1 <= Len(Fields) /\ 1 + 1 = 2 /\ 2 \in Nat \ {0}
      BY <1>1, <1>2
    <3>2. From(Fields, 1) = Fields[1] \o From(Fields, 2)
      BY <1>1, <3>1, FromType
    <3>3. Fields[1] = <<>>
      BY <1>1, <1>2, <2>3
    <3>4. From(Fields, 2) \in Seq(Sign)
      BY <1>1, <3>1, FromType
    <3> QED
      BY <2>1, <2>3, <3>2, <3>3, <3>4, ConcatEmptySeq
  <2> QED
    BY <1>2, <2>2, <2>3
<1>6. Written # <<>> /\ Last(Written) = Comma
  <2> DEFINE f == Front(Fields)
             t == Escaped(Text(Read), DQ)
  <2>1. /\ f \in Seq(Seq(Sign)) /\ Fields = Append(f, Fields[Read])
    <3>1. Fields # <<>> /\ Last(Fields) = Fields[Read]
      BY <1>1, <1>2 DEF Last
    <3> QED
      BY <1>1, <3>1, FrontAndLast
  <2>2. Fields[Read] = Field(row[Read]) /\ Field(row[Read]) \in Seq(Sign)
    BY <1>1, <1>2, FieldType
  <2> HIDE DEF f
  <2>3. Written = FlattenSeq(f) \o Field(row[Read])
    BY <2>1, <2>2, FlattenAppend DEF Written
  <2>4. FlattenSeq(f) \in Seq(Sign)
    BY <2>1, FlattenType
  <2>5. t \in Seq(Sign)
    BY <1>2, Signs, TextType, EscapedType
  <2>6. Field(row[Read]) = <<DQ>> \o (t \o Closing)
    BY <1>2, FieldIs
  <2> HIDE DEF t
  <2>7. ASSUME NEW u \in Seq(Sign), NEW v \in Seq(Sign), v # <<>>, Last(v) = Comma
        PROVE  u \o v \in Seq(Sign) /\ u \o v # <<>> /\ Last(u \o v) = Comma
    BY <2>7 DEF Last
  <2>8. Closing \in Seq(Sign) /\ Closing # <<>> /\ Last(Closing) = Comma /\ <<DQ>> \in Seq(Sign)
    BY Signs DEF Closing, Last
  <2> QED
    BY <2>3, <2>4, <2>5, <2>6, <2>7, <2>8
<1> QED
  BY <1>3, <1>4, <1>5, <1>6

-----------------------------------------------------------------------------
(* Where the row is on its way to the table: not read, half read, or kept. *)
(* What parseEscaped has of a column and what is left of it are its text.  *)

Taken == [c \in 1..Read |-> IF c <= Count THEN Text(c + First - 1) ELSE Blank]

Unread == pc = "line" /\ rest = ParseOneRow /\ rows = <<>> /\ target = <<>>

Parsing ==
  /\ pc = "parse" /\ rest = <<>> /\ rows = <<>> /\ target = <<>>
  /\ line \in Seq(Sign) /\ i \in Nat \ {0} /\ cur \in 1..(Count + 1)
  /\ vec \in [1..Read -> Seq(Sign)]
  /\ \A c \in 1..Read : (c < cur => vec[c] = Taken[c]) /\ (c > cur => vec[c] = Blank)
  /\ cur > Count => i > Len(line) /\ (cur <= Read => vec[cur] = Blank)
  /\ cur <= Count =>
       \E w \in Seq(Sign) : /\ vec[cur] \o w = Taken[cur]
                            /\ Ahead(line, i) = Ended(w, DQ, After(cur + First - 1))

Kept == pc = "line" /\ rest = <<>> /\ rows = <<Taken>> /\ target = <<>>

Beyond ==
  pc \in {"value", "text", "comma", "refused", "line", "done"} /\ rest = <<>> /\ rows = <<>>

DecodeInv == Clean => Unread \/ Parsing \/ Kept \/ Beyond

LEMMA SameGiven ==
  ASSUME UNCHANGED given
  PROVE  /\ Clean' = Clean /\ Taken' = Taken /\ Read' = Read /\ Count' = Count /\ First' = First
         /\ Fields' = Fields /\ ParseOneRow' = ParseOneRow
         /\ \A c : After(c)' = After(c)
         /\ GivenInv' = GivenInv
<1>1. row' = row /\ image' = image /\ late' = late /\ deflt' = deflt
  BY DEF given
<1>2. Read' = Read /\ First' = First
  BY <1>1 DEF Read, First
<1>3. Count' = Count
  BY <1>2 DEF Count
<1>4. Taken' = Taken
  BY <1>1, <1>2, <1>3 DEF Taken, Text
<1>5. Fields' = Fields
  BY <1>1, <1>2 DEF Fields
<1>6. ParseOneRow' = ParseOneRow
  BY <1>1, <1>2 DEF ParseOneRow
<1>7. \A c : After(c)' = After(c)
  BY <1>5 DEF After
<1>8. Clean' = Clean
  BY <1>1 DEF Clean, Holds
<1>9. GivenInv' = GivenInv
  BY <1>1, <1>2 DEF GivenInv
<1> QED
  BY <1>2, <1>3, <1>4, <1>5, <1>6, <1>7, <1>8, <1>9

LEMMA LastSign ==
  ASSUME NEW s \in Seq(Sign), NEW k \in Nat \ {0}, Ahead(s, k) = <<Comma>>
  PROVE  k > Len(s)
<1>1. SUFFICES ASSUME k <= Len(s) PROVE FALSE
  OBVIOUS
<1>2. k + 1 \in Nat \ {0} /\ s[k] \in Sign
  BY <1>1
<1>3. Ahead(s, k + 1) \in Seq(Sign)
  BY <1>2, AheadType
<1>4. Ahead(s, k) = <<s[k]>> \o Ahead(s, k + 1)
  BY <1>1, AheadType
<1>5. Ahead(s, k + 1) = Tail(<<Comma>>)
  <2> DEFINE a == s[k]
             r == Ahead(s, k + 1)
  <2>1. a \in Sign /\ r \in Seq(Sign) /\ <<Comma>> = <<a>> \o r
    BY <1>2, <1>3, <1>4
  <2> HIDE DEF a, r
  <2>2. Tail(<<a>> \o r) = r
    BY <2>1, TailOfConcat
  <2> QED
    BY <2>1, <2>2 DEF r
<1>6. Tail(<<Comma>>) = <<>>
  OBVIOUS
<1>7. SubSeq(s, k + 1, Len(s)) \o <<Comma>> # <<>>
  <2> DEFINE u == SubSeq(s, k + 1, Len(s))
  <2>1. u \in Seq(Sign) /\ <<Comma>> \in Seq(Sign) /\ <<Comma>> # <<>>
    BY <1>2, Signs
  <2> HIDE DEF u
  <2>2. u \o <<Comma>> # <<>>
    BY <2>1, ConcatEqualIffEmpty
  <2> QED
    BY <2>2 DEF u
<1> QED
  BY <1>5, <1>6, <1>7 DEF Ahead

LEMMA TakenType ==
  ASSUME GivenInv
  PROVE  /\ Taken \in [1..Read -> Seq(Sign)]
         /\ \A c \in 1..Count : c + First - 1 \in First..Read /\ Taken[c] = Text(c + First - 1)
         /\ \A c \in 1..Read : c > Count => Taken[c] = Blank
<1>1. /\ Read \in Nat /\ First \in {1, 2} /\ Count \in 1..Read /\ Count = Read - First + 1
      /\ 1..Read \subseteq Columns
  BY Numbers DEF Count
<1>2. \A c \in 1..Count : c + First - 1 \in First..Read /\ c \in 1..Read
  BY <1>1
<1>3. \A c \in First..Read : Text(c) \in Seq(Sign)
  BY <1>1, TextType
<1>4. \A c \in 1..Read : c <= Count => c + First - 1 \in First..Read
  BY <1>1, <1>2
<1>5. Taken \in [1..Read -> Seq(Sign)]
  BY <1>3, <1>4, EmptySeq DEF Taken, Blank
<1>6. \A c \in 1..Count : Taken[c] = Text(c + First - 1)
  BY <1>1, <1>2 DEF Taken
<1>7. \A c \in 1..Read : c > Count => Taken[c] = Blank
  BY <1>1 DEF Taken
<1> QED
  BY <1>2, <1>5, <1>6, <1>7

(* getline takes all of it.                                                *)
LEMMA GetLineParses ==
  ASSUME GivenInv, Clean, Unread, GetLine
  PROVE  Parsing'
<1> DEFINE n == Len(Written)
           f == Front(Written)
<1>1. /\ Written = From(Fields, First) /\ Written \in Seq(Sign) /\ Written # <<>>
      /\ Last(Written) = Comma /\ Written \in Seq(Inline) /\ rest = f \o <<NL>>
  BY WrittenFacts DEF Unread
<1>2. f \in Seq(Inline) /\ f \in Seq(Sign) /\ Len(f) = n - 1 /\ n \in Nat \ {0} /\ Ahead(f, 1) = Written
  <2>1. f \in Seq(Inline) /\ Len(f) = n - 1
    BY <1>1, FrontAndLast
  <2>2. f \in Seq(Sign) /\ Ahead(f, 1) = Written
    BY <1>1, LineAhead
  <2>3. n \in Nat \ {0}
    BY <1>1
  <2> QED
    BY <2>1, <2>2, <2>3
<1>3. NL \in Sign /\ <<NL>> \in Seq(Sign) /\ Len(<<NL>>) = 1 /\ <<NL>>[1] = NL
  BY Signs
<1> HIDE DEF n, f
<1>4. /\ rest \in Seq(Sign) /\ Len(rest) = n /\ rest[n] = NL
      /\ \A j \in 1..(n - 1) : rest[j] = f[j]
  BY <1>1, <1>2, <1>3, ConcatProperties
<1>5. \A j \in 1..(n - 1) : rest[j] # NL
  BY <1>2, <1>4, ElementOfSeq DEF Inline
<1>6. LineEnd = n
  <2> DEFINE I == {j \in 1..Len(rest) : rest[j] = NL}
  <2>1. I = {n}
    BY <1>2, <1>4, <1>5
  <2>2. NL \in Range(rest)
    BY <1>2, <1>4 DEF Range
  <2>3. LineEnd = Min(I)
    BY <2>1, <2>2 DEF LineEnd, SelectInSeq
  <2>4. Min({n}) = n
    BY <1>2 DEF Min
  <2> QED
    BY <2>1, <2>3, <2>4
<1>7. line' = f
  <2>1. line' = SubSeq(rest, 1, n - 1)
    BY <1>6 DEF GetLine
  <2>2. SubSeq(rest, 1, n - 1) \in Seq(Sign) /\ Len(SubSeq(rest, 1, n - 1)) = n - 1
        /\ \A j \in 1..(n - 1) : SubSeq(rest, 1, n - 1)[j] = rest[j]
    BY <1>2, <1>4
  <2> QED
    BY <1>2, <1>4, <2>1, <2>2, SeqEqual
<1>8. rest' = <<>>
  <2>1. rest' = SubSeq(rest, n + 1, n)
    BY <1>4, <1>6 DEF GetLine
  <2> QED
    BY <1>2, <2>1, SubSeqEmpty
<1>9. /\ pc' = "parse" /\ rows' = <<>> /\ target' = <<>> /\ i' = 2 /\ cur' = 1
      /\ vec' = [c \in 1..Read |-> Blank] /\ UNCHANGED given
  BY DEF GetLine, Unread
<1>10. /\ Taken' = Taken /\ Read' = Read /\ Count' = Count /\ First' = First
       /\ \A c : After(c)' = After(c)
  BY <1>9, SameGiven
<1>11. Read \in Nat /\ First \in First..Read /\ Count \in 1..Read /\ 1 + First - 1 = First
       /\ First \in Nat \ {0} /\ DQ \in Sign
  BY Numbers, Signs
<1>12. Ahead(f, 2) = Ended(Text(First), DQ, After(First))
  <2> DEFINE r == Ended(Text(First), DQ, After(First))
  <2>1. Ahead(f, 1) = Cons(DQ, r) /\ r \in Seq(Sign) /\ r # <<>>
    BY <1>1, <1>2, <1>11, FieldAhead
  <2> HIDE DEF r
  <2>2. Ahead(f, 1 + 1) = r
    BY <1>2, <1>11, <2>1, 1 \in Nat \ {0}, NextSign
  <2> QED
    BY <2>2 DEF r
<1>13. Taken[1] = Text(First) /\ Text(First) \in Seq(Sign)
  BY <1>11, TakenType, TextType, Numbers
<1>14. /\ vec' \in [1..Read -> Seq(Sign)] /\ \A c \in 1..Read : vec'[c] = Blank
  BY <1>9, EmptySeq DEF Blank
<1>15. vec'[1] \o Text(First) = Taken[1]
  BY <1>11, <1>13, <1>14, ConcatEmptySeq DEF Blank
<1>16. \E w \in Seq(Sign) : /\ vec'[1] \o w = Taken[1]
                            /\ Ahead(f, 2) = Ended(w, DQ, After(First))
  BY <1>12, <1>13, <1>15
<1>17. 1 \in 1..(Count + 1) /\ 1 <= Count /\ 2 \in Nat \ {0}
  BY <1>11
<1>18. \A c \in 1..Read : ~(c < 1)
  BY <1>11
<1> QED
  BY <1>2, <1>7, <1>8, <1>9, <1>10, <1>11, <1>14, <1>16, <1>17, <1>18 DEF Parsing

(* In the midst of a line there is a column for what comes.                *)
LEMMA MidLine ==
  ASSUME GivenInv, Parsing, i <= Len(line)
  PROVE  /\ cur \in 1..Count /\ cur \in 1..Read /\ cur + First - 1 \in First..Read
         /\ vec[cur] \in Seq(Sign) /\ Taken[cur] = Text(cur + First - 1)
         /\ Taken[cur] \in Seq(Sign) /\ cur + First - 1 \in Columns
<1>1. Count \in 1..Read /\ Read \in Nat /\ 1..Read \subseteq Columns /\ First \in {1, 2}
  BY Numbers
<1>2. cur \in 1..(Count + 1) /\ (cur > Count => i > Len(line)) /\ vec \in [1..Read -> Seq(Sign)]
      /\ line \in Seq(Sign) /\ i \in Nat
  BY DEF Parsing
<1>3. cur \in 1..Count
  <2>1. Len(line) \in Nat
    BY <1>2
  <2> QED
    BY <1>1, <1>2, <2>1
<1>4. cur \in 1..Read
  BY <1>1, <1>3
<1>5. /\ cur + First - 1 \in First..Read /\ Taken[cur] = Text(cur + First - 1)
      /\ Taken \in [1..Read -> Seq(Sign)]
  BY <1>3, TakenType
<1>6. cur + First - 1 \in 1..Read
  BY <1>1, <1>5
<1> QED
  BY <1>1, <1>2, <1>3, <1>4, <1>5, <1>6

(* A character of a text.                                                  *)
LEMMA TextCharParses ==
  ASSUME GivenInv, Clean, Parsing, ParseChar,
         NEW w \in Seq(Sign), w # <<>>, vec[cur] \o w = Taken[cur],
         Ahead(line, i) = Ended(w, DQ, After(cur + First - 1))
  PROVE  Parsing'
<1> DEFINE c == cur + First - 1
<1>1. i <= Len(line) /\ line \in Seq(Sign) /\ i \in Nat \ {0} /\ vec \in [1..Read -> Seq(Sign)]
  BY DEF Parsing, ParseChar
<1>2. /\ cur \in 1..Count /\ cur \in 1..Read /\ c \in First..Read /\ vec[cur] \in Seq(Sign)
      /\ Taken[cur] = Text(c) /\ c \in Columns
  BY <1>1, MidLine
<1>3. DQ \in Sign /\ Esc # DQ /\ Read \in Nat /\ Count \in 1..Read /\ c \in Nat
  BY <1>2, Signs, SignsDiffer, Numbers
<1> HIDE DEF c
<1>4. After(c) \in Seq(Sign) /\ After(c) # <<>> /\ Ahead(line, i) = Ended(w, DQ, After(c))
  BY <1>3, AfterType DEF c
<1>5. /\ w[1] = DQ => /\ line[i] = Esc /\ i < Len(line) /\ line[i + 1] = DQ
                      /\ Ahead(line, i + 2) = Ended(Tail(w), DQ, After(c))
      /\ w[1] # DQ => line[i] = w[1] /\ Ahead(line, i + 1) = Ended(Tail(w), DQ, After(c))
  <2> DEFINE tail == After(c)
  <2>1. tail \in Seq(Sign) /\ tail # <<>> /\ Ahead(line, i) = Ended(w, DQ, tail)
    BY <1>4
  <2> HIDE DEF tail
  <2>2. /\ w[1] = DQ => /\ line[i] = Esc /\ i < Len(line) /\ line[i + 1] = DQ
                        /\ Ahead(line, i + 2) = Ended(Tail(w), DQ, tail)
        /\ w[1] # DQ => line[i] = w[1] /\ Ahead(line, i + 1) = Ended(Tail(w), DQ, tail)
    BY <1>1, <1>3, <2>1, ReadEscaped
  <2> QED
    BY <2>2 DEF tail
<1>6. /\ Append(vec[cur], w[1]) \in Seq(Sign) /\ Tail(w) \in Seq(Sign)
      /\ w[1] \in Range(Taken[cur]) /\ Append(vec[cur], w[1]) \o Tail(w) = Taken[cur]
  <2> DEFINE u == vec[cur]
  <2>1. u \in Seq(Sign) /\ u \o w = Taken[cur]
    BY <1>2
  <2> HIDE DEF u
  <2>2. /\ Append(u, w[1]) \in Seq(Sign) /\ Tail(w) \in Seq(Sign) /\ w[1] \in Range(u \o w)
        /\ Append(u, w[1]) \o Tail(w) = u \o w
    <3>1. \A v \in Seq(Sign) :
            /\ Append(v, w[1]) \in Seq(Sign) /\ Tail(w) \in Seq(Sign) /\ w[1] \in Range(v \o w)
            /\ Append(v, w[1]) \o Tail(w) = v \o w
      BY OneOver
    <3> QED
      BY <2>1, <3>1
  <2> QED
    BY <2>1, <2>2 DEF u
<1>7. w[1] # Esc
  BY <1>2, <1>6, TextType, SignsDiffer DEF Clean
<1>8. /\ cur' = cur /\ pc' = pc /\ vec' = [vec EXCEPT ![cur] = Append(@, w[1])]
      /\ i' = (IF w[1] = DQ THEN i + 2 ELSE i + 1)
      /\ UNCHANGED <<given, rest, line, rows, target>>
  <2>1. CASE w[1] = DQ
    <3>1. line[i] = Esc /\ Esc # DQ /\ (IF i < Len(line) THEN line[i + 1] ELSE Zero) = DQ
      BY <1>3, <1>5, <2>1
    <3>2. /\ i' = i + 2 /\ cur' = cur /\ Put(DQ) /\ UNCHANGED <<given, rest, line, rows, target>>
      BY <3>1 DEF ParseChar
    <3> QED
      BY <1>2, <1>3, <2>1, <3>2 DEF Put
  <2>2. CASE w[1] # DQ
    <3>1. line[i] = w[1] /\ w[1] \notin {Esc, DQ}
      BY <1>5, <1>7, <2>2
    <3>2. /\ i' = i + 1 /\ cur' = cur /\ Put(w[1]) /\ UNCHANGED <<given, rest, line, rows, target>>
      BY <3>1 DEF ParseChar
    <3> QED
      BY <1>2, <1>3, <2>2, <3>2 DEF Put
  <2> QED
    BY <2>1, <2>2
<1>9. Ahead(line, i') = Ended(Tail(w), DQ, After(c)) /\ i' \in Nat \ {0}
  BY <1>1, <1>5, <1>8
<1>10. /\ Taken' = Taken /\ Read' = Read /\ Count' = Count /\ First' = First
       /\ \A d : After(d)' = After(d)
  BY <1>8, SameGiven
<1>11. /\ vec' \in [1..Read -> Seq(Sign)] /\ vec'[cur] = Append(vec[cur], w[1])
       /\ \A d \in 1..Read : d # cur => vec'[d] = vec[d]
  BY <1>1, <1>2, <1>6, <1>8
<1>12. \A d \in 1..Read : (d < cur => vec'[d] = Taken[d]) /\ (d > cur => vec'[d] = Blank)
  BY <1>2, <1>11 DEF Parsing
<1>13. \E v \in Seq(Sign) : /\ vec'[cur] \o v = Taken[cur]
                            /\ Ahead(line, i') = Ended(v, DQ, After(c))
  BY <1>6, <1>9, <1>11
<1>14. pc = "parse" /\ rest = <<>> /\ rows = <<>> /\ target = <<>> /\ cur \in 1..(Count + 1)
  BY DEF Parsing
<1>15. cur <= Count /\ ~(cur > Count)
  BY <1>2, <1>3
<1> QED
  BY <1>1, <1>8, <1>9, <1>10, <1>11, <1>12, <1>13, <1>14, <1>15 DEF Parsing, c

(* A quote that closes a text, its comma, and the quote of the next one.   *)
LEMMA QuoteParses ==
  ASSUME GivenInv, Clean, Parsing, ParseChar, vec[cur] = Taken[cur],
         Ahead(line, i) = After(cur + First - 1)
  PROVE  Parsing'
<1> DEFINE c == cur + First - 1
           f == From(Fields, c + 1)
<1>1. i <= Len(line) /\ line \in Seq(Sign) /\ i \in Nat \ {0} /\ vec \in [1..Read -> Seq(Sign)]
  BY DEF Parsing, ParseChar
<1>2. /\ cur \in 1..Count /\ cur \in 1..Read /\ c \in First..Read /\ Taken[cur] = Text(c)
  BY <1>1, MidLine
<1>3. /\ DQ \in Sign /\ Comma \in Sign /\ Esc # DQ /\ Read \in Nat /\ Count \in 1..Read
      /\ c \in Nat /\ First \in {1, 2} /\ Count = Read - First + 1
  BY <1>2, Signs, SignsDiffer, Numbers DEF Count
<1>4. f \in Seq(Sign) /\ Cons(Comma, f) \in Seq(Sign) /\ Cons(Comma, f) # <<>>
  BY <1>3, AfterType, ConsType
<1>5. Ahead(line, i) = Cons(DQ, Cons(Comma, f))
  BY DEF After
<1> HIDE DEF c, f
<1>6. line[i] = DQ /\ Ahead(line, i + 1) = Cons(Comma, f)
  BY <1>1, <1>3, <1>4, <1>5, NextSign
<1>7. /\ cur' = cur + 1 /\ pc' = pc /\ vec' = vec /\ i' = i + 3
      /\ UNCHANGED <<given, rest, line, rows, target>>
  BY <1>3, <1>6 DEF ParseChar, NextColumn
<1>8. /\ Taken' = Taken /\ Read' = Read /\ Count' = Count /\ First' = First
      /\ \A d : After(d)' = After(d)
  BY <1>7, SameGiven
<1>9. /\ pc = "parse" /\ rest = <<>> /\ rows = <<>> /\ target = <<>>
      /\ \A d \in 1..Read : (d < cur => vec[d] = Taken[d]) /\ (d > cur => vec[d] = Blank)
  BY DEF Parsing
<1>10. \A d \in 1..Read : (d < cur + 1 => vec[d] = Taken[d]) /\ (d > cur + 1 => vec[d] = Blank)
  BY <1>2, <1>3, <1>9
<1>11. cur + 1 \in 1..(Count + 1) /\ i + 3 \in Nat \ {0} /\ (cur + 1 <= Read => vec[cur + 1] = Blank)
  BY <1>1, <1>2, <1>3, <1>9
<1>12. CASE cur = Count
  <2>1. c = Read /\ c + 1 > Read
    BY <1>3, <1>12 DEF c
  <2>2. f = <<>>
    <3>1. Fields \in Seq(Seq(Sign)) /\ Len(Fields) = Read /\ c + 1 \in Nat \ {0}
      BY <1>3, FieldsType
    <3> QED
      BY <2>1, <3>1, FromType DEF f
  <2>3. Ahead(line, i + 1) = <<Comma>>
    BY <1>3, <1>6, <2>2, ConcatEmptySeq, SingletonSeq DEF Cons
  <2>4. i + 1 > Len(line)
    BY <1>1, <2>3, i + 1 \in Nat \ {0}, LastSign
  <2>5. i + 3 > Len(line) /\ cur + 1 > Count /\ ~(cur + 1 <= Count)
    BY <1>1, <1>2, <1>3, <1>12, <2>4
  <2> QED
    BY <1>1, <1>7, <1>8, <1>9, <1>10, <1>11, <2>5 DEF Parsing
<1>13. CASE cur # Count
  <2> DEFINE t == Text(c + 1)
             r == Ended(t, DQ, After(c + 1))
  <2>1. c + 1 \in First..Read /\ (cur + 1) + First - 1 = c + 1 /\ cur + 1 \in 1..Count
        /\ cur + 1 \in 1..Read
    BY <1>2, <1>3, <1>13 DEF c
  <2>2. f = Cons(DQ, r) /\ r \in Seq(Sign) /\ r # <<>>
    BY <2>1, FieldAhead DEF f
  <2>3. t \in Seq(Sign) /\ Taken[cur + 1] = t
    BY <2>1, TakenType, TextType, Numbers
  <2> HIDE DEF r
  <2>4. f # <<>>
    BY <1>3, <2>2, ConsType
  <2>5. i + 1 \in Nat \ {0} /\ i + 2 \in Nat \ {0} /\ (i + 1) + 1 = i + 2 /\ (i + 2) + 1 = i + 3
    BY <1>1
  <2>6. Ahead(line, i + 2) = f
    BY <1>1, <1>3, <1>4, <1>6, <2>4, <2>5, NextSign
  <2>7. Ahead(line, i + 2) = Cons(DQ, r)
    BY <2>2, <2>6
  <2>8. Ahead(line, i + 3) = r
    <3> DEFINE k == i + 2
    <3>1. Ahead(line, k) = Cons(DQ, r) /\ k \in Nat \ {0} /\ k + 1 = i + 3
      BY <2>5, <2>7
    <3> HIDE DEF k
    <3>2. Ahead(line, k + 1) = r
      BY <1>1, <1>3, <2>2, <3>1, NextSign
    <3> QED
      BY <3>1, <3>2
  <2>9. vec[cur + 1] \o t = Taken[cur + 1]
    <3>1. vec[cur + 1] = <<>>
      BY <1>3, <1>11, <2>1 DEF Blank
    <3>2. <<>> \o t = t
      BY <2>3, ConcatEmptySeq
    <3> QED
      BY <2>3, <3>1, <3>2
  <2>10. \E v \in Seq(Sign) : /\ vec[cur + 1] \o v = Taken[cur + 1]
                              /\ Ahead(line, i + 3) = Ended(v, DQ, After((cur + 1) + First - 1))
    BY <2>1, <2>3, <2>8, <2>9 DEF r, Ended
  <2>11. ~(cur + 1 > Count)
    BY <1>3, <2>1
  <2> QED
    BY <1>1, <1>7, <1>8, <1>9, <1>10, <1>11, <2>10, <2>11 DEF Parsing
<1> QED
  BY <1>12, <1>13

LEMMA ParseCharParses ==
  ASSUME GivenInv, Clean, Parsing, ParseChar
  PROVE  Parsing'
<1>1. i <= Len(line)
  BY DEF ParseChar
<1>2. cur \in 1..Count /\ vec[cur] \in Seq(Sign) /\ cur + First - 1 \in First..Read
  BY <1>1, MidLine
<1>3. PICK w \in Seq(Sign) : /\ vec[cur] \o w = Taken[cur]
                             /\ Ahead(line, i) = Ended(w, DQ, After(cur + First - 1))
  <2>1. cur <= Count
    BY <1>2, Numbers
  <2> QED
    BY <2>1 DEF Parsing
<1>4. CASE w # <<>>
  BY <1>3, <1>4, TextCharParses
<1>5. CASE w = <<>>
  <2>1. vec[cur] = Taken[cur]
    BY <1>2, <1>3, <1>5, ConcatEmptySeq
  <2>2. After(cur + First - 1) \in Seq(Sign)
    <3>1. cur + First - 1 \in Nat
      BY <1>2, Numbers
    <3> QED
      BY <3>1, AfterType
  <2>3. Ahead(line, i) = After(cur + First - 1)
    BY <1>3, <1>5, <2>2, EscapedEmpty, ConcatEmptySeq DEF Ended
  <2> QED
    BY <2>1, <2>3, QuoteParses
<1> QED
  BY <1>4, <1>5

(* A line that is at its end is read whole.                                *)
LEMMA EndOfLineKeeps ==
  ASSUME GivenInv, Parsing, EndOfLine
  PROVE  Kept'
<1>1. /\ i > Len(line) /\ line \in Seq(Sign) /\ i \in Nat \ {0} /\ vec \in [1..Read -> Seq(Sign)]
      /\ cur \in 1..(Count + 1)
  BY DEF Parsing, EndOfLine
<1>2. Count \in 1..Read /\ Read \in Nat /\ First \in {1, 2} /\ Len(line) \in Nat
  BY <1>1, Numbers
<1>3. cur = Count + 1
  <2> SUFFICES ASSUME cur <= Count PROVE FALSE
    BY <1>1, <1>2
  <2> DEFINE c == cur + First - 1
  <2>1. PICK w \in Seq(Sign) : Ahead(line, i) = Ended(w, DQ, After(c))
    BY DEF Parsing
  <2>2. c \in Nat /\ DQ \in Sign /\ Comma \in Sign
    BY <1>1, <1>2, Signs
  <2> HIDE DEF c
  <2>3. After(c) \in Seq(Sign) /\ After(c) # <<>> /\ Cons(Comma, From(Fields, c + 1)) \in Seq(Sign)
        /\ Cons(Comma, From(Fields, c + 1)) # <<>>
    BY <2>2, AfterType, ConsType
  <2>4. CASE w # <<>>
    <3>1. i <= Len(line)
      BY <1>1, <2>1, <2>2, <2>3, <2>4, ReadEscaped
    <3> QED
      BY <1>1, <1>2, <3>1
  <2>5. CASE w = <<>>
    <3>1. Ahead(line, i) = After(c)
      BY <2>1, <2>3, <2>5, EscapedEmpty, ConcatEmptySeq DEF Ended
    <3>2. Ahead(line, i) = Cons(DQ, Cons(Comma, From(Fields, c + 1)))
      BY <3>1 DEF After
    <3>3. i <= Len(line)
      BY <1>1, <2>2, <2>3, <3>2, NextSign
    <3> QED
      BY <1>1, <1>2, <3>3
  <2> QED
    BY <2>4, <2>5
<1>4. \A c \in 1..Read : vec[c] = Taken[c]
  <2> SUFFICES ASSUME NEW c \in 1..Read PROVE vec[c] = Taken[c]
    OBVIOUS
  <2>1. CASE c < cur
    BY <2>1 DEF Parsing
  <2>2. CASE ~(c < cur)
    <3>1. c > Count /\ cur > Count /\ cur <= Read /\ (c = cur \/ c > cur)
      BY <1>2, <1>3, <2>2
    <3>2. vec[c] = Blank
      BY <3>1 DEF Parsing
    <3> QED
      BY <3>1, <3>2, TakenType
  <2> QED
    BY <2>1, <2>2
<1>5. vec = Taken
  <2>1. Taken \in [1..Read -> Seq(Sign)]
    BY TakenType
  <2>2. /\ vec \in Seq(Seq(Sign)) /\ Len(vec) = Read
        /\ Taken \in Seq(Seq(Sign)) /\ Len(Taken) = Read
    BY <1>1, <1>2, <2>1, FunctionIsSeq
  <2> QED
    BY <1>4, <2>2, SeqEqual
<1>6. pc' = "line" /\ rows' = Append(rows, vec) /\ UNCHANGED <<given, rest, target>>
  BY DEF EndOfLine
<1>7. rest = <<>> /\ rows = <<>> /\ target = <<>> /\ Append(<<>>, vec) = <<vec>>
  BY DEF Parsing
<1>8. Taken' = Taken
  BY <1>6, SameGiven
<1> QED
  BY <1>5, <1>6, <1>7, <1>8 DEF Kept

LEMMA ParseOneRowWritten ==
  ASSUME GivenInv
  PROVE  ParseOneRow # <<>>
<1>1. Front(Written) \in Seq(Sign) /\ <<NL>> \in Seq(Sign) /\ <<NL>> # <<>>
  BY WrittenFacts, LineAhead, Signs
<1>2. Front(Written) \o <<NL>> # <<>>
  BY <1>1, ConcatEqualIffEmpty
<1> QED
  BY <1>2, WrittenFacts

LEMMA DecodeKept ==
  ASSUME GivenInv, DecodeInv, [Next]_vars
  PROVE  DecodeInv' /\ GivenInv'
<1>1. UNCHANGED given
  BY DEF Next, GetLine, ParseChar, EndOfLine, Push, BeginValue, ReadText, EndValue, Done, vars, given
<1>2. GivenInv' /\ Clean' = Clean
  BY <1>1, SameGiven
<1> SUFFICES ASSUME Clean
             PROVE  Unread' \/ Parsing' \/ Kept' \/ Beyond'
  BY <1>2 DEF DecodeInv
<1>3. Unread \/ Parsing \/ Kept \/ Beyond
  BY DEF DecodeInv
<1>4. ParseOneRow # <<>>
  BY ParseOneRowWritten
<1>5. CASE GetLine
  <2>1. Unread
    BY <1>3, <1>5 DEF GetLine, Parsing, Kept, Beyond
  <2> QED
    BY <1>5, <2>1, GetLineParses
<1>6. CASE ParseChar
  <2>1. Parsing
    BY <1>3, <1>6 DEF ParseChar, Unread, Kept, Beyond
  <2> QED
    BY <1>6, <2>1, ParseCharParses
<1>7. CASE EndOfLine
  <2>1. Parsing
    BY <1>3, <1>7 DEF EndOfLine, Unread, Kept, Beyond
  <2> QED
    BY <1>7, <2>1, EndOfLineKeeps
<1>8. CASE Push
  <2>1. Kept
    BY <1>3, <1>8 DEF Push, Unread, Parsing, Beyond
  <2> QED
    BY <1>8, <2>1 DEF Push, Kept, Beyond
<1>9. CASE BeginValue
  <2>1. Beyond
    BY <1>3, <1>9 DEF BeginValue, Unread, Kept, Parsing
  <2> QED
    BY <1>9, <2>1 DEF BeginValue, Beyond, Value
<1>10. CASE ReadText
  <2>1. Beyond
    BY <1>3, <1>10 DEF ReadText, Unread, Kept, Parsing
  <2> QED
    BY <1>10, <2>1 DEF ReadText, Beyond, Add
<1>11. CASE EndValue
  <2>1. Beyond
    BY <1>3, <1>11 DEF EndValue, Unread, Kept, Parsing
  <2> QED
    BY <1>11, <2>1 DEF EndValue, Beyond
<1>12. CASE Done
  <2>1. Beyond
    BY <1>3, <1>4, <1>12 DEF Done, Unread, Kept, Parsing
  <2> QED
    BY <1>12, <2>1 DEF Done, Beyond
<1>13. CASE UNCHANGED vars
  <2>1. /\ UNCHANGED <<pc, rest, line, i, cur, vec, rows, target>>
    BY <1>13 DEF vars
  <2>2. /\ Taken' = Taken /\ Read' = Read /\ Count' = Count /\ First' = First
        /\ ParseOneRow' = ParseOneRow /\ \A c : After(c)' = After(c)
    BY <1>1, SameGiven
  <2>3. CASE Unread
    BY <2>1, <2>2, <2>3 DEF Unread
  <2>4. CASE Parsing
    BY <2>1, <2>2, <2>4 DEF Parsing
  <2>5. CASE Kept
    BY <2>1, <2>2, <2>5 DEF Kept
  <2>6. CASE Beyond
    BY <2>1, <2>6 DEF Beyond
  <2> QED
    BY <1>3, <2>3, <2>4, <2>5, <2>6
<1> QED
  BY <1>5, <1>6, <1>7, <1>8, <1>9, <1>10, <1>11, <1>12, <1>13 DEF Next

LEMMA InitDecode == Init => GivenInv /\ DecodeInv
BY DEF Init, GivenInv, DecodeInv, Unread

LEMMA SpecDecodes == Spec => [](GivenInv /\ DecodeInv)
BY InitDecode, DecodeKept, PTL DEF Spec

-----------------------------------------------------------------------------
(* What follows of the way to the table.                                   *)

(* parseEscaped never writes outside of its vector but for a backslash or  *)
(* a line break in a value, whatever the row, its event and its table.     *)
THEOREM DecodesInside == Spec => []NeverOutside
<1>1. DecodeInv => NeverOutside
  BY DEF DecodeInv, NeverOutside, Clean, Unread, Parsing, Kept, Beyond
<1> QED
  BY <1>1, SpecDecodes, PTL

-----------------------------------------------------------------------------
(* The row of the table as result.csv has it.  A text is plain if no       *)
(* character of it is taken for another.                                   *)

Unmarked == \A k \in Columns : ~(Len(row[k]) > 1 /\ Marker \in Range(row[k]))

Plain(t) == Esc \notin Range(t) /\ (Marker \in Range(t) => t = <<Marker>>)

Wide == Widened(Taken)
AsDefault(c) == c = Width /\ deflt # NoDefault /\ Wide[c] = deflt.text
Quoted(t) == <<Apos>> \o (Escaped(t, Apos) \o <<Apos>>)

Cell(c) == NullPut(Dumped(Wide, c))
Cells == [c \in Columns |-> Append(Cell(c), Comma)]

LEMMA DefaultType ==
  ASSUME GivenInv
  PROVE  deflt.text \in Seq(Sign) /\ deflt.value \in Seq(Sign)
<1>1. /\ Defaults \subseteq [text : Seq(Char), value : Values \cup {Null}]
      /\ Values \subseteq Seq(Char)
  BY RowTextAssumption DEF RowTextAssumption
<1>2. Char \subseteq Sign /\ Null \in Seq(Sign)
  BY Signs
<1>3. deflt.text \in Seq(Char) /\ deflt.value \in Seq(Char) \cup {Null}
  BY <1>1 DEF GivenInv
<1> QED
  BY <1>2, <1>3, SeqMonotonic

LEMMA WideFacts ==
  ASSUME GivenInv
  PROVE  /\ Wide \in Seq(Seq(Sign)) /\ Len(Wide) = Width
         /\ \A c \in 1..Read : Wide[c] = Taken[c]
         /\ late => Wide[Width] = (IF deflt = NoDefault THEN Blank ELSE deflt.text)
<1>1. Read \in Nat /\ (late <=> Read = Width - 1) /\ (~late <=> Read = Width) /\ Width \in Nat
  BY Numbers DEF Read, GivenInv
<1>2. Taken \in Seq(Seq(Sign)) /\ Len(Taken) = Read
  BY <1>1, TakenType, FunctionIsSeq
<1>3. CASE late
  <2> DEFINE x == IF deflt = NoDefault THEN Blank ELSE deflt.text
  <2>1. x \in Seq(Sign)
    BY DefaultType, EmptySeq DEF Blank
  <2>2. Wide = Append(Taken, x)
    BY <1>3 DEF Wide, Widened
  <2> HIDE DEF x
  <2>3. /\ Append(Taken, x) \in Seq(Seq(Sign)) /\ Len(Append(Taken, x)) = Read + 1
        /\ \A c \in 1..Read : Append(Taken, x)[c] = Taken[c]
        /\ Append(Taken, x)[Read + 1] = x
    BY <1>2, <2>1, AppendProperties
  <2>4. Read + 1 = Width
    BY <1>1, <1>3
  <2> QED
    BY <2>2, <2>3, <2>4 DEF x
<1>4. CASE ~late
  BY <1>1, <1>2, <1>4 DEF Wide, Widened
<1> QED
  BY <1>3, <1>4

LEMMA TextPlain ==
  ASSUME GivenInv, Clean, Unmarked, NEW c \in Columns
  PROVE  Plain(Text(c))
<1>1. \A x \in Range(Text(c)) : Holds(x) \/ x = Marker
  BY TextType
<1>2. Esc \notin Range(Text(c))
  BY <1>1, SignsDiffer DEF Clean
<1>3. ASSUME Marker \in Range(Text(c))
      PROVE  Text(c) = <<Marker>>
  <2>1. CASE row[c] = Null
    BY <2>1 DEF Text, Stored
  <2>2. CASE row[c] # Null
    <3>1. Text(c) = row[c]
      BY <2>2 DEF Text, Stored
    <3>2. row[c] \in Seq(Sign) /\ Marker \in Range(row[c])
      BY <1>3, <3>1, TextType
    <3>3. ~(Len(row[c]) > 1)
      BY <3>2 DEF Unmarked
    <3> DEFINE t == row[c]
    <3>4. t \in Seq(Sign) /\ Marker \in Range(t) /\ ~(Len(t) > 1)
      BY <3>2, <3>3
    <3> HIDE DEF t
    <3>5. PICK k \in DOMAIN t : t[k] = Marker
      BY <3>4 DEF Range
    <3>5a. DOMAIN t = 1..Len(t) /\ Len(t) \in Nat
      BY <3>4, LenProperties
    <3>6. Len(t) = 1 /\ k = 1
      BY <3>4, <3>5, <3>5a
    <3>7. t = <<Marker>>
      BY <3>4, <3>5, <3>6
    <3> QED
      BY <3>1, <3>7 DEF t
  <2> QED
    BY <2>1, <2>2
<1> QED
  BY <1>2, <1>3 DEF Plain

LEMMA WidePlain ==
  ASSUME GivenInv, Clean, Unmarked, NEW c \in Columns
  PROVE  AsDefault(c) \/ Plain(Wide[c])
<1>1. Read \in Nat /\ (late <=> Read = Width - 1) /\ (~late <=> Read = Width) /\ Width \in Nat
      /\ Count \in 1..Read /\ First \in {1, 2} /\ 1..Read \subseteq Columns /\ c \in 1..Width
  BY Numbers DEF Read, GivenInv, Columns
<1>2. Plain(Blank)
  BY DEF Plain, Blank, Range
<1>3. CASE c \in 1..Read
  <2>1. Wide[c] = Taken[c]
    BY <1>3, WideFacts
  <2>2. CASE c <= Count
    <3>1. c \in 1..Count
      BY <1>1, <1>3, <2>2
    <3>2. Taken[c] = Text(c + First - 1) /\ c + First - 1 \in First..Read
      BY <3>1, TakenType
    <3>3. c + First - 1 \in Columns
      BY <1>1, <3>2
    <3> QED
      BY <2>1, <3>2, <3>3, TextPlain
  <2>3. CASE c > Count
    BY <1>2, <1>3, <2>1, <2>3, TakenType
  <2> QED
    BY <1>1, <1>3, <2>2, <2>3
<1>4. CASE c \notin 1..Read
  <2>1. late /\ c = Width
    BY <1>1, <1>4
  <2>2. Wide[c] = (IF deflt = NoDefault THEN Blank ELSE deflt.text)
    BY <2>1, WideFacts
  <2> QED
    BY <1>2, <2>1, <2>2 DEF AsDefault
<1> QED
  BY <1>3, <1>4

(* replace_all leaves a quoted text alone, but for the marker by itself.   *)
LEMMA QuotedFacts ==
  ASSUME NEW t \in Seq(Sign)
  PROVE  /\ Quoted(t) \in Seq(Sign) /\ Quoted(t) = <<Apos>> \o QuotedToStream(t) \o <<Apos>>
         /\ t = <<Marker>> => NullPut(Quoted(t)) = Null
         /\ Marker \notin Range(t) => NullPut(Quoted(t)) = Quoted(t)
<1> DEFINE e == Escaped(t, Apos)
           q == Quoted(t)
           n == Len(q) - 3
<1>1. /\ Apos \in Sign /\ Esc \in Sign /\ Marker \in Sign /\ <<Apos>> \in Seq(Sign)
      /\ Apos # Marker /\ Esc # Marker
  BY Signs, SignsDiffer
<1>2. e \in Seq(Sign) /\ Len(e) \in Nat
  BY <1>1, EscapedType
<1>3. q = <<Apos>> \o (e \o <<Apos>>) /\ QuotedToStream(t) = e
  BY DEF Quoted, QuotedToStream
<1>4. Range(e) \subseteq Range(t) \cup {Esc, Apos}
  BY EscapedSigns
<1>5. t = <<Marker>> => e = <<Marker>>
  BY <1>1, MarkerEscaped
<1> HIDE DEF e, q
<1>6. q = (<<Apos>> \o e) \o <<Apos>>
  BY <1>1, <1>2, <1>3, ConcatAssociative
<1>7. /\ q \in Seq(Sign) /\ Len(q) = Len(e) + 2
      /\ \A k \in 1..Len(e) : q[k + 1] = e[k]
  <2>1. /\ e \o <<Apos>> \in Seq(Sign) /\ Len(e \o <<Apos>>) = Len(e) + 1
        /\ \A k \in 1..Len(e) : (e \o <<Apos>>)[k] = e[k]
    BY <1>1, <1>2
  <2> DEFINE r == e \o <<Apos>>
  <2> HIDE DEF r
  <2>2. /\ <<Apos>> \o r \in Seq(Sign) /\ Len(<<Apos>> \o r) = Len(r) + 1
        /\ \A k \in 1..Len(r) : (<<Apos>> \o r)[k + 1] = r[k]
    BY <1>1, <2>1 DEF r
  <2>3. \A k \in 1..Len(e) : k \in 1..Len(r)
    BY <1>2, <2>1 DEF r
  <2> QED
    BY <1>2, <1>3, <2>1, <2>2, <2>3 DEF r
<1>8. NullPut(q) = IF n >= 0 /\ SubSeq(q, n + 1, n + 3) = <<Apos, Marker, Apos>>
                   THEN SubSeq(q, 1, n) \o Null ELSE q
  BY DEF NullPut
<1>9. ASSUME t = <<Marker>>
      PROVE  NullPut(q) = Null
  <2>1. e = <<Marker>> /\ Len(e) = 1
    BY <1>5, <1>9
  <2>2. n = 0 /\ Len(q) = 3
    BY <1>7, <2>1
  <2>3. q = <<Apos, Marker, Apos>>
    <3> DEFINE u == <<Marker>>
               v == <<Apos>>
               w == v \o u
    <3>1. u \in Seq(Sign) /\ v \in Seq(Sign) /\ Len(u) = 1 /\ Len(v) = 1 /\ u[1] = Marker /\ v[1] = Apos
      BY <1>1
    <3>2. q = (v \o u) \o v
      BY <1>6, <2>1
    <3> HIDE DEF u, v
    <3>3. w \in Seq(Sign) /\ Len(w) = 2 /\ w[1] = Apos /\ w[2] = Marker
      <4>1. w \in Seq(Sign) /\ Len(w) = Len(v) + Len(u)
            /\ \A k \in 1..(Len(v) + Len(u)) : w[k] = IF k <= Len(v) THEN v[k] ELSE u[k - Len(v)]
        BY <3>1, ConcatProperties
      <4> HIDE DEF w
      <4> QED
        BY <3>1, <4>1
    <3> HIDE DEF w
    <3>4. w \o v \in Seq(Sign) /\ Len(w \o v) = 3
          /\ (w \o v)[1] = Apos /\ (w \o v)[2] = Marker /\ (w \o v)[3] = Apos
      <4>1. w \o v \in Seq(Sign) /\ Len(w \o v) = Len(w) + Len(v)
            /\ \A k \in 1..(Len(w) + Len(v)) : (w \o v)[k] = IF k <= Len(w) THEN w[k] ELSE v[k - Len(w)]
        BY <3>1, <3>3, ConcatProperties
      <4> QED
        BY <3>1, <3>3, <4>1
    <3>5. \A s \in Seq(Sign) : Len(s) = 3 => s = <<s[1], s[2], s[3]>>
      OBVIOUS
    <3> QED
      BY <3>2, <3>4, <3>5 DEF w
  <2>4. SubSeq(q, 1, 3) = q
    BY <1>7, <2>2, SubSeqFull
  <2>5. SubSeq(q, 1, 0) = <<>>
    BY SubSeqEmpty
  <2>6. <<>> \o Null = Null
    BY Signs, ConcatEmptySeq
  <2> HIDE DEF n
  <2>7. n + 1 = 1 /\ n + 3 = 3 /\ n >= 0
    BY <2>2
  <2> QED
    BY <1>8, <2>2, <2>3, <2>4, <2>5, <2>6, <2>7
<1>10. ASSUME Marker \notin Range(t)
       PROVE  NullPut(q) = q
  <2> SUFFICES ASSUME n >= 0, SubSeq(q, n + 1, n + 3) = <<Apos, Marker, Apos>>
               PROVE  FALSE
    BY <1>8
  <2>1. Len(e) \in 1..Len(e) /\ n + 2 = Len(e) + 1 /\ n + 1 \in Nat /\ n + 3 = Len(q)
    BY <1>2, <1>7
  <2>2. q[n + 2] = e[Len(e)]
    BY <1>7, <2>1
  <2>3. e[Len(e)] \in Range(e)
    BY <1>2, <2>1 DEF Range
  <2>4. SubSeq(q, n + 1, n + 3)[2] = q[n + 2]
    <3> DEFINE m == n + 1
    <3>1. m \in 1..Len(q) /\ n + 3 = m + 2 /\ n + 2 = m + 1 /\ m + 2 <= Len(q)
      BY <1>7, <2>1
    <3> HIDE DEF m
    <3>2. SubSeq(q, m, m + 2)[2] = q[m + 1]
      BY <1>7, <3>1
    <3> QED
      BY <3>1, <3>2 DEF m
  <2>5. <<Apos, Marker, Apos>>[2] = Marker
    OBVIOUS
  <2> QED
    BY <1>1, <1>4, <1>10, <2>2, <2>3, <2>4, <2>5
<1>11. q = <<Apos>> \o QuotedToStream(t) \o <<Apos>>
  BY <1>3, <1>6
<1> QED
  BY <1>7, <1>9, <1>10, <1>11 DEF q

LEMMA CellFacts ==
  ASSUME GivenInv, Clean, Unmarked, NEW c \in Columns
  PROVE  /\ Cell(c) \in Seq(Sign) /\ Wide[c] \in Seq(Sign)
         /\ AsDefault(c) => Cell(c) = Default
         /\ ~AsDefault(c) /\ Wide[c] = <<Marker>> => Cell(c) = Null
         /\ ~AsDefault(c) /\ Wide[c] # <<Marker>> => Cell(c) = Quoted(Wide[c]) /\ Plain(Wide[c])
<1>1. Wide[c] \in Seq(Sign)
  <2>1. Wide \in Seq(Seq(Sign)) /\ Len(Wide) = Width
    BY WideFacts
  <2> QED
    BY <2>1 DEF Columns
<1>2. Null \in Seq(Sign) /\ Default \in Seq(Sign)
  BY Signs
<1>3. ASSUME AsDefault(c)
      PROVE  Cell(c) = Default
  <2>1. Dumped(Wide, c) = Default
    BY <1>3 DEF AsDefault, Dumped
  <2>2. Len(Default) = 1
    BY DEF Default
  <2>3. NullPut(Default) = Default
    BY <2>2 DEF NullPut
  <2> QED
    BY <2>1, <2>3 DEF Cell
<1>4. ASSUME ~AsDefault(c)
      PROVE  Dumped(Wide, c) = Quoted(Wide[c]) /\ Plain(Wide[c])
  <2>1. Dumped(Wide, c) = <<Apos>> \o QuotedToStream(Wide[c]) \o <<Apos>>
    BY <1>4 DEF AsDefault, Dumped
  <2>2. Quoted(Wide[c]) = <<Apos>> \o QuotedToStream(Wide[c]) \o <<Apos>>
    BY <1>1, QuotedFacts
  <2> QED
    BY <1>4, <2>1, <2>2, WidePlain
<1>5. ASSUME ~AsDefault(c), Wide[c] = <<Marker>>
      PROVE  Cell(c) = Null
  BY <1>1, <1>4, <1>5, QuotedFacts DEF Cell
<1>6. ASSUME ~AsDefault(c), Wide[c] # <<Marker>>
      PROVE  Cell(c) = Quoted(Wide[c]) /\ Plain(Wide[c]) /\ Quoted(Wide[c]) \in Seq(Sign)
  <2>1. Marker \notin Range(Wide[c])
    BY <1>4, <1>6 DEF Plain
  <2> QED
    BY <1>1, <1>4, <1>6, <2>1, QuotedFacts DEF Cell
<1>7. Cell(c) \in Seq(Sign)
  BY <1>2, <1>3, <1>5, <1>6
<1> QED
  BY <1>1, <1>3, <1>5, <1>6, <1>7

LEMMA CellsType ==
  ASSUME GivenInv, Clean, Unmarked
  PROVE  /\ Cells \in Seq(Seq(Sign)) /\ Len(Cells) = Width /\ Width \in Nat /\ Width > 0
         /\ \A c \in Columns : Cells[c] = Append(Cell(c), Comma)
<1>1. \A c \in Columns : Append(Cell(c), Comma) \in Seq(Sign)
  BY CellFacts, Signs, AppendProperties
<1>2. Width \in Nat /\ Width > 0
  BY Numbers
<1>3. Cells \in [1..Width -> Seq(Sign)]
  BY <1>1 DEF Cells, Columns
<1>4. Cells \in Seq(Seq(Sign)) /\ Len(Cells) = Width
  BY <1>2, <1>3, FunctionIsSeq
<1> QED
  BY <1>2, <1>4 DEF Cells

(* What comes after the value of a column, its comma first.                *)
PastCell(c) == Cons(Comma, From(Cells, c + 1))

LEMMA PastCellType ==
  ASSUME GivenInv, Clean, Unmarked, NEW c \in Nat
  PROVE  /\ From(Cells, c + 1) \in Seq(Sign) /\ PastCell(c) \in Seq(Sign) /\ PastCell(c) # <<>>
         /\ Cons(Apos, PastCell(c)) \in Seq(Sign) /\ Cons(Apos, PastCell(c)) # <<>>
<1>1. From(Cells, c + 1) \in Seq(Sign)
  BY CellsType, c + 1 \in Nat \ {0}, FromType
<1>2. Comma \in Sign /\ Apos \in Sign
  BY Signs
<1>3. PastCell(c) \in Seq(Sign) /\ PastCell(c) # <<>>
  BY <1>1, <1>2, ConsType DEF PastCell
<1>4. Cons(Apos, PastCell(c)) \in Seq(Sign) /\ Cons(Apos, PastCell(c)) # <<>>
  BY <1>2, <1>3, ConsType
<1> QED
  BY <1>1, <1>3, <1>4

LEMMA CellAhead ==
  ASSUME GivenInv, Clean, Unmarked, NEW c \in Columns
  PROVE  /\ AsDefault(c) => From(Cells, c) = Cons(Default[1], PastCell(c))
         /\ ~AsDefault(c) /\ Wide[c] = <<Marker>> => From(Cells, c) = Cons(Null[1], PastCell(c))
         /\ ~AsDefault(c) /\ Wide[c] # <<Marker>> =>
              From(Cells, c) = Cons(Apos, Ended(Wide[c], Apos, Cons(Apos, PastCell(c))))
<1> DEFINE v == Cell(c)
           f == From(Cells, c + 1)
           p == PastCell(c)
           e == Escaped(Wide[c], Apos)
<1>1. c \in Nat \ {0} /\ c \in Nat /\ c <= Width /\ Comma \in Sign /\ Apos \in Sign /\ Esc \in Sign
  BY Numbers, Signs DEF Columns
<1>2. v \in Seq(Sign) /\ Wide[c] \in Seq(Sign)
  BY CellFacts
<1>3. f \in Seq(Sign) /\ p \in Seq(Sign) /\ Cons(Apos, p) \in Seq(Sign)
  BY <1>1, PastCellType
<1>4. From(Cells, c) = Append(v, Comma) \o f
  BY <1>1, CellsType, FromType
<1>5. p = <<Comma>> \o f
  BY DEF PastCell, Cons
<1>6. e \in Seq(Sign)
  BY <1>1, <1>2, EscapedType
<1>7. ~AsDefault(c) /\ Wide[c] # <<Marker>> => v = <<Apos>> \o (e \o <<Apos>>)
  BY CellFacts DEF Quoted
<1>8. /\ AsDefault(c) => v = Default
      /\ ~AsDefault(c) /\ Wide[c] = <<Marker>> => v = Null
  BY CellFacts
<1> HIDE DEF v, f, p, e
<1>9. From(Cells, c) = v \o p
  <2>1. Append(v, Comma) = v \o <<Comma>> /\ <<Comma>> \in Seq(Sign)
    BY <1>1, <1>2, AppendIsConcat
  <2>2. (v \o <<Comma>>) \o f = v \o (<<Comma>> \o f)
    BY <1>2, <1>3, <2>1, ConcatAssociative
  <2> QED
    BY <1>4, <1>5, <2>1, <2>2
<1>10. Default = <<Default[1]>> /\ Null = <<Null[1]>>
  BY DEF Default, Null
<1>11. <<Apos>> \o (e \o <<Apos>>) \o p = <<Apos>> \o (e \o (<<Apos>> \o p))
  <2>1. <<Apos>> \in Seq(Sign) /\ e \o <<Apos>> \in Seq(Sign)
    BY <1>1, <1>6
  <2>2. (<<Apos>> \o (e \o <<Apos>>)) \o p = <<Apos>> \o ((e \o <<Apos>>) \o p)
    BY <1>3, <2>1, ConcatAssociative
  <2>3. (e \o <<Apos>>) \o p = e \o (<<Apos>> \o p)
    BY <1>3, <1>6, <2>1, ConcatAssociative
  <2> QED
    BY <2>2, <2>3
<1>12. ~AsDefault(c) /\ Wide[c] # <<Marker>> =>
         From(Cells, c) = Cons(Apos, Ended(Wide[c], Apos, Cons(Apos, PastCell(c))))
  BY <1>7, <1>9, <1>11 DEF Cons, Ended, e, p
<1>13. AsDefault(c) => From(Cells, c) = Cons(Default[1], PastCell(c))
  BY <1>8, <1>9, <1>10 DEF Cons, p
<1>14. ~AsDefault(c) /\ Wide[c] = <<Marker>> => From(Cells, c) = Cons(Null[1], PastCell(c))
  BY <1>8, <1>9, <1>10 DEF Cons, p
<1> QED
  BY <1>12, <1>13, <1>14

LEMMA CsvAhead ==
  ASSUME GivenInv, Clean, Unmarked
  PROVE  Csv(Wide) \in Seq(Sign) /\ Ahead(Csv(Wide), 1) = From(Cells, 1)
<1> DEFINE t == FlattenSeq(Cells)
           f == Front(Cells)
           v == Append(Cell(Width), Comma)
<1>1. /\ Cells \in Seq(Seq(Sign)) /\ Len(Cells) = Width /\ Width \in Nat /\ Width > 0
      /\ Width \in Columns /\ Cells[Width] = v
  BY CellsType DEF Columns
<1>2. Csv(Wide) = Front(t)
  BY DEF Csv, Cells, Cell
<1>3. t \in Seq(Sign)
  BY <1>1, FlattenType
<1>4. Cells # <<>> /\ Last(Cells) = v
  BY <1>1 DEF Last
<1>5. f \in Seq(Seq(Sign)) /\ Cells = Append(f, v)
  BY <1>1, <1>4, FrontAndLast
<1>6. v \in Seq(Sign) /\ v # <<>> /\ Last(v) = Comma
  <2>1. Cell(Width) \in Seq(Sign) /\ Comma \in Sign
    BY <1>1, CellFacts, Signs
  <2>2. v \in Seq(Sign)
    BY <2>1, AppendProperties
  <2> QED
    BY <2>1, <2>2, FrontOfAppend
<1> HIDE DEF f, v
<1>7. t = FlattenSeq(f) \o v
  BY <1>5, <1>6, FlattenAppend
<1>8. FlattenSeq(f) \in Seq(Sign)
  BY <1>5, FlattenType
<1> DEFINE u == FlattenSeq(f)
<1> HIDE DEF u
<1>9. u \o v # <<>> /\ Last(u \o v) = Comma
  BY <1>6, <1>8 DEF Last, u
<1>10. t # <<>> /\ Last(t) = Comma
  BY <1>7, <1>9 DEF u
<1>11. t = From(Cells, 1)
  BY <1>1, FromFirst
<1> HIDE DEF t
<1> QED
  BY <1>2, <1>3, <1>10, <1>11, LineAhead

-----------------------------------------------------------------------------
(* Where the target is in the row: before a value, in a text, behind a     *)
(* value, or done.                                                         *)

Got(c) == IF AsDefault(c) THEN deflt.value ELSE IF Wide[c] = <<Marker>> THEN Null ELSE Wide[c]

Rested ==
  /\ rest = <<>> /\ rows = <<>> /\ target = <<>>
  /\ line \in Seq(Sign) /\ i \in Nat \ {0} /\ vec \in Seq(Seq(Sign))

(* The first n values of v are those.                                      *)
Firsts(v, n) == \A c \in 1..n : v[c] = Got(c)

AtValue ==
  /\ pc = "value" /\ Rested
  /\ Len(vec) < Width /\ Firsts(vec, Len(vec)) /\ Ahead(line, i) = From(Cells, Len(vec) + 1)

InText ==
  /\ pc = "text" /\ Rested
  /\ Len(vec) \in 1..Width /\ Firsts(vec, Len(vec) - 1)
  /\ Got(Len(vec)) = Wide[Len(vec)] /\ Plain(Wide[Len(vec)])
  /\ \E w \in Seq(Sign) : /\ vec[Len(vec)] \o w = Wide[Len(vec)]
                          /\ Ahead(line, i) = Ended(w, Apos, Cons(Apos, PastCell(Len(vec))))

AtComma ==
  /\ pc = "comma" /\ Rested
  /\ Len(vec) \in 1..Width /\ Firsts(vec, Len(vec)) /\ Ahead(line, i) = PastCell(Len(vec))

Arrived ==
  /\ pc \in {"line", "done"} /\ rest = <<>> /\ rows = <<>>
  /\ target = <<[c \in Columns |-> Got(c)]>>

LEMMA SameCells ==
  ASSUME UNCHANGED given
  PROVE  /\ Wide' = Wide /\ Cells' = Cells /\ Unmarked' = Unmarked
         /\ \A c : PastCell(c)' = PastCell(c)
         /\ \A c : Got(c)' = Got(c)
<1>1. row' = row /\ late' = late /\ deflt' = deflt
  BY DEF given
<1>2. Taken' = Taken
  BY SameGiven
<1>3. Wide' = Wide
  BY <1>1, <1>2 DEF Wide, Widened
<1>4. Cells' = Cells
  BY <1>1, <1>3 DEF Cells, Cell, Dumped
<1>5. \A c : PastCell(c)' = PastCell(c)
  BY <1>4 DEF PastCell
<1>6. \A c : Got(c)' = Got(c)
  BY <1>1, <1>3 DEF Got, AsDefault
<1>7. Unmarked' = Unmarked
  BY <1>1 DEF Unmarked
<1> QED
  BY <1>3, <1>4, <1>5, <1>6, <1>7

LEMMA GotType ==
  ASSUME GivenInv, NEW c \in Columns
  PROVE  Got(c) \in Seq(Sign) /\ Wide[c] \in Seq(Sign)
<1>1. Wide \in Seq(Seq(Sign)) /\ Len(Wide) = Width
  BY WideFacts
<1>2. Wide[c] \in Seq(Sign)
  BY <1>1 DEF Columns
<1> QED
  BY <1>2, DefaultType, Signs DEF Got

LEMMA PushBegins ==
  ASSUME GivenInv, Clean, Unmarked, Kept, Push
  PROVE  AtValue'
<1>1. /\ line' = Csv(Wide) /\ rows' = <<>> /\ rest' = <<>> /\ target' = <<>>
      /\ i' = 1 /\ vec' = <<>> /\ pc' = "value" /\ UNCHANGED given
  <2>1. Head(rows) = Taken /\ Tail(rows) = <<>>
    BY DEF Kept
  <2> QED
    BY <2>1 DEF Push, Kept, Wide
<1>2. Csv(Wide) \in Seq(Sign) /\ Ahead(Csv(Wide), 1) = From(Cells, 1)
  BY CsvAhead
<1>3. Cells' = Cells
  BY <1>1, SameCells
<1>4. <<>> \in Seq(Seq(Sign)) /\ Len(<<>>) = 0 /\ 1 \in Nat \ {0}
  OBVIOUS
<1>5. Width > 0 /\ Width \in Nat
  BY CellsType
<1>6. Firsts(vec, Len(vec))'
  BY <1>1, <1>4 DEF Firsts
<1> QED
  BY <1>1, <1>2, <1>3, <1>4, <1>5, <1>6 DEF AtValue, Rested

LEMMA GotOne ==
  ASSUME GivenInv, vec \in Seq(Seq(Sign)), Firsts(vec, Len(vec)), Len(vec) < Width,
         NEW x \in Seq(Sign), vec' = Append(vec, x)
  PROVE  /\ vec' \in Seq(Seq(Sign)) /\ Len(vec') = Len(vec) + 1 /\ Len(vec') \in 1..Width
         /\ vec'[Len(vec')] = x /\ Firsts(vec', Len(vec') - 1)
         /\ x = Got(Len(vec) + 1) => Firsts(vec', Len(vec'))
<1>1. /\ vec' \in Seq(Seq(Sign)) /\ Len(vec') = Len(vec) + 1 /\ Len(vec) \in Nat
      /\ \A c \in 1..Len(vec) : vec'[c] = vec[c]
      /\ vec'[Len(vec) + 1] = x
  BY AppendProperties
<1>2. Len(vec') \in 1..Width /\ Len(vec') - 1 = Len(vec)
  BY <1>1, Numbers
<1>3. \A c \in 1..Len(vec) : vec'[c] = Got(c)
  BY <1>1 DEF Firsts
<1>4. Firsts(vec', Len(vec') - 1)
  BY <1>2, <1>3 DEF Firsts
<1>5. ASSUME x = Got(Len(vec) + 1)
      PROVE  Firsts(vec', Len(vec'))
  <2>1. \A c \in 1..Len(vec') : c \in 1..Len(vec) \/ c = Len(vec) + 1
    BY <1>1
  <2> QED
    BY <1>1, <1>3, <1>5, <2>1 DEF Firsts
<1> QED
  BY <1>1, <1>2, <1>4, <1>5

(* To prime what the row has: it is the same.                              *)
LEMMA SameFirsts ==
  ASSUME UNCHANGED given
  PROVE  \A n : Firsts(vec, n)' = Firsts(vec', n)
BY SameCells DEF Firsts

LEMMA BeginReads ==
  ASSUME GivenInv, Clean, Unmarked, AtValue, BeginValue
  PROVE  AtComma' \/ InText'
<1> DEFINE k == Len(vec) + 1
           p == PastCell(k)
           e == Ended(Wide[k], Apos, Cons(Apos, p))
<1>1. /\ line \in Seq(Sign) /\ i \in Nat \ {0} /\ vec \in Seq(Seq(Sign)) /\ Len(vec) \in Nat
      /\ Ahead(line, i) = From(Cells, k) /\ Firsts(vec, Len(vec)) /\ Len(vec) < Width
      /\ rest = <<>> /\ rows = <<>> /\ target = <<>>
  BY DEF AtValue, Rested
<1>2. k \in Columns /\ k \in Nat /\ Width \in Nat
  BY <1>1, Numbers DEF Columns
<1>3. UNCHANGED given /\ UNCHANGED <<rest, line, rows, target>>
  BY DEF BeginValue
<1>4. Default[1] \in Sign /\ Null[1] \in Sign /\ Apos \in Sign
  BY Signs DEF Sign
<1>5. Default[1] # Null[1] /\ Default[1] # Apos /\ Null[1] # Apos
  BY Signs, SignsDiffer
<1>6. p \in Seq(Sign) /\ p # <<>> /\ Cons(Apos, p) \in Seq(Sign) /\ Cons(Apos, p) # <<>>
  BY <1>2, PastCellType
<1>7. Wide[k] \in Seq(Sign) /\ Got(k) \in Seq(Sign)
  BY <1>2, GotType
<1>8. e \in Seq(Sign) /\ e # <<>>
  <2> DEFINE t == Escaped(Wide[k], Apos)
             c == Cons(Apos, p)
  <2>1. t \in Seq(Sign) /\ c \in Seq(Sign) /\ c # <<>>
    BY <1>4, <1>6, <1>7, Signs, EscapedType
  <2>2. e = t \o c
    BY DEF Ended
  <2> HIDE DEF t, c, e
  <2> QED
    BY <2>1, <2>2, ConcatProperties, ConcatEqualIffEmpty
<1>9. /\ AsDefault(k) => Ahead(line, i) = Cons(Default[1], p)
      /\ ~AsDefault(k) /\ Wide[k] = <<Marker>> => Ahead(line, i) = Cons(Null[1], p)
      /\ ~AsDefault(k) /\ Wide[k] # <<Marker>> => Ahead(line, i) = Cons(Apos, e)
  BY <1>1, <1>2, CellAhead
<1> HIDE DEF p, e
<1>10. i + 1 \in Nat \ {0}
  BY <1>1
<1>11. ASSUME NEW x \in Seq(Sign), vec' = Append(vec, x)
       PROVE  /\ vec' \in Seq(Seq(Sign)) /\ Len(vec') = k /\ Len(vec') \in 1..Width
              /\ vec'[k] = x /\ Firsts(vec, Len(vec) - 1)'
              /\ x = Got(k) => Firsts(vec, Len(vec))'
  BY <1>1, <1>3, <1>11, GotOne, SameFirsts
<1>12. \A c : PastCell(c)' = PastCell(c) /\ Got(c)' = Got(c)
  BY <1>3, SameCells
<1>13. Wide' = Wide
  BY <1>3, SameCells
<1>14. ASSUME Value(Got(k)), Ahead(line, i + 1) = p
       PROVE  AtComma'
  <2>1. vec' = Append(vec, Got(k)) /\ pc' = "comma" /\ i' = i + 1
    BY <1>14 DEF Value
  <2>2. /\ vec' \in Seq(Seq(Sign)) /\ Len(vec') = k /\ Len(vec') \in 1..Width
        /\ Firsts(vec, Len(vec))'
    BY <1>7, <1>11, <2>1
  <2>3. (Ahead(line, i) = PastCell(Len(vec)))'
    BY <1>3, <1>12, <1>14, <2>1, <2>2 DEF p
  <2>4. Rested'
    BY <1>1, <1>3, <1>10, <2>1, <2>2 DEF Rested
  <2> QED
    BY <2>1, <2>2, <2>3, <2>4 DEF AtComma
<1>15. CASE AsDefault(k)
  <2>1. i <= Len(line) /\ line[i] = Default[1] /\ Ahead(line, i + 1) = p
    BY <1>1, <1>4, <1>6, <1>9, <1>15, NextSign
  <2>2. Value(deflt.value)
    BY <1>5, <2>1 DEF BeginValue, Here
  <2>3. Got(k) = deflt.value
    BY <1>15 DEF Got
  <2> QED
    BY <1>14, <2>1, <2>2, <2>3
<1>16. CASE ~AsDefault(k) /\ Wide[k] = <<Marker>>
  <2>1. i <= Len(line) /\ line[i] = Null[1] /\ Ahead(line, i + 1) = p
    BY <1>1, <1>4, <1>6, <1>9, <1>16, NextSign
  <2>2. Value(Null)
    BY <1>5, <2>1 DEF BeginValue, Here
  <2>3. Got(k) = Null
    BY <1>16 DEF Got
  <2> QED
    BY <1>14, <2>1, <2>2, <2>3
<1>17. CASE ~AsDefault(k) /\ Wide[k] # <<Marker>>
  <2>1. i <= Len(line) /\ line[i] = Apos /\ Ahead(line, i + 1) = e
    BY <1>1, <1>4, <1>8, <1>9, <1>17, NextSign
  <2>2. vec' = Append(vec, <<>>) /\ pc' = "text" /\ i' = i + 1
    BY <1>5, <2>1 DEF BeginValue, Here
  <2>3. /\ vec' \in Seq(Seq(Sign)) /\ Len(vec') = k /\ Len(vec') \in 1..Width
        /\ vec'[k] = <<>> /\ Firsts(vec, Len(vec) - 1)'
    BY <1>11, <2>2, EmptySeq
  <2>4. Got(k) = Wide[k] /\ Plain(Wide[k])
    BY <1>2, <1>17, CellFacts DEF Got
  <2>5. vec'[k] \o Wide[k] = Wide[k]
    BY <1>7, <2>3, ConcatEmptySeq
  <2>6. \E w \in Seq(Sign) : /\ vec'[k] \o w = Wide[k]
                             /\ Ahead(line, i + 1) = Ended(w, Apos, Cons(Apos, PastCell(k)))
    BY <1>7, <2>1, <2>5 DEF e, p
  <2>7. Rested'
    BY <1>1, <1>3, <1>10, <2>2, <2>3 DEF Rested
  <2>8. (Got(Len(vec)) = Wide[Len(vec)] /\ Plain(Wide[Len(vec)]))'
    BY <1>12, <1>13, <2>3, <2>4
  <2>9. (\E w \in Seq(Sign) : /\ vec[Len(vec)] \o w = Wide[Len(vec)]
                               /\ Ahead(line, i) = Ended(w, Apos, Cons(Apos, PastCell(Len(vec)))))'
    BY <1>3, <1>12, <1>13, <2>2, <2>3, <2>6
  <2> QED
    BY <2>2, <2>3, <2>7, <2>8, <2>9 DEF InText
<1> QED
  BY <1>15, <1>16, <1>17

LEMMA InTextFacts ==
  ASSUME GivenInv, Clean, Unmarked, InText
  PROVE  /\ Len(vec) \in Columns /\ Len(vec) \in Nat /\ Len(vec) \in 1..Len(vec)
         /\ vec[Len(vec)] \in Seq(Sign) /\ Wide[Len(vec)] \in Seq(Sign)
         /\ PastCell(Len(vec)) \in Seq(Sign) /\ PastCell(Len(vec)) # <<>>
         /\ Cons(Apos, PastCell(Len(vec))) \in Seq(Sign) /\ Cons(Apos, PastCell(Len(vec))) # <<>>
         /\ line \in Seq(Sign) /\ i \in Nat \ {0} /\ vec \in Seq(Seq(Sign))
         /\ rest = <<>> /\ rows = <<>> /\ target = <<>>
<1>1. /\ line \in Seq(Sign) /\ i \in Nat \ {0} /\ vec \in Seq(Seq(Sign)) /\ Len(vec) \in 1..Width
      /\ rest = <<>> /\ rows = <<>> /\ target = <<>>
  BY DEF InText, Rested
<1>2. Len(vec) \in Columns /\ Len(vec) \in Nat /\ Len(vec) \in 1..Len(vec)
  BY <1>1 DEF Columns
<1>3. vec[Len(vec)] \in Seq(Sign)
  BY <1>1, <1>2
<1> QED
  BY <1>1, <1>2, <1>3, GotType, PastCellType

(* A character of a text.                                                  *)
LEMMA TextCharReads ==
  ASSUME GivenInv, Clean, Unmarked, InText, ReadText,
         NEW w \in Seq(Sign), w # <<>>, vec[Len(vec)] \o w = Wide[Len(vec)],
         Ahead(line, i) = Ended(w, Apos, Cons(Apos, PastCell(Len(vec))))
  PROVE  InText'
<1> DEFINE k == Len(vec)
           tail == Cons(Apos, PastCell(k))
           u == vec[k]
<1>1. /\ line \in Seq(Sign) /\ i \in Nat \ {0} /\ vec \in Seq(Seq(Sign)) /\ k \in Nat
      /\ k \in 1..Len(vec) /\ tail \in Seq(Sign) /\ tail # <<>> /\ u \in Seq(Sign)
      /\ rest = <<>> /\ rows = <<>> /\ target = <<>> /\ Apos \in Sign /\ Esc # Apos
      /\ Ahead(line, i) = Ended(w, Apos, tail) /\ u \o w = Wide[k]
      /\ k \in 1..Width /\ Firsts(vec, k - 1) /\ Got(k) = Wide[k] /\ Plain(Wide[k])
  BY InTextFacts, Signs, SignsDiffer DEF InText
<1>2. UNCHANGED given /\ UNCHANGED <<rest, line, rows, target>>
  BY DEF ReadText
<1> HIDE DEF k, tail, u
<1>3. /\ w[1] = Apos => /\ line[i] = Esc /\ i < Len(line) /\ line[i + 1] = Apos
                        /\ Ahead(line, i + 2) = Ended(Tail(w), Apos, tail)
      /\ w[1] # Apos => line[i] = w[1] /\ Ahead(line, i + 1) = Ended(Tail(w), Apos, tail)
  BY <1>1, ReadEscaped
<1>4. /\ Append(u, w[1]) \in Seq(Sign) /\ Tail(w) \in Seq(Sign)
      /\ w[1] \in Range(Wide[k]) /\ Append(u, w[1]) \o Tail(w) = Wide[k]
  <2>1. \A v \in Seq(Sign) :
          /\ Append(v, w[1]) \in Seq(Sign) /\ Tail(w) \in Seq(Sign) /\ w[1] \in Range(v \o w)
          /\ Append(v, w[1]) \o Tail(w) = v \o w
    BY OneOver
  <2> QED
    BY <1>1, <2>1
<1>5. w[1] # Esc
  BY <1>1, <1>4 DEF Plain
<1>6. /\ pc' = "text" /\ vec' = [vec EXCEPT ![k] = Append(@, w[1])]
      /\ i' = (IF w[1] = Apos THEN i + 2 ELSE i + 1)
  <2>1. CASE w[1] = Apos
    <3>1. line[i] = Esc /\ i < Len(line) /\ line[i + 1] = Apos
      BY <1>3, <2>1
    <3>2. Add(Apos) /\ i' = i + 2 /\ pc = "text"
      BY <1>1, <3>1 DEF ReadText
    <3> QED
      BY <2>1, <3>2 DEF Add, k
  <2>2. CASE w[1] # Apos
    <3>1. line[i] = w[1] /\ line[i] \notin {Esc, Apos}
      BY <1>3, <1>5, <2>2
    <3>2. Add(line[i]) /\ i' = i + 1 /\ pc = "text"
      BY <3>1 DEF ReadText
    <3> QED
      BY <2>2, <3>1, <3>2 DEF Add, k
  <2> QED
    BY <2>1, <2>2
<1>7. Ahead(line, i') = Ended(Tail(w), Apos, tail) /\ i' \in Nat \ {0}
  BY <1>1, <1>3, <1>6
<1>8. /\ vec' \in Seq(Seq(Sign)) /\ Len(vec') = k /\ vec'[k] = Append(u, w[1])
      /\ \A c \in 1..k : c # k => vec'[c] = vec[c]
  <2>1. vec' = [vec EXCEPT ![k] = Append(u, w[1])] /\ Len(vec) = k
    BY <1>1, <1>6 DEF u, k
  <2> QED
    BY <1>1, <1>4, <2>1, ExceptSeq
<1>9. /\ \A c : PastCell(c)' = PastCell(c)
      /\ \A c : Got(c)' = Got(c)
      /\ Wide' = Wide
  BY <1>2, SameCells
<1>10. Firsts(vec, Len(vec) - 1)'
  <2>1. Firsts(vec', k - 1)
    <3>1. \A c \in 1..(k - 1) : c \in 1..k /\ c # k
      BY <1>1
    <3> QED
      BY <1>1, <1>8, <3>1 DEF Firsts
  <2> QED
    BY <1>2, <1>8, <2>1, SameFirsts
<1>11. Rested'
  BY <1>1, <1>2, <1>7, <1>8 DEF Rested
<1>12. (Got(Len(vec)) = Wide[Len(vec)] /\ Plain(Wide[Len(vec)]))'
  BY <1>1, <1>8, <1>9
<1>13. (\E v \in Seq(Sign) : /\ vec[Len(vec)] \o v = Wide[Len(vec)]
                             /\ Ahead(line, i) = Ended(v, Apos, Cons(Apos, PastCell(Len(vec)))))'
  <2>1. \E v \in Seq(Sign) : /\ vec'[k] \o v = Wide[k]
                             /\ Ahead(line, i') = Ended(v, Apos, Cons(Apos, PastCell(k)))
    BY <1>4, <1>7, <1>8 DEF tail
  <2> QED
    BY <1>2, <1>8, <1>9, <2>1
<1>14. (Len(vec) \in 1..Width)'
  BY <1>1, <1>8
<1> QED
  BY <1>6, <1>10, <1>11, <1>12, <1>13, <1>14 DEF InText

(* The apostrophe that ends a text: what follows it is a comma.            *)
LEMMA TextEndAhead ==
  ASSUME GivenInv, Clean, Unmarked, InText,
         Ahead(line, i) = Cons(Apos, PastCell(Len(vec)))
  PROVE  /\ i <= Len(line) /\ line[i] = Apos /\ Ahead(line, i + 1) = PastCell(Len(vec))
         /\ ~(i < Len(line) /\ line[i + 1] = Apos)
<1> DEFINE p == PastCell(Len(vec))
           f == From(Cells, Len(vec) + 1)
<1>1. /\ line \in Seq(Sign) /\ i \in Nat \ {0} /\ i + 1 \in Nat \ {0} /\ p \in Seq(Sign) /\ p # <<>>
      /\ Apos \in Sign /\ Comma \in Sign /\ Apos # Comma /\ f \in Seq(Sign)
  <2>1. /\ line \in Seq(Sign) /\ i \in Nat \ {0} /\ Len(vec) \in Nat /\ p \in Seq(Sign) /\ p # <<>>
    BY InTextFacts
  <2>2. f \in Seq(Sign)
    BY <2>1, PastCellType
  <2> HIDE DEF p, f
  <2> QED
    BY <2>1, <2>2, Signs, SignsDiffer
<1>2. p = <<Comma>> \o f
  BY DEF PastCell, Cons
<1> HIDE DEF p, f
<1>3. i <= Len(line) /\ line[i] = Apos /\ Ahead(line, i + 1) = p
  BY <1>1, NextSign DEF p
<1>4. ASSUME i < Len(line)
      PROVE  line[i + 1] = Comma
  <2> DEFINE a == line[i + 1]
             r == Ahead(line, (i + 1) + 1)
  <2>1. i + 1 <= Len(line) /\ a \in Sign /\ (i + 1) + 1 \in Nat \ {0}
    BY <1>1, <1>4
  <2>2. p = <<a>> \o r /\ r \in Seq(Sign)
    BY <1>1, <1>3, <2>1, AheadType
  <2> HIDE DEF a, r
  <2>3. (<<a>> \o r)[1] = a /\ (<<Comma>> \o f)[1] = Comma
    BY <1>1, <2>1, <2>2, TailOfConcat
  <2> QED
    BY <1>2, <2>2, <2>3 DEF a
<1> QED
  BY <1>1, <1>3, <1>4 DEF p

LEMMA TextReads ==
  ASSUME GivenInv, Clean, Unmarked, InText, ReadText
  PROVE  InText' \/ AtComma'
<1>1. PICK w \in Seq(Sign) : /\ vec[Len(vec)] \o w = Wide[Len(vec)]
                             /\ Ahead(line, i) = Ended(w, Apos, Cons(Apos, PastCell(Len(vec))))
  BY DEF InText
<1>2. CASE w # <<>>
  BY <1>1, <1>2, TextCharReads
<1>3. CASE w = <<>>
  <2>1. vec[Len(vec)] = Wide[Len(vec)]
    BY <1>1, <1>3, InTextFacts, ConcatEmptySeq
  <2>2. Ahead(line, i) = Cons(Apos, PastCell(Len(vec)))
    BY <1>1, <1>3, InTextFacts, EscapedEmpty, ConcatEmptySeq DEF Ended
  <2>3. /\ i <= Len(line) /\ line[i] = Apos /\ Ahead(line, i + 1) = PastCell(Len(vec))
        /\ ~(i < Len(line) /\ line[i + 1] = Apos)
    BY <2>2, TextEndAhead
  <2>4. /\ pc' = "comma" /\ i' = i + 1 /\ UNCHANGED vec
        /\ UNCHANGED given /\ UNCHANGED <<rest, line, rows, target>>
    BY <2>3, SignsDiffer DEF ReadText
  <2>5. Firsts(vec, Len(vec))
    <3>1. Firsts(vec, Len(vec) - 1) /\ Got(Len(vec)) = Wide[Len(vec)] /\ Len(vec) \in Nat
      BY InTextFacts DEF InText
    <3> QED
      BY <2>1, <3>1 DEF Firsts
  <2>6. Firsts(vec, Len(vec))'
    BY <2>4, <2>5, SameFirsts
  <2>7. Rested' /\ (Len(vec) \in 1..Width)'
    BY <2>4 DEF InText, Rested
  <2>8. (Ahead(line, i) = PastCell(Len(vec)))'
    BY <2>3, <2>4, SameCells
  <2> QED
    BY <2>4, <2>6, <2>7, <2>8 DEF AtComma
<1> QED
  BY <1>2, <1>3

LEMMA ValueEnds ==
  ASSUME GivenInv, Clean, Unmarked, AtComma, EndValue
  PROVE  AtValue' \/ Arrived'
<1> DEFINE k == Len(vec)
           f == From(Cells, k + 1)
<1>1. /\ line \in Seq(Sign) /\ i \in Nat \ {0} /\ vec \in Seq(Seq(Sign)) /\ k \in 1..Width
      /\ Ahead(line, i) = PastCell(k) /\ Firsts(vec, k)
      /\ rest = <<>> /\ rows = <<>> /\ target = <<>> /\ pc = "comma"
  BY DEF AtComma, Rested
<1>2. /\ k \in Nat /\ Width \in Nat /\ k + 1 \in Nat \ {0} /\ i + 1 \in Nat \ {0}
      /\ Comma \in Sign /\ Cells \in Seq(Seq(Sign)) /\ Len(Cells) = Width
  <2>1. Comma \in Sign /\ Cells \in Seq(Seq(Sign)) /\ Len(Cells) = Width /\ Width \in Nat
    BY Signs, CellsType
  <2> HIDE DEF k
  <2>2. k \in Nat /\ k + 1 \in Nat \ {0} /\ i + 1 \in Nat \ {0}
    BY <1>1, <2>1
  <2> QED
    BY <2>1, <2>2
<1>3. UNCHANGED given /\ UNCHANGED <<rest, line, cur, vec, rows>>
  BY DEF EndValue
<1>4. f \in Seq(Sign)
  BY <1>2, PastCellType
<1>5. Ahead(line, i) = Cons(Comma, f)
  BY <1>1 DEF PastCell
<1>6. Cells' = Cells /\ (\A c : Got(c)' = Got(c))
  BY <1>3, SameCells
<1>7. CASE k < Width
  <2>1. f # <<>>
    <3>1. k + 1 \in Columns
      BY <1>2, <1>7 DEF Columns
    <3>2. f = Cells[k + 1] \o From(Cells, (k + 1) + 1)
      <4>1. k + 1 <= Len(Cells)
        BY <1>2, <1>7
      <4> QED
        BY <1>2, <4>1, FromType
    <3>3. Cells[k + 1] = Append(Cell(k + 1), Comma) /\ Cell(k + 1) \in Seq(Sign)
      BY <3>1, CellsType, CellFacts
    <3>4. From(Cells, (k + 1) + 1) \in Seq(Sign)
      BY <1>2, (k + 1) + 1 \in Nat \ {0}, FromType
    <3> DEFINE v == Append(Cell(k + 1), Comma)
               g == From(Cells, (k + 1) + 1)
    <3>5. v \in Seq(Sign) /\ v # <<>>
      BY <1>2, <3>3, AppendProperties
    <3>6. g \in Seq(Sign) /\ f = v \o g
      BY <3>2, <3>3, <3>4
    <3> HIDE DEF v, g, f
    <3> QED
      BY <3>5, <3>6, ConcatEqualIffEmpty
  <2> HIDE DEF f
  <2>2. i <= Len(line) /\ line[i] = Comma /\ Ahead(line, i + 1) = f
    BY <1>1, <1>2, <1>4, <1>5, <2>1, NextSign
  <2>3. pc' = "value" /\ i' = i + 1 /\ target' = target
    BY <1>1, <1>2, <1>7, <2>2 DEF EndValue, Here
  <2>4. Rested'
    BY <1>1, <1>2, <1>3, <2>3 DEF Rested
  <2>5. Firsts(vec, Len(vec))' /\ (Len(vec) < Width)'
    BY <1>1, <1>3, <1>7, SameFirsts
  <2>6. (Ahead(line, i) = From(Cells, Len(vec) + 1))'
    BY <1>3, <1>6, <2>2, <2>3 DEF f
  <2> QED
    BY <2>3, <2>4, <2>5, <2>6 DEF AtValue
<1>8. CASE ~(k < Width)
  <2>1. k = Width /\ k + 1 > Len(Cells)
    BY <1>1, <1>2, <1>8
  <2>2. f = <<>>
    BY <1>2, <2>1, FromType
  <2>3. Ahead(line, i) = <<Comma>>
    BY <1>2, <1>5, <2>2, ConcatEmptySeq, SingletonSeq DEF Cons
  <2>4. i > Len(line)
    BY <1>1, <2>3, LastSign
  <2>5. pc' = "line" /\ target' = Append(target, vec)
    BY <1>1, <2>1, <2>4 DEF EndValue, Here
  <2>6. vec = [c \in Columns |-> Got(c)]
    <3> DEFINE g == [c \in 1..Width |-> Got(c)]
    <3>1. \A c \in 1..Width : Got(c) \in Seq(Sign)
      BY GotType DEF Columns
    <3>2. g \in [1..Width -> Seq(Sign)]
      BY <3>1
    <3>3. g \in Seq(Seq(Sign)) /\ Len(g) = Width /\ \A c \in 1..Width : g[c] = Got(c)
      BY <1>2, <3>2, FunctionIsSeq
    <3> HIDE DEF g
    <3>4. \A c \in 1..Width : vec[c] = Got(c)
      BY <1>1, <2>1 DEF Firsts
    <3>5. vec = g
      BY <1>1, <2>1, <3>3, <3>4, SeqEqual
    <3> QED
      BY <3>5 DEF g, Columns
  <2>7. target' = <<vec>>
    BY <1>1, <2>5
  <2> QED
    BY <1>1, <1>3, <1>6, <2>5, <2>6, <2>7 DEF Arrived
<1> QED
  BY <1>7, <1>8

(* A text does not end the line.                                           *)
LEMMA TextGoesOn ==
  ASSUME GivenInv, Clean, Unmarked, InText
  PROVE  ~EndValue
<1> SUFFICES ASSUME EndValue
             PROVE  FALSE
  OBVIOUS
<1>1. i > Len(line) \/ (i = Len(line) /\ line[i] = Esc)
  BY DEF InText, EndValue
<1> DEFINE p == Cons(Apos, PastCell(Len(vec)))
<1>2. /\ line \in Seq(Sign) /\ i \in Nat \ {0} /\ p \in Seq(Sign) /\ p # <<>> /\ Apos \in Sign
      /\ Esc # Apos /\ Len(line) \in Nat
  BY InTextFacts, Signs, SignsDiffer
<1>3. PICK w \in Seq(Sign) : vec[Len(vec)] \o w = Wide[Len(vec)] /\ Ahead(line, i) = Ended(w, Apos, p)
  BY DEF InText
<1>4. CASE w # <<>>
  <2> HIDE DEF p
  <2>1. /\ i <= Len(line)
        /\ w[1] = Apos => i < Len(line)
        /\ w[1] # Apos => line[i] = w[1]
    BY <1>2, <1>3, <1>4, ReadEscaped
  <2>2. w[1] # Esc
    <3> DEFINE u == vec[Len(vec)]
               t == Wide[Len(vec)]
    <3>1. u \in Seq(Sign) /\ u \o w = t /\ Esc \notin Range(t)
      BY <1>3, InTextFacts DEF InText, Plain
    <3> HIDE DEF u, t
    <3>2. \A v \in Seq(Sign) : w[1] \in Range(v \o w)
      BY <1>4, OneOver
    <3> QED
      BY <3>1, <3>2
  <2> QED
    BY <1>1, <1>2, <2>1, <2>2
<1>5. CASE w = <<>>
  <2>1. Ahead(line, i) = p
    BY <1>2, <1>3, <1>5, EscapedEmpty, ConcatEmptySeq DEF Ended
  <2>2. i <= Len(line) /\ line[i] = Apos
    BY <2>1, TextEndAhead
  <2> QED
    BY <1>1, <1>2, <2>2
<1> QED
  BY <1>4, <1>5

-----------------------------------------------------------------------------
(* The whole way of a row that no character of it disturbs.                *)

ArrivalInv ==
  Clean /\ Unmarked =>
    Unread \/ Parsing \/ Kept \/ AtValue \/ InText \/ AtComma \/ Arrived

LEMMA ArrivalStutters ==
  ASSUME Unread \/ Parsing \/ Kept \/ AtValue \/ InText \/ AtComma \/ Arrived, UNCHANGED vars
  PROVE  (Unread \/ Parsing \/ Kept \/ AtValue \/ InText \/ AtComma \/ Arrived)'
<1>1. UNCHANGED given /\ UNCHANGED <<pc, rest, line, i, cur, vec, rows, target>>
  BY DEF vars, given
<1>2. /\ Taken' = Taken /\ Read' = Read /\ Count' = Count /\ First' = First
      /\ ParseOneRow' = ParseOneRow /\ \A c : After(c)' = After(c)
  BY <1>1, SameGiven
<1>3. /\ Wide' = Wide /\ Cells' = Cells
      /\ \A c : PastCell(c)' = PastCell(c)
      /\ \A c : Got(c)' = Got(c)
  BY <1>1, SameCells
<1>4. \A n : Firsts(vec, n)' = Firsts(vec, n)
  BY <1>1, <1>3 DEF Firsts
<1>5. CASE Unread
  BY <1>1, <1>2, <1>5 DEF Unread
<1>6. CASE Parsing
  BY <1>1, <1>2, <1>6 DEF Parsing
<1>7. CASE Kept
  BY <1>1, <1>2, <1>7 DEF Kept
<1>8. CASE AtValue
  BY <1>1, <1>3, <1>4, <1>8 DEF AtValue, Rested
<1>9. CASE InText
  <2>1. Rested' /\ (Len(vec) \in 1..Width)' /\ Firsts(vec, Len(vec) - 1)'
    BY <1>1, <1>4, <1>9 DEF InText, Rested
  <2>2. (Got(Len(vec)) = Wide[Len(vec)] /\ Plain(Wide[Len(vec)]))'
    BY <1>1, <1>3, <1>9 DEF InText
  <2>3. (\E w \in Seq(Sign) : /\ vec[Len(vec)] \o w = Wide[Len(vec)]
                              /\ Ahead(line, i) = Ended(w, Apos, Cons(Apos, PastCell(Len(vec)))))'
    BY <1>1, <1>3, <1>9 DEF InText
  <2> QED
    BY <1>1, <1>9, <2>1, <2>2, <2>3 DEF InText
<1>10. CASE AtComma
  BY <1>1, <1>3, <1>4, <1>10 DEF AtComma, Rested
<1>11. CASE Arrived
  BY <1>1, <1>3, <1>11 DEF Arrived
<1> QED
  BY <1>5, <1>6, <1>7, <1>8, <1>9, <1>10, <1>11

LEMMA ArrivalKept ==
  ASSUME GivenInv, ArrivalInv, [Next]_vars
  PROVE  ArrivalInv'
<1>1. UNCHANGED given
  BY DEF Next, GetLine, ParseChar, EndOfLine, Push, BeginValue, ReadText, EndValue, Done, vars, given
<1>2. Clean' = Clean /\ Unmarked' = Unmarked
  BY <1>1, SameGiven, SameCells
<1> SUFFICES ASSUME Clean, Unmarked
             PROVE  (Unread \/ Parsing \/ Kept \/ AtValue \/ InText \/ AtComma \/ Arrived)'
  BY <1>2 DEF ArrivalInv
<1>3. Unread \/ Parsing \/ Kept \/ AtValue \/ InText \/ AtComma \/ Arrived
  BY DEF ArrivalInv
<1>4. CASE GetLine
  <2>1. Unread
    BY <1>3, <1>4 DEF GetLine, Parsing, Kept, AtValue, InText, AtComma, Arrived
  <2> QED
    BY <1>4, <2>1, GetLineParses
<1>5. CASE ParseChar
  <2>1. Parsing
    BY <1>3, <1>5 DEF ParseChar, Unread, Kept, AtValue, InText, AtComma, Arrived
  <2> QED
    BY <1>5, <2>1, ParseCharParses
<1>6. CASE EndOfLine
  <2>1. Parsing
    BY <1>3, <1>6 DEF EndOfLine, Unread, Kept, AtValue, InText, AtComma, Arrived
  <2> QED
    BY <1>6, <2>1, EndOfLineKeeps
<1>7. CASE Push
  <2>1. Kept
    BY <1>3, <1>7 DEF Push, Unread, Parsing, AtValue, InText, AtComma, Arrived
  <2> QED
    BY <1>7, <2>1, PushBegins
<1>8. CASE BeginValue
  <2>1. AtValue
    BY <1>3, <1>8 DEF BeginValue, Unread, Parsing, Kept, InText, AtComma, Arrived
  <2> QED
    BY <1>8, <2>1, BeginReads
<1>9. CASE ReadText
  <2>1. InText
    BY <1>3, <1>9 DEF ReadText, Unread, Parsing, Kept, AtValue, AtComma, Arrived
  <2> QED
    BY <1>9, <2>1, TextReads
<1>10. CASE EndValue
  <2>1. InText \/ AtComma
    BY <1>3, <1>10 DEF EndValue, Unread, Parsing, Kept, AtValue, Arrived
  <2> QED
    BY <1>10, <2>1, ValueEnds, TextGoesOn
<1>11. CASE Done
  <2>1. Arrived
    BY <1>3, <1>11, ParseOneRowWritten
       DEF Done, Unread, Parsing, Kept, AtValue, InText, AtComma
  <2>2. \A c : Got(c)' = Got(c)
    BY <1>1, SameCells
  <2> QED
    BY <1>11, <2>1, <2>2 DEF Done, Arrived
<1>12. CASE UNCHANGED vars
  BY <1>3, <1>12, ArrivalStutters
<1> QED
  BY <1>4, <1>5, <1>6, <1>7, <1>8, <1>9, <1>10, <1>11, <1>12 DEF Next

LEMMA SpecArrives == Spec => [](GivenInv /\ ArrivalInv)
<1>1. Init => GivenInv /\ ArrivalInv
  BY DEF Init, GivenInv, ArrivalInv, Unread
<1>2. GivenInv /\ ArrivalInv /\ [Next]_vars => ArrivalInv'
  BY ArrivalKept
<1> QED
  BY <1>1, <1>2, SpecDecodes, PTL DEF Spec

(* Of an event with every column, what the target has read is the row.     *)
LEMMA GotIsWritten ==
  ASSUME GivenInv, Clean, Whole, ~Holds(Marker),
         deflt # NoDefault /\ Stored(row[Width]) = deflt.text => deflt.value = row[Width],
         ~(late /\ deflt = NoDefault)
  PROVE  [c \in Columns |-> Got(c)] = row
<1>1. /\ Width \in Nat /\ Read \in Nat /\ 2 <= Read /\ First \in {1, 2} /\ image = First..Read
      /\ Read <= Width /\ Width <= Read + 1 /\ (late <=> Read = Width - 1)
  BY Numbers
<1>2. First = 1 /\ Count = Read
  <2>1. 1 \in First..Read
    BY <1>1 DEF Whole
  <2> QED
    BY <1>1, <2>1 DEF Count
<1>3. ASSUME NEW c \in 1..Read
      PROVE  Wide[c] = Stored(row[c])
  <2>1. Wide[c] = Taken[c]
    BY <1>3, WideFacts
  <2>2. Taken[c] = Text(c + First - 1) /\ c + First - 1 = c
    BY <1>2, <1>3, TakenType
  <2> QED
    BY <2>1, <2>2 DEF Text
<1>4. ASSUME NEW c \in Columns, row[c] = <<Marker>>
      PROVE  FALSE
  <2>1. Marker \in Range(row[c])
    BY <1>4 DEF Range
  <2> QED
    BY <2>1 DEF Holds
<1>5. ASSUME NEW c \in Columns
      PROVE  Got(c) = row[c]
  <2>1. CASE c \in 1..Read /\ AsDefault(c)
    <3>1. c = Width /\ deflt # NoDefault /\ Stored(row[Width]) = deflt.text
      BY <1>3, <2>1 DEF AsDefault
    <3> QED
      BY <2>1, <3>1 DEF Got
  <2>2. CASE c \in 1..Read /\ ~AsDefault(c) /\ row[c] = Null
    BY <1>3, <2>2 DEF Got, Stored
  <2>3. CASE c \in 1..Read /\ ~AsDefault(c) /\ row[c] # Null
    BY <1>3, <1>4, <2>3 DEF Got, Stored
  <2>4. CASE c \notin 1..Read
    <3>1. c = Width /\ late
      BY <1>1, <2>4 DEF Columns
    <3>2. AsDefault(c)
      BY <3>1, WideFacts DEF AsDefault
    <3>3. row[Width] = deflt.value
      BY <3>1 DEF GivenInv
    <3> QED
      BY <3>1, <3>2, <3>3 DEF Got
  <2> QED
    BY <2>1, <2>2, <2>3, <2>4
<1>6. row = [c \in Columns |-> row[c]]
  BY DEF GivenInv
<1> QED
  BY <1>5, <1>6

-----------------------------------------------------------------------------
(* What follows of the way to the target.                                  *)

(* The INSERT of a row is refused only for a backslash, a line break, or   *)
(* the marker of NULL inside a longer text: a line of result.csv that      *)
(* Pusher makes part of an INSERT is otherwise read to its end.            *)
THEOREM RefusedOnlyForAReason == Spec => []RefusedForAReason
<1>1. ArrivalInv => RefusedForAReason
  BY DEF ArrivalInv, RefusedForAReason, Clean, Unmarked,
         Unread, Parsing, Kept, AtValue, InText, AtComma, Arrived
<1> QED
  BY <1>1, SpecArrives, PTL

(* A row reaches the target as it was written, and alone, through the two  *)
(* escapes, the marker of NULL and the DEFAULT of a late column.           *)
THEOREM RowArrives == Spec => []ArrivesAsWritten
<1>1. ASSUME GivenInv, ArrivalInv
      PROVE  ArrivesAsWritten
  <2> SUFFICES ASSUME /\ Whole /\ ~Holds(Esc) /\ ~Holds(NL) /\ ~Holds(Marker)
                      /\ ~(late /\ deflt = NoDefault),
                      deflt # NoDefault /\ Stored(row[Width]) = deflt.text => deflt.value = row[Width]
               PROVE  pc \notin {"failed", "refused"} /\ (pc = "done" => target = <<row>>)
    BY DEF ArrivesAsWritten
  <2>1. Clean /\ Unmarked
    BY DEF Clean, Unmarked, Holds
  <2>2. Unread \/ Parsing \/ Kept \/ AtValue \/ InText \/ AtComma \/ Arrived
    BY <1>1, <2>1 DEF ArrivalInv
  <2>3. pc \notin {"failed", "refused"} /\ (pc = "done" => Arrived)
    BY <2>2 DEF Unread, Parsing, Kept, AtValue, InText, AtComma, Arrived
  <2>4. [c \in Columns |-> Got(c)] = row
    BY <1>1, <2>1, GotIsWritten
  <2> QED
    BY <2>3, <2>4 DEF Arrived
<1>2. GivenInv /\ ArrivalInv => ArrivesAsWritten
  BY <1>1
<1> QED
  BY <1>2, SpecArrives, PTL
=============================================================================
