--------------------------- MODULE SequenceFacts ---------------------------
(***************************************************************************)
(* Facts about the sequence operators the models use and the library has   *)
(* no theorem on.                                                          *)
(***************************************************************************)
EXTENDS SequencesExt, SequenceTheorems, WellFoundedInduction, Integers, TLAPS

(* A function on 1..n with values in S is a sequence over S.               *)
LEMMA FunctionIsSeq ==
  ASSUME NEW S, NEW n \in Nat, NEW f \in [1..n -> S]
  PROVE  f \in Seq(S) /\ Len(f) = n
<1>1. f \in Seq(S)
  BY SeqDef
<1> QED
  BY <1>1

LEMMA SingletonSeq ==
  ASSUME NEW S, NEW x \in S
  PROVE  <<x>> \in Seq(S) /\ Len(<<x>>) = 1 /\ <<x>>[1] = x
OBVIOUS

(* Removing a position shifts what follows it.                             *)
LEMMA RemoveAtFacts ==
  ASSUME NEW S, NEW s \in Seq(S), NEW i \in 1..Len(s)
  PROVE  /\ RemoveAt(s, i) \in Seq(S)
         /\ Len(RemoveAt(s, i)) = Len(s) - 1
         /\ \A j \in 1..(Len(s) - 1) :
              RemoveAt(s, i)[j] = IF j < i THEN s[j] ELSE s[j + 1]
<1> DEFINE front == SubSeq(s, 1, i - 1)
           back  == SubSeq(s, i + 1, Len(s))
<1>1. /\ front \in Seq(S) /\ Len(front) = i - 1
      /\ \A j \in 1..(i - 1) : front[j] = s[j]
  BY SubSeqProperties, LenProperties, ElementOfSeq
<1>2. /\ back \in Seq(S) /\ Len(back) = Len(s) - i
      /\ \A j \in 1..(Len(s) - i) : back[j] = s[i + j]
  BY SubSeqProperties, LenProperties, ElementOfSeq
<1> HIDE DEF front, back
<1>3. /\ front \o back \in Seq(S)
      /\ Len(front \o back) = Len(front) + Len(back)
      /\ \A j \in 1..(Len(front) + Len(back)) :
           (front \o back)[j] = IF j <= Len(front) THEN front[j] ELSE back[j - Len(front)]
  BY <1>1, <1>2, ConcatProperties
<1>4. RemoveAt(s, i) = front \o back
  BY DEF RemoveAt, front, back
<1>5. Len(s) \in Nat
  OBVIOUS
<1>6. ASSUME NEW j \in 1..(Len(s) - 1)
      PROVE  RemoveAt(s, i)[j] = IF j < i THEN s[j] ELSE s[j + 1]
  <2>1. CASE j < i
    BY <2>1, <1>1, <1>2, <1>3, <1>4, <1>5
  <2>2. CASE j >= i
    <3>1. j - Len(front) \in 1..(Len(s) - i) /\ i + (j - Len(front)) = j + 1
      BY <2>2, <1>1, <1>5
    <3>2. back[j - Len(front)] = s[j + 1]
      BY <3>1, <1>2
    <3>3. j \in 1..(Len(front) + Len(back)) /\ ~(j <= Len(front)) /\ ~(j < i)
      BY <2>2, <1>1, <1>2, <1>5
    <3> QED
      BY <3>2, <3>3, <1>3, <1>4
  <2> QED
    BY <2>1, <2>2
<1> QED
  BY <1>1, <1>2, <1>3, <1>4, <1>5, <1>6

(* Inserting at a position shifts what was there.                          *)
LEMMA InsertAtFacts ==
  ASSUME NEW S, NEW s \in Seq(S), NEW i \in 1..(Len(s) + 1), NEW x \in S
  PROVE  /\ InsertAt(s, i, x) \in Seq(S)
         /\ Len(InsertAt(s, i, x)) = Len(s) + 1
         /\ \A j \in 1..(Len(s) + 1) :
              InsertAt(s, i, x)[j] = IF j < i THEN s[j] ELSE IF j = i THEN x ELSE s[j - 1]
<1> DEFINE front == SubSeq(s, 1, i - 1) \o <<x>>
           back  == SubSeq(s, i, Len(s))
<1>1. /\ SubSeq(s, 1, i - 1) \in Seq(S) /\ Len(SubSeq(s, 1, i - 1)) = i - 1
      /\ \A j \in 1..(i - 1) : SubSeq(s, 1, i - 1)[j] = s[j]
  BY SubSeqProperties, LenProperties, ElementOfSeq
<1>2. /\ back \in Seq(S) /\ Len(back) = Len(s) + 1 - i
      /\ \A j \in 1..(Len(s) + 1 - i) : back[j] = s[i + j - 1]
  BY SubSeqProperties, LenProperties, ElementOfSeq
<1>3. /\ front \in Seq(S) /\ Len(front) = i
      /\ \A j \in 1..i : front[j] = IF j <= i - 1 THEN s[j] ELSE x
  <2> DEFINE f == SubSeq(s, 1, i - 1)
  <2>1. <<x>> \in Seq(S) /\ Len(<<x>>) = 1 /\ <<x>>[1] = x
    BY SingletonSeq
  <2> HIDE DEF f
  <2>2. /\ f \o <<x>> \in Seq(S)
        /\ Len(f \o <<x>>) = Len(f) + Len(<<x>>)
        /\ \A j \in 1..(Len(f) + Len(<<x>>)) :
             (f \o <<x>>)[j] = IF j <= Len(f) THEN f[j] ELSE <<x>>[j - Len(f)]
    BY <1>1, <2>1, ConcatProperties DEF f
  <2>3. f \in Seq(S) /\ Len(f) = i - 1 /\ \A j \in 1..(i - 1) : f[j] = s[j]
    BY <1>1 DEF f
  <2>4. \A j \in 1..i : (f \o <<x>>)[j] = IF j <= i - 1 THEN s[j] ELSE x
    BY <2>1, <2>2, <2>3
  <2> QED
    BY <2>1, <2>2, <2>3, <2>4 DEF f
<1> HIDE DEF front, back
<1>4. /\ front \o back \in Seq(S)
      /\ Len(front \o back) = Len(front) + Len(back)
      /\ \A j \in 1..(Len(front) + Len(back)) :
           (front \o back)[j] = IF j <= Len(front) THEN front[j] ELSE back[j - Len(front)]
  BY <1>2, <1>3, ConcatProperties
<1>5. InsertAt(s, i, x) = front \o back
  BY DEF InsertAt, front, back
<1>6. Len(s) \in Nat
  OBVIOUS
<1>7. ASSUME NEW j \in 1..(Len(s) + 1)
      PROVE  InsertAt(s, i, x)[j] = IF j < i THEN s[j] ELSE IF j = i THEN x ELSE s[j - 1]
  <2>1. CASE j <= i
    BY <2>1, <1>2, <1>3, <1>4, <1>5, <1>6
  <2>2. CASE j > i
    <3>1. j - Len(front) \in 1..(Len(s) + 1 - i) /\ i + (j - Len(front)) - 1 = j - 1
      BY <2>2, <1>3, <1>6
    <3> QED
      BY <2>2, <3>1, <1>2, <1>3, <1>4, <1>5, <1>6
  <2> QED
    BY <2>1, <2>2
<1> QED
  BY <1>2, <1>3, <1>4, <1>5, <1>6, <1>7

(* Sequences whose elements are all different keep them so.                *)
LEMMA RemoveAtOnce ==
  ASSUME NEW S, NEW s \in Seq(S), NEW i \in 1..Len(s),
         \A j, k \in 1..Len(s) : s[j] = s[k] => j = k
  PROVE  /\ \A j, k \in 1..Len(RemoveAt(s, i)) : RemoveAt(s, i)[j] = RemoveAt(s, i)[k] => j = k
         /\ Range(RemoveAt(s, i)) = Range(s) \ {s[i]}
<1> DEFINE t == RemoveAt(s, i)
<1>0. /\ t \in Seq(S) /\ Len(t) = Len(s) - 1
      /\ \A j \in 1..(Len(s) - 1) : t[j] = IF j < i THEN s[j] ELSE s[j + 1]
  BY RemoveAtFacts
<1> HIDE DEF t
<1>1. /\ t \in Seq(S) /\ Len(t) = Len(s) - 1 /\ Len(s) \in Nat
      /\ \A j \in 1..(Len(s) - 1) : t[j] = IF j < i THEN s[j] ELSE s[j + 1]
  BY <1>0
<1>2. ASSUME NEW j \in 1..Len(t)
      PROVE  /\ j < i => t[j] = s[j] /\ j \in 1..Len(s)
             /\ ~(j < i) => t[j] = s[j + 1] /\ j + 1 \in 1..Len(s)
  BY <1>1
<1>3. ASSUME NEW j \in 1..Len(t), NEW k \in 1..Len(t), t[j] = t[k]
      PROVE  j = k
  <2>1. CASE j < i /\ k < i
    BY <1>2, <1>3, <2>1
  <2>2. CASE ~(j < i) /\ ~(k < i)
    <3>1. j + 1 = k + 1
      BY <1>2, <1>3, <2>2
    <3> QED
      BY <3>1
  <2>3. CASE j < i /\ ~(k < i)
    <3>1. j = k + 1
      BY <1>2, <1>3, <2>3
    <3> QED
      BY <2>3, <3>1
  <2>4. CASE ~(j < i) /\ k < i
    <3>1. j + 1 = k
      BY <1>2, <1>3, <2>4
    <3> QED
      BY <2>4, <3>1
  <2> QED
    BY <2>1, <2>2, <2>3, <2>4
<1>4. ASSUME NEW j \in 1..Len(t)
      PROVE  t[j] \in Range(s) \ {s[i]}
  <2>1. CASE j < i
    BY <1>2, <2>1 DEF Range
  <2>2. CASE ~(j < i)
    <3>1. t[j] = s[j + 1] /\ j + 1 \in 1..Len(s) /\ j + 1 # i
      BY <1>2, <2>2
    <3> QED
      BY <3>1 DEF Range
  <2> QED
    BY <2>1, <2>2
<1>5. ASSUME NEW j \in 1..Len(s), j # i
      PROVE  s[j] \in Range(t)
  <2>1. CASE j < i
    <3>1. j \in 1..Len(t) /\ t[j] = s[j]
      BY <1>1, <2>1
    <3> QED
      BY <1>1, <3>1 DEF Range
  <2>2. CASE j > i
    <3>1. j - 1 \in 1..(Len(s) - 1) /\ ~(j - 1 < i) /\ (j - 1) + 1 = j
      BY <1>1, <2>2
    <3>2. t[j - 1] = s[j] /\ j - 1 \in 1..Len(t)
      BY <1>1, <3>1
    <3> QED
      BY <1>1, <3>2 DEF Range
  <2> QED
    BY <1>5, <2>1, <2>2
<1>6. Range(t) = Range(s) \ {s[i]}
  <2>1. DOMAIN t = 1..Len(t) /\ DOMAIN s = 1..Len(s)
    BY <1>1
  <2>2. Range(t) \subseteq Range(s) \ {s[i]}
    BY <1>4, <2>1 DEF Range
  <2>3. \A x \in Range(s) \ {s[i]} : x \in Range(t)
    BY <1>5, <2>1 DEF Range
  <2> QED
    BY <2>2, <2>3
<1> QED
  BY <1>3, <1>6 DEF t

LEMMA InsertAtOnce ==
  ASSUME NEW S, NEW s \in Seq(S), NEW i \in 1..(Len(s) + 1), NEW x \in S, x \notin Range(s),
         \A j, k \in 1..Len(s) : s[j] = s[k] => j = k
  PROVE  \A j, k \in 1..Len(InsertAt(s, i, x)) :
           InsertAt(s, i, x)[j] = InsertAt(s, i, x)[k] => j = k
<1> DEFINE t == InsertAt(s, i, x)
<1>1. /\ Len(t) = Len(s) + 1 /\ Len(s) \in Nat
      /\ \A j \in 1..(Len(s) + 1) :
           t[j] = IF j < i THEN s[j] ELSE IF j = i THEN x ELSE s[j - 1]
  BY InsertAtFacts
<1> HIDE DEF t
<1>2. \A j \in 1..Len(s) : s[j] # x
  BY DEF Range
<1>3. ASSUME NEW j \in 1..Len(t)
      PROVE  /\ j < i => t[j] = s[j] /\ j \in 1..Len(s) /\ t[j] # x
             /\ j = i => t[j] = x
             /\ j > i => t[j] = s[j - 1] /\ j - 1 \in 1..Len(s) /\ t[j] # x
  <2>1. CASE j < i
    BY <1>1, <1>2, <2>1
  <2>2. CASE j = i
    BY <1>1, <2>2
  <2>3. CASE j > i
    <3>1. j - 1 \in 1..Len(s) /\ t[j] = s[j - 1]
      BY <1>1, <2>3
    <3> QED
      BY <1>2, <2>3, <3>1
  <2> QED
    BY <2>1, <2>2, <2>3
<1>4. ASSUME NEW j \in 1..Len(t), NEW k \in 1..Len(t), t[j] = t[k]
      PROVE  j = k
  <2>1. CASE j < i /\ k > i
    <3>1. j = k - 1
      BY <1>3, <1>4, <2>1
    <3> QED
      BY <2>1, <3>1
  <2>2. CASE j > i /\ k < i
    <3>1. k = j - 1
      BY <1>3, <1>4, <2>2
    <3> QED
      BY <2>2, <3>1
  <2>3. CASE j > i /\ k > i
    <3>1. j - 1 = k - 1
      BY <1>3, <1>4, <2>3
    <3> QED
      BY <3>1
  <2>4. CASE j < i /\ k < i
    BY <1>3, <1>4, <2>4
  <2>5. CASE j = i \/ k = i
    <3>1. (j = i => ~(k < i) /\ ~(k > i)) /\ (k = i => ~(j < i) /\ ~(j > i))
      BY <1>3, <1>4
    <3> QED
      BY <2>5, <3>1
  <2> QED
    BY <2>1, <2>2, <2>3, <2>4, <2>5
<1> QED
  BY <1>4 DEF t

-----------------------------------------------------------------------------
(* Induction, stated for sets: the least number of a set, and from it the  *)
(* step from a number to the next.                                         *)
Smaller == {p \in Nat \X Nat : p[1] < p[2]}
LEMMA SmallerWellFounded == IsWellFoundedOn(Smaller, Nat)
BY NatLessThanWellFounded DEF OpToRel, Smaller
(* A set of numbers has a least one.                                       *)
LEMMA LeastNatural ==
  ASSUME NEW T \in SUBSET Nat, T # {}
  PROVE  \E n \in T : \A m \in T : n <= m
<1>1. PICK n \in T : \A m \in T : ~(<<m, n>> \in Smaller)
  BY SmallerWellFounded, WFMin
<1>2. ASSUME NEW m \in T PROVE n <= m
  <2>1. m \in Nat /\ n \in Nat /\ <<m, n>> \in Nat \X Nat /\ <<m, n>>[1] = m /\ <<m, n>>[2] = n
    OBVIOUS
  <2>2. ~(m < n)
    BY <2>1, <1>1 DEF Smaller
  <2> QED
    BY <2>1, <2>2
<1> QED
  BY <1>2

(* Induction over the numbers up to n, for a set of them.                  *)
LEMMA Upwards ==
  ASSUME NEW n \in Nat, NEW T, 0 \in T,
         \A k \in 0..n : k < n /\ k \in T => k + 1 \in T
  PROVE  \A k \in 0..n : k \in T
<1> DEFINE Bad == {k \in 0..n : k \notin T}
<1>1. Bad \in SUBSET Nat
  OBVIOUS
<1> SUFFICES ASSUME Bad # {} PROVE FALSE
  OBVIOUS
<1> HIDE DEF Bad
<1>2. PICK k \in Bad : \A j \in Bad : k <= j
  BY <1>1, LeastNatural
<1> USE DEF Bad
<1>3. k \in 0..n /\ k \notin T /\ k # 0
  BY <1>2
<1>4. k - 1 \in 0..n /\ k - 1 \notin Bad /\ k - 1 < n /\ (k - 1) + 1 = k
  BY <1>2, <1>3
<1> QED
  BY <1>3, <1>4

-----------------------------------------------------------------------------
(* FlattenSeq, which the library defines by a recursive function.          *)
Flat(s) == CHOOSE f : f = [i \in 1..Len(s) |-> IF i = 1 THEN s[i] ELSE f[i - 1] \o s[i]]

LEMMA FlattenIsFlat ==
  ASSUME NEW s
  PROVE  FlattenSeq(s) = IF Len(s) = 0 THEN s ELSE Flat(s)[Len(s)]
BY DEF FlattenSeq, Flat

IsFlat(f, s, n) == f = [i \in 1..n |-> IF i = 1 THEN s[i] ELSE f[i - 1] \o s[i]]

(* There is such a function, whatever the length...                       *)
LEMMA FlatExists ==
  ASSUME NEW S, NEW s \in Seq(Seq(S)), NEW n \in Nat, n <= Len(s)
  PROVE  \E f \in [1..n -> Seq(S)] : IsFlat(f, s, n)
<1> USE DEF IsFlat
<1> DEFINE Ok(m) == \E f \in [1..m -> Seq(S)] : f = [i \in 1..m |-> IF i = 1 THEN s[i] ELSE f[i - 1] \o s[i]]
           Bad == {m \in 0..Len(s) : ~Ok(m)}
<1>1. Len(s) \in Nat
  OBVIOUS
<1>2. Ok(0)
  <2> DEFINE g == [i \in 1..0 |-> <<>>]
  <2>1. g \in [1..0 -> Seq(S)]
    OBVIOUS
  <2>2. g = [i \in 1..0 |-> IF i = 1 THEN s[i] ELSE g[i - 1] \o s[i]]
    OBVIOUS
  <2> QED
    BY <2>1, <2>2
<1>3. ASSUME NEW m \in 0..Len(s), m # 0, Ok(m - 1)
      PROVE  Ok(m)
  <2>1. PICK f \in [1..(m - 1) -> Seq(S)] : f = [i \in 1..(m - 1) |-> IF i = 1 THEN s[i] ELSE f[i - 1] \o s[i]]
    BY <1>3
  <2> DEFINE g == [i \in 1..m |-> IF i < m THEN f[i] ELSE IF m = 1 THEN s[m] ELSE f[m - 1] \o s[m]]
  <2>0. m \in Nat /\ m >= 1 /\ m \in 1..m
    BY <1>1, <1>3
  <2>1a. \A i \in 1..m : g[i] = IF i < m THEN f[i] ELSE IF m = 1 THEN s[m] ELSE f[m - 1] \o s[m]
    OBVIOUS
  <2>1b. \A i \in 1..(m - 1) : f[i] = IF i = 1 THEN s[i] ELSE f[i - 1] \o s[i]
    BY <2>1
  <2>1c. \A i \in 1..(m - 1) : f[i] \in Seq(S)
    BY <2>1
  <2> HIDE DEF g
  <2>2. ASSUME NEW i \in 1..m
        PROVE  g[i] \in Seq(S) /\ g[i] = IF i = 1 THEN s[i] ELSE g[i - 1] \o s[i]
    <3>0. i \in 1..Len(s) /\ s[i] \in Seq(S) /\ i \in Nat
      BY <1>1, <1>3, <2>0
    <3>1. CASE i < m
      <4>1. i \in 1..(m - 1) /\ g[i] = f[i] /\ f[i] \in Seq(S)
        BY <2>0, <2>1a, <2>1c, <3>0, <3>1
      <4>2. i # 1 => i - 1 \in 1..(m - 1) /\ i - 1 \in 1..m /\ i - 1 < m
        BY <2>0, <3>0, <3>1
      <4>3. i # 1 => g[i - 1] = f[i - 1]
        BY <2>1a, <4>2
      <4> QED
        BY <2>1b, <4>1, <4>3
    <3>2. CASE i = m /\ m = 1
      BY <2>0, <2>1a, <3>0, <3>2
    <3>3. CASE i = m /\ m # 1
      <4>1. m - 1 \in 1..(m - 1) /\ m - 1 < m /\ m - 1 \in 1..m
        BY <2>0, <3>3
      <4>2. g[m] = f[m - 1] \o s[m]
        <5>1. m \in 1..m /\ ~(m < m) /\ m # 1
          BY <2>0, <3>3
        <5> QED
          BY <2>1a, <5>1
      <4>3. g[m - 1] = f[m - 1] /\ f[m - 1] \in Seq(S)
        BY <2>1a, <2>1c, <4>1
      <4>4. f[m - 1] \o s[m] \in Seq(S)
        BY <3>0, <3>3, <4>3, ConcatProperties
      <4> QED
        BY <3>3, <4>2, <4>3, <4>4
    <3> QED
      BY <2>0, <3>0, <3>1, <3>2, <3>3
  <2> HIDE DEF g
  <2>3. g = [i \in 1..m |-> g[i]]
    BY DEF g
  <2>4. g \in [1..m -> Seq(S)]
    BY <2>2, <2>3
  <2>5. g = [i \in 1..m |-> IF i = 1 THEN s[i] ELSE g[i - 1] \o s[i]]
    BY <2>2, <2>3
  <2> QED
    BY <2>4, <2>5
<1> HIDE DEF Ok
<1>4. Bad = {}
  <2> SUFFICES ASSUME Bad # {} PROVE FALSE
    OBVIOUS
  <2>0. Bad \in SUBSET Nat
    OBVIOUS
  <2> HIDE DEF Bad
  <2>1. PICK m \in Bad : \A k \in Bad : m <= k
    BY <2>0, LeastNatural
  <2> USE DEF Bad
  <2>2. m \in 0..Len(s) /\ ~Ok(m) /\ m # 0
    BY <1>2, <2>1
  <2>3. m - 1 \in 0..Len(s) /\ m - 1 \notin Bad
    BY <1>1, <2>1, <2>2
  <2> QED
    BY <1>3, <2>2, <2>3
<1>5. Ok(n)
  BY <1>1, <1>4
<1> QED
  BY <1>5 DEF Ok

(* ...so that the one FlattenSeq chooses has the recursion's values.       *)
LEMMA FlatFacts ==
  ASSUME NEW S, NEW s \in Seq(Seq(S))
  PROVE  /\ Flat(s) \in [1..Len(s) -> Seq(S)]
         /\ \A i \in 1..Len(s) : Flat(s)[i] = IF i = 1 THEN s[i] ELSE Flat(s)[i - 1] \o s[i]
<1>1. PICK f \in [1..Len(s) -> Seq(S)] : IsFlat(f, s, Len(s))
  <2>1. Len(s) \in Nat /\ Len(s) <= Len(s)
    OBVIOUS
  <2>2. PICK n \in Nat : n = Len(s) /\ n <= Len(s)
    BY <2>1
  <2>3. \E f \in [1..n -> Seq(S)] : IsFlat(f, s, n)
    BY <2>2, FlatExists
  <2> QED
    BY <2>2, <2>3
<1>2. IsFlat(Flat(s), s, Len(s))
  BY <1>1 DEF Flat, IsFlat
<1>3. \A i \in 1..Len(s) : Flat(s)[i] = IF i = 1 THEN s[i] ELSE Flat(s)[i - 1] \o s[i]
  <2> DEFINE h == Flat(s)
  <2>1. h = [i \in 1..Len(s) |-> IF i = 1 THEN s[i] ELSE h[i - 1] \o s[i]]
    BY <1>2 DEF IsFlat
  <2> HIDE DEF h
  <2>2. \A i \in 1..Len(s) : h[i] = IF i = 1 THEN s[i] ELSE h[i - 1] \o s[i]
    BY <2>1
  <2> QED
    BY <2>2 DEF h
<1>4. ASSUME NEW i \in 1..Len(s)
      PROVE  Flat(s)[i] \in Seq(S)
  <2> DEFINE T == {0} \cup {j \in 1..Len(s) : Flat(s)[j] \in Seq(S)}
  <2>0. Len(s) \in Nat
    OBVIOUS
  <2>1. ASSUME NEW k \in 0..Len(s), k < Len(s), k \in T
        PROVE  k + 1 \in T
    <3>1. k + 1 \in 1..Len(s) /\ s[k + 1] \in Seq(S)
      BY <2>0, <2>1
    <3>2. CASE k = 0
      BY <1>3, <3>1, <3>2
    <3>3. CASE k # 0
      <4>1. Flat(s)[k] \in Seq(S) /\ (k + 1) - 1 = k /\ k + 1 # 1
        BY <2>0, <2>1, <3>3
      <4>2. Flat(s)[k] \o s[k + 1] \in Seq(S)
        BY <3>1, <4>1, ConcatProperties
      <4> QED
        BY <1>3, <3>1, <4>1, <4>2
    <3> QED
      BY <3>2, <3>3
  <2>2. 0 \in T
    OBVIOUS
  <2> HIDE DEF T
  <2>3. \A k \in 0..Len(s) : k \in T
    BY <2>0, <2>1, <2>2, Upwards
  <2> QED
    BY <2>0, <2>3 DEF T
<1>5. Flat(s) = [i \in 1..Len(s) |-> IF i = 1 THEN s[i] ELSE Flat(s)[i - 1] \o s[i]]
  BY <1>2 DEF IsFlat
<1> HIDE DEF Flat
<1>6. DOMAIN Flat(s) = 1..Len(s) /\ Flat(s) = [i \in 1..Len(s) |-> Flat(s)[i]]
  BY <1>5
<1> QED
  BY <1>3, <1>4, <1>6

LEMMA FlattenType ==
  ASSUME NEW S, NEW s \in Seq(Seq(S))
  PROVE  FlattenSeq(s) \in Seq(S)
<1>1. Len(s) \in Nat /\ (Len(s) = 0 => s = <<>>)
  OBVIOUS
<1>2. CASE Len(s) = 0
  <2>1. FlattenSeq(s) = <<>>
    BY <1>1, <1>2, FlattenIsFlat
  <2> QED
    BY <2>1
<1>3. CASE Len(s) # 0
  <2>1. Len(s) \in 1..Len(s)
    BY <1>1, <1>3
  <2> QED
    BY <1>3, <2>1, FlattenIsFlat, FlatFacts
<1> QED
  BY <1>2, <1>3

(* What comes later does not change what comes before.                     *)
LEMMA FlatAgrees ==
  ASSUME NEW S, NEW s \in Seq(Seq(S)), NEW u \in Seq(Seq(S)), NEW n \in Nat,
         n <= Len(s), n <= Len(u), \A i \in 1..n : s[i] = u[i]
  PROVE  \A i \in 1..n : Flat(s)[i] = Flat(u)[i]
<1> DEFINE T == {0} \cup {i \in 1..n : Flat(s)[i] = Flat(u)[i]}
<1>1. ASSUME NEW k \in 0..n, k < n, k \in T
      PROVE  k + 1 \in T
  <2>1. k + 1 \in 1..n /\ k + 1 \in 1..Len(s) /\ k + 1 \in 1..Len(u) /\ (k + 1) - 1 = k
    BY <1>1
  <2>2. /\ Flat(s)[k + 1] = IF k + 1 = 1 THEN s[k + 1] ELSE Flat(s)[(k + 1) - 1] \o s[k + 1]
        /\ Flat(u)[k + 1] = IF k + 1 = 1 THEN u[k + 1] ELSE Flat(u)[(k + 1) - 1] \o u[k + 1]
    BY <2>1, FlatFacts
  <2>3. s[k + 1] = u[k + 1] /\ (k + 1 # 1 => Flat(s)[k] = Flat(u)[k])
    BY <1>1, <2>1
  <2> QED
    BY <2>1, <2>2, <2>3
<1>2. 0 \in T
  OBVIOUS
<1> HIDE DEF T
<1>3. \A k \in 0..n : k \in T
  BY <1>1, <1>2, Upwards
<1> QED
  BY <1>3 DEF T

(* The last sequence comes last.                                           *)
LEMMA FlattenAppend ==
  ASSUME NEW S, NEW s \in Seq(Seq(S)), NEW x \in Seq(S)
  PROVE  FlattenSeq(Append(s, x)) = FlattenSeq(s) \o x
<1> DEFINE u == Append(s, x)
           n == Len(s)
<1>1. /\ u \in Seq(Seq(S)) /\ Len(u) = n + 1 /\ n \in Nat
      /\ u[n + 1] = x /\ \A i \in 1..n : u[i] = s[i]
  OBVIOUS
<1> HIDE DEF u
<1>2. \A i \in 1..n : Flat(u)[i] = Flat(s)[i]
  <2>1. n \in Nat /\ n <= Len(s) /\ n <= Len(u) /\ \A i \in 1..n : u[i] = s[i]
    BY <1>1
  <2> HIDE DEF n
  <2> QED
    BY <1>1, <2>1, FlatAgrees
<1>3. FlattenSeq(u) = Flat(u)[n + 1]
  BY <1>1, FlattenIsFlat
<1>4. Flat(u)[n + 1] = IF n + 1 = 1 THEN u[n + 1] ELSE Flat(u)[(n + 1) - 1] \o u[n + 1]
  <2>1. n + 1 \in 1..Len(u)
    BY <1>1
  <2> QED
    BY <1>1, <2>1, FlatFacts
<1>5. CASE n = 0
  <2>1. s = <<>> /\ FlattenSeq(s) = s
    BY <1>5, FlattenIsFlat
  <2>2. <<>> \o x = x
    BY ConcatEmptySeq
  <2> QED
    BY <1>1, <1>3, <1>4, <1>5, <2>1, <2>2 DEF u
<1>6. CASE n # 0
  <2>1. n \in 1..n /\ (n + 1) - 1 = n /\ n + 1 # 1
    BY <1>1, <1>6
  <2>2. FlattenSeq(s) = Flat(s)[n]
    BY <1>6, FlattenIsFlat
  <2> QED
    BY <1>1, <1>2, <1>3, <1>4, <2>1, <2>2 DEF u
<1> QED
  BY <1>5, <1>6

LEMMA FlattenEmpty == FlattenSeq(<<>>) = <<>>
BY FlattenIsFlat

(* The first sequence comes first.                                         *)
LEMMA FlattenCons ==
  ASSUME NEW S, NEW s \in Seq(Seq(S)), s # <<>>
  PROVE  FlattenSeq(s) = Head(s) \o FlattenSeq(Tail(s))
<1> DEFINE u == Tail(s)
           n == Len(u)
<1>1. /\ u \in Seq(Seq(S)) /\ Len(s) = n + 1 /\ n \in Nat
      /\ Head(s) = s[1] /\ \A i \in 1..n : u[i] = s[i + 1]
  BY HeadTailProperties
<1>1a. s[1] \in Seq(S) /\ \A i \in 1..n : u[i] \in Seq(S)
  BY <1>1
<1>1b. n = Len(u)
  OBVIOUS
<1> HIDE DEF u, n
<1>1c. \A b, c \in Seq(S) : (s[1] \o b) \o c = s[1] \o (b \o c)
  <2> DEFINE a == s[1]
  <2>1. a \in Seq(S)
    BY <1>1a
  <2> HIDE DEF a
  <2>2. \A b, c \in Seq(S) : (a \o b) \o c = a \o (b \o c)
    BY <2>1, ConcatAssociative, SMTT(30)
  <2> QED
    BY <2>2 DEF a
<1> DEFINE Ok(i) == Flat(s)[i + 1] = s[1] \o Flat(u)[i]
           T == {0} \cup {i \in 1..n : Ok(i)}
<1> HIDE DEF Ok
<1>2. ASSUME NEW k \in 0..n, k < n, k \in T
      PROVE  k + 1 \in T
  <2>1. /\ k + 1 \in 1..n /\ k + 1 \in 1..Len(s) /\ (k + 1) + 1 \in 1..Len(s)
        /\ (k + 1) - 1 = k /\ ((k + 1) + 1) - 1 = k + 1 /\ (k + 1) + 1 # 1
    BY <1>1, <1>2
  <2>2. /\ Flat(s)[(k + 1) + 1] = Flat(s)[k + 1] \o u[k + 1]
        /\ Flat(u)[k + 1] = IF k + 1 = 1 THEN u[k + 1] ELSE Flat(u)[k] \o u[k + 1]
    <3>1. /\ Flat(s)[(k + 1) + 1] = IF (k + 1) + 1 = 1 THEN s[(k + 1) + 1]
                                    ELSE Flat(s)[((k + 1) + 1) - 1] \o s[(k + 1) + 1]
          /\ Flat(u)[k + 1] = IF k + 1 = 1 THEN u[k + 1] ELSE Flat(u)[(k + 1) - 1] \o u[k + 1]
      BY <1>1, <1>1b, <2>1, FlatFacts
    <3>2. s[(k + 1) + 1] = u[k + 1]
      BY <1>1, <2>1
    <3> QED
      BY <2>1, <3>1, <3>2
  <2>3. CASE k = 0
    <3>1. 1 \in 1..Len(s)
      BY <1>1
    <3>2. Flat(s)[1] = s[1]
      BY <3>1, FlatFacts
    <3>3. k + 1 = 1
      BY <2>3
    <3>4. Flat(s)[(k + 1) + 1] = s[1] \o Flat(u)[k + 1]
      BY <2>2, <3>2, <3>3
    <3> QED
      BY <2>1, <3>4 DEF Ok
  <2>4. CASE k # 0
    <3>1. k \in 1..n /\ Flat(s)[k + 1] = s[1] \o Flat(u)[k]
      BY <1>2, <2>4 DEF Ok
    <3>2. Flat(u)[k] \in Seq(S) /\ u[k + 1] \in Seq(S)
      <4>1. k \in 1..Len(u) /\ k + 1 \in 1..Len(u)
        BY <1>1, <1>1a, <1>1b, <2>1, <3>1
      <4>2. Flat(u)[k] \in Seq(S)
        BY <1>1, <4>1, FlatFacts
      <4> QED
        BY <1>1a, <2>1, <4>2
    <3>3. (s[1] \o Flat(u)[k]) \o u[k + 1] = s[1] \o (Flat(u)[k] \o u[k + 1])
      BY <1>1c, <3>2
    <3>4. k + 1 \in 1..n /\ k + 1 # 1
      BY <2>1, <2>4, <3>1
    <3>5. Flat(s)[(k + 1) + 1] = s[1] \o Flat(u)[k + 1]
      BY <2>2, <3>1, <3>3, <3>4
    <3> QED
      BY <3>4, <3>5 DEF Ok
  <2> QED
    BY <2>3, <2>4
<1>3. 0 \in T
  OBVIOUS
<1> HIDE DEF T
<1>4. \A k \in 0..n : k \in T
  BY <1>1, <1>2, <1>3, Upwards
<1>5. CASE n = 0
  <2>0. u = <<>>
    <3>1. \A v \in Seq(Seq(S)) : Len(v) = 0 => v = <<>>
      OBVIOUS
    <3> QED
      BY <1>1, <1>1b, <1>5, <3>1
  <2>1. FlattenSeq(u) = <<>> /\ Len(s) = 1 /\ Len(s) # 0
    BY <1>1, <1>5, <2>0, FlattenEmpty
  <2>2. FlattenSeq(s) = Flat(s)[1] /\ 1 \in 1..Len(s)
    <3>1. FlattenSeq(s) = Flat(s)[Len(s)]
      BY <2>1, FlattenIsFlat
    <3> QED
      BY <2>1, <3>1
  <2>3. FlattenSeq(s) = s[1]
    BY <2>2, FlatFacts
  <2>4. s[1] \o <<>> = s[1]
    BY <1>1a, ConcatEmptySeq
  <2> QED
    BY <1>1, <2>0, <2>1, <2>3, <2>4 DEF u
<1>6. CASE n # 0
  <2>1. n \in 1..n
    BY <1>1, <1>6
  <2>1a. n \in T
    BY <1>1, <1>4
  <2>2. Flat(s)[n + 1] = s[1] \o Flat(u)[n]
    BY <1>6, <2>1a DEF T, Ok
  <2>3. FlattenSeq(s) = Flat(s)[n + 1] /\ FlattenSeq(u) = Flat(u)[n]
    BY <1>1, <1>1b, <1>6, FlattenIsFlat
  <2> QED
    BY <1>1, <2>2, <2>3 DEF u
<1> QED
  BY <1>5, <1>6

(* What is in the sequences.                                               *)
Upto(s, k) == UNION {Range(s[i]) : i \in 1..k}

LEMMA FlatRange ==
  ASSUME NEW S, NEW s \in Seq(Seq(S))
  PROVE  \A k \in 1..Len(s) : Range(Flat(s)[k]) = Upto(s, k)
<1> DEFINE T == {0} \cup {k \in 1..Len(s) : Range(Flat(s)[k]) = Upto(s, k)}
<1>1. Len(s) \in Nat
  OBVIOUS
<1>2. ASSUME NEW k \in 0..Len(s), k < Len(s), k \in T
      PROVE  k + 1 \in T
  <2>1. k + 1 \in 1..Len(s) /\ (k + 1) - 1 = k /\ s[k + 1] \in Seq(S)
    BY <1>1, <1>2
  <2>2. Flat(s)[k + 1] = IF k + 1 = 1 THEN s[k + 1] ELSE Flat(s)[k] \o s[k + 1]
    BY <2>1, FlatFacts
  <2>3. Upto(s, k + 1) = Upto(s, k) \cup Range(s[k + 1])
    <3>1. 1..(k + 1) = 1..k \cup {k + 1}
      BY <2>1
    <3> QED
      BY <3>1 DEF Upto
  <2>4. CASE k = 0
    <3>1. Upto(s, k) = {}
      BY <2>4 DEF Upto
    <3>2. Flat(s)[k + 1] = s[k + 1]
      BY <2>2, <2>4
    <3>3. Range(Flat(s)[k + 1]) = Upto(s, k + 1)
      BY <2>3, <3>1, <3>2
    <3> QED
      BY <2>1, <3>3
  <2>5. CASE k # 0
    <3>1. k \in 1..Len(s) /\ Range(Flat(s)[k]) = Upto(s, k) /\ k + 1 # 1
      BY <1>2, <2>5
    <3>2. Flat(s)[k] \in Seq(S)
      BY <3>1, FlatFacts
    <3>3. Range(Flat(s)[k] \o s[k + 1]) = Range(Flat(s)[k]) \cup Range(s[k + 1])
      BY <2>1, <3>2, RangeConcatenation
    <3> QED
      BY <2>1, <2>2, <2>3, <3>1, <3>3
  <2> QED
    BY <2>4, <2>5
<1>3. 0 \in T
  OBVIOUS
<1> HIDE DEF T
<1>4. \A k \in 0..Len(s) : k \in T
  BY <1>1, <1>2, <1>3, Upwards
<1>5. \A k \in 1..Len(s) : k \in 0..Len(s) /\ k # 0
  BY <1>1
<1> QED
  BY <1>4, <1>5 DEF T

LEMMA FlattenRange ==
  ASSUME NEW S, NEW s \in Seq(Seq(S))
  PROVE  Range(FlattenSeq(s)) = UNION {Range(s[i]) : i \in 1..Len(s)}
<1>1. Len(s) \in Nat
  OBVIOUS
<1>2. CASE Len(s) = 0
  <2>1. s = <<>> /\ FlattenSeq(s) = <<>>
    BY <1>2, FlattenEmpty
  <2>2. Range(<<>>) = {}
    BY DEF Range
  <2> QED
    BY <1>2, <2>1, <2>2
<1>3. CASE Len(s) # 0
  <2>1. Len(s) \in 1..Len(s) /\ FlattenSeq(s) = Flat(s)[Len(s)]
    BY <1>1, <1>3, FlattenIsFlat
  <2>2. Range(Flat(s)[Len(s)]) = Upto(s, Len(s))
    BY <2>1, FlatRange
  <2> QED
    BY <2>1, <2>2 DEF Upto
<1> QED
  BY <1>2, <1>3

(* Sequences that have no element twice, and none in common, have none     *)
(* twice together.                                                         *)
Once(s) == \A i, j \in 1..Len(s) : s[i] = s[j] => i = j

LEMMA OnceConcat ==
  ASSUME NEW S, NEW s \in Seq(S), NEW u \in Seq(S), Once(s), Once(u), Range(s) \cap Range(u) = {}
  PROVE  Once(s \o u)
<1>1. /\ Len(s) \in Nat /\ Len(u) \in Nat /\ Len(s \o u) = Len(s) + Len(u)
      /\ \A i \in 1..(Len(s) + Len(u)) :
           (s \o u)[i] = IF i <= Len(s) THEN s[i] ELSE u[i - Len(s)]
  BY ConcatProperties
<1>2. ASSUME NEW i \in 1..(Len(s) + Len(u)), NEW j \in 1..(Len(s) + Len(u)),
             (s \o u)[i] = (s \o u)[j]
      PROVE  i = j
  <2>1. \A a \in 1..Len(s) : \A b \in 1..Len(u) : s[a] # u[b]
    BY DEF Range
  <2>2. CASE i <= Len(s) /\ j <= Len(s)
    <3>1. i \in 1..Len(s) /\ j \in 1..Len(s) /\ s[i] = s[j]
      BY <1>1, <1>2, <2>2
    <3> QED
      BY <3>1 DEF Once
  <2>3. CASE i <= Len(s) /\ j > Len(s)
    <3>1. i \in 1..Len(s) /\ j - Len(s) \in 1..Len(u) /\ s[i] = u[j - Len(s)]
      BY <1>1, <1>2, <2>3
    <3> QED
      BY <2>1, <3>1
  <2>4. CASE i > Len(s) /\ j <= Len(s)
    <3>1. j \in 1..Len(s) /\ i - Len(s) \in 1..Len(u) /\ s[j] = u[i - Len(s)]
      BY <1>1, <1>2, <2>4
    <3> QED
      BY <2>1, <3>1
  <2>5. CASE i > Len(s) /\ j > Len(s)
    <3>1. /\ i - Len(s) \in 1..Len(u) /\ j - Len(s) \in 1..Len(u)
          /\ u[i - Len(s)] = u[j - Len(s)]
      BY <1>1, <1>2, <2>5
    <3>2. i - Len(s) = j - Len(s)
      BY <3>1 DEF Once
    <3> QED
      BY <1>1, <3>2
  <2> QED
    BY <1>1, <2>2, <2>3, <2>4, <2>5
<1> QED
  BY <1>1, <1>2 DEF Once

LEMMA FlattenOnce ==
  ASSUME NEW S, NEW s \in Seq(Seq(S)), \A i \in 1..Len(s) : Once(s[i]),
         \A i, j \in 1..Len(s) : i # j => Range(s[i]) \cap Range(s[j]) = {}
  PROVE  Once(FlattenSeq(s))
<1> DEFINE T == {0} \cup {k \in 1..Len(s) : Once(Flat(s)[k])}
<1>1. Len(s) \in Nat
  OBVIOUS
<1>2. ASSUME NEW k \in 0..Len(s), k < Len(s), k \in T
      PROVE  k + 1 \in T
  <2>1. /\ k + 1 \in 1..Len(s) /\ (k + 1) - 1 = k
        /\ s[k + 1] \in Seq(S) /\ Once(s[k + 1])
    BY <1>1, <1>2
  <2>2. Flat(s)[k + 1] = IF k + 1 = 1 THEN s[k + 1] ELSE Flat(s)[k] \o s[k + 1]
    BY <2>1, FlatFacts
  <2>3. CASE k = 0
    BY <2>1, <2>2, <2>3
  <2>4. CASE k # 0
    <3>1. k \in 1..Len(s) /\ Once(Flat(s)[k]) /\ k + 1 # 1
      BY <1>2, <2>4
    <3>2. Flat(s)[k] \in Seq(S) /\ Range(Flat(s)[k]) = Upto(s, k)
      BY <3>1, FlatFacts, FlatRange
    <3>3. \A i \in 1..k : i \in 1..Len(s) /\ i # k + 1
      BY <1>1, <3>1
    <3>4. Upto(s, k) \cap Range(s[k + 1]) = {}
      <4>1. \A i \in 1..k : Range(s[i]) \cap Range(s[k + 1]) = {}
        BY <2>1, <3>3
      <4> QED
        BY <4>1 DEF Upto
    <3>5. Once(Flat(s)[k] \o s[k + 1])
      BY <2>1, <3>1, <3>2, <3>4, OnceConcat
    <3> QED
      BY <2>1, <2>2, <3>1, <3>5
  <2> QED
    BY <2>3, <2>4
<1>3. 0 \in T
  OBVIOUS
<1> HIDE DEF T
<1>4. \A k \in 0..Len(s) : k \in T
  BY <1>1, <1>2, <1>3, Upwards
<1>5. CASE Len(s) = 0
  <2>1. s = <<>> /\ FlattenSeq(s) = <<>> /\ Len(<<>>) = 0
    BY <1>5, FlattenEmpty
  <2> QED
    BY <2>1 DEF Once
<1>6. CASE Len(s) # 0
  <2>1. Len(s) \in 1..Len(s) /\ FlattenSeq(s) = Flat(s)[Len(s)]
    BY <1>1, <1>6, FlattenIsFlat
  <2>2. Len(s) \in T
    BY <1>1, <1>4
  <2> QED
    BY <1>6, <2>1, <2>2 DEF T
<1> QED
  BY <1>5, <1>6

(* The first of the sequences make the beginning.                          *)
LEMMA FlattenPrefix ==
  ASSUME NEW S, NEW s \in Seq(Seq(S)), NEW n \in 0..Len(s)
  PROVE  \E r \in Seq(S) : FlattenSeq(s) = FlattenSeq(SubSeq(s, 1, n)) \o r
<1> DEFINE Part(k) == FlattenSeq(SubSeq(s, 1, k))
           Ok(k) == \E r \in Seq(S) : Part(k) = Part(n) \o r
           T == {d \in 0..(Len(s) - n) : Ok(n + d)}
<1>1. Len(s) \in Nat /\ n \in Nat /\ Len(s) - n \in Nat
  OBVIOUS
<1>2. \A k \in 0..Len(s) : SubSeq(s, 1, k) \in Seq(Seq(S)) /\ Part(k) \in Seq(S)
  <2> SUFFICES ASSUME NEW k \in 0..Len(s)
               PROVE  SubSeq(s, 1, k) \in Seq(Seq(S)) /\ Part(k) \in Seq(S)
    OBVIOUS
  <2> DEFINE f == SubSeq(s, 1, k)
  <2>1. f \in Seq(Seq(S))
    OBVIOUS
  <2> HIDE DEF f
  <2>2. FlattenSeq(f) \in Seq(S)
    BY <2>1, FlattenType
  <2> QED
    BY <2>1, <2>2 DEF f
<1>3. ASSUME NEW k \in 0..Len(s), k < Len(s)
      PROVE  Part(k + 1) = Part(k) \o s[k + 1]
  <2> DEFINE f == SubSeq(s, 1, k)
  <2>1. k + 1 \in 1..Len(s) /\ s[k + 1] \in Seq(S)
    BY <1>1, <1>3
  <2>2. SubSeq(s, 1, k + 1) = Append(f, s[k + 1])
    OBVIOUS
  <2> HIDE DEF f
  <2> QED
    BY <1>2, <2>1, <2>2, FlattenAppend DEF f
<1> HIDE DEF Part
<1>4. Ok(n + 0)
  <2>1. Part(n) \in Seq(S) /\ n + 0 = n
    BY <1>1, <1>2
  <2>2. Part(n) \o <<>> = Part(n) /\ <<>> \in Seq(S)
    BY <2>1, ConcatEmptySeq
  <2> QED
    BY <2>1, <2>2
<1>5. ASSUME NEW d \in 0..(Len(s) - n), d < Len(s) - n, Ok(n + d)
      PROVE  Ok(n + (d + 1))
  <2> DEFINE k == n + d
  <2>1. k \in 0..Len(s) /\ k < Len(s) /\ n + (d + 1) = k + 1 /\ k + 1 \in 1..Len(s)
    BY <1>1, <1>5
  <2>2. PICK r \in Seq(S) : Part(k) = Part(n) \o r
    BY <1>5
  <2>3. s[k + 1] \in Seq(S) /\ Part(n) \in Seq(S)
    BY <1>2, <2>1
  <2> HIDE DEF k
  <2>4. Part(k + 1) = (Part(n) \o r) \o s[k + 1]
    BY <1>3, <2>1, <2>2
  <2>5. Part(k + 1) = Part(n) \o (r \o s[k + 1]) /\ r \o s[k + 1] \in Seq(S)
    <3> DEFINE a == Part(n)
               c == s[k + 1]
    <3>1. a \in Seq(S) /\ c \in Seq(S)
      BY <2>3
    <3> HIDE DEF a, c
    <3>2. (a \o r) \o c = a \o (r \o c) /\ r \o c \in Seq(S)
      <4>1. (a \o r) \o c = a \o (r \o c)
        BY <3>1, ConcatAssociative, SMTT(30)
      <4> QED
        BY <3>1, <4>1, ConcatProperties
    <3> QED
      BY <2>4, <3>2 DEF a, c
  <2> QED
    BY <2>1, <2>5
<1> HIDE DEF Ok
<1>6. /\ 0 \in T
      /\ \A d \in 0..(Len(s) - n) : d < Len(s) - n /\ d \in T => d + 1 \in T
  BY <1>1, <1>4, <1>5
<1> HIDE DEF T
<1>7. \A d \in 0..(Len(s) - n) : d \in T
  BY <1>1, <1>6, Upwards
<1>8. Ok(Len(s))
  <2>1. Len(s) - n \in 0..(Len(s) - n) /\ n + (Len(s) - n) = Len(s)
    BY <1>1
  <2> QED
    BY <1>7, <2>1 DEF T
<1>9. SubSeq(s, 1, Len(s)) = s
  OBVIOUS
<1> QED
  BY <1>8, <1>9 DEF Ok, Part

(* A sequence is all but its last element, and the last.                   *)
LEMMA FrontAndLast ==
  ASSUME NEW S, NEW s \in Seq(S), s # <<>>
  PROVE  /\ Front(s) \in Seq(S) /\ Len(Front(s)) = Len(s) - 1 /\ Last(s) \in S
         /\ \A i \in 1..(Len(s) - 1) : Front(s)[i] = s[i]
         /\ Last(s) = s[Len(s)] /\ s = Append(Front(s), Last(s))
<1> DEFINE n == Len(s)
           m == n - 1
           l == s[n]
           f == SubSeq(s, 1, m)
<1>1. n \in Nat /\ n \in 1..n /\ m \in 0..n /\ m + 1 = n /\ l \in S
  BY EmptySeq
<1>2. f \in Seq(S) /\ Len(f) = m /\ \A i \in 1..m : f[i] = s[i]
  <2> HIDE DEF m
  <2>1. 1 \in 1..(Len(s) + 1) /\ m \in 0..Len(s)
    BY <1>1
  <2> QED
    BY <2>1, SubSeqProperties
<1>3. s = Append(f, l)
  <2>0. n = Len(s) /\ l = s[n]
    OBVIOUS
  <2> HIDE DEF f, l, m, n
  <2>1. /\ Append(f, l) \in Seq(S) /\ Len(Append(f, l)) = m + 1
        /\ \A i \in 1..m : Append(f, l)[i] = f[i]
        /\ Append(f, l)[m + 1] = l
    BY <1>1, <1>2, AppendProperties
  <2>2. \A i \in 1..n : Append(f, l)[i] = s[i]
    BY <1>1, <1>2, <2>0, <2>1
  <2> QED
    BY <1>1, <2>0, <2>1, <2>2, SeqEqual
<1> QED
  BY <1>1, <1>2, <1>3 DEF Front, Last

(* The last of the sequences grows.                                        *)
Grown(s, x) == [s EXCEPT ![Len(s)] = Append(@, x)]

LEMMA FlattenGrows ==
  ASSUME NEW S, NEW s \in Seq(Seq(S)), s # <<>>, NEW x \in S
  PROVE  /\ Grown(s, x) \in Seq(Seq(S)) /\ Len(Grown(s, x)) = Len(s)
         /\ Grown(s, x) = Append(Front(s), Append(Last(s), x))
         /\ FlattenSeq(Grown(s, x)) = Append(FlattenSeq(s), x)
<1> DEFINE n == Len(s)
           l == s[n]
           f == Front(s)
           y == Append(l, x)
           u == [s EXCEPT ![n] = y]
<1>1. n \in Nat /\ n \in 1..n /\ n - 1 \in 0..n
  BY EmptySeq
<1>2. l \in Seq(S) /\ y \in Seq(S)
  BY <1>1
<1>3. f \in Seq(Seq(S)) /\ Len(f) = n - 1 /\ \A i \in 1..(n - 1) : f[i] = s[i]
  BY FrontAndLast
<1>4. s = Append(f, l)
  BY FrontAndLast
<1>5. u \in Seq(Seq(S)) /\ Len(u) = n /\ \A i \in 1..n : u[i] = IF i = n THEN y ELSE s[i]
  <2> HIDE DEF y
  <2> QED
    BY <1>1, <1>2, ExceptSeq
<1>6. u = Append(f, y)
  <2> HIDE DEF f, y, u, n
  <2>1. /\ Append(f, y) \in Seq(Seq(S)) /\ Len(Append(f, y)) = (n - 1) + 1
        /\ \A i \in 1..(n - 1) : Append(f, y)[i] = f[i]
        /\ Append(f, y)[(n - 1) + 1] = y
    BY <1>2, <1>3, AppendProperties
  <2>2. \A i \in 1..n : Append(f, y)[i] = u[i]
    BY <1>1, <1>3, <1>5, <2>1
  <2> QED
    BY <1>1, <1>5, <2>1, <2>2, SeqEqual
<1>7. FlattenSeq(u) = Append(FlattenSeq(s), x)
  <2> HIDE DEF f, y, u, l, n
  <2>1. FlattenSeq(f) \in Seq(S) /\ FlattenSeq(s) = FlattenSeq(f) \o l /\ FlattenSeq(u) = FlattenSeq(f) \o y
    BY <1>2, <1>3, <1>4, <1>6, FlattenAppend, FlattenType
  <2>2. y = l \o <<x>> /\ <<x>> \in Seq(S)
    BY <1>2, AppendIsConcat DEF y
  <2>3. \A a, b, c \in Seq(S) : (a \o b) \o c = a \o (b \o c)
    BY ConcatAssociative, SMTT(30)
  <2>4. FlattenSeq(u) = FlattenSeq(s) \o <<x>>
    BY <1>2, <2>1, <2>2, <2>3
  <2>5. FlattenSeq(s) \in Seq(S)
    BY FlattenType
  <2> QED
    BY <2>4, <2>5, AppendIsConcat
<1>8. Grown(s, x) = u
  BY DEF Grown
<1> QED
  BY <1>5, <1>6, <1>7, <1>8 DEF Front, Last

LEMMA FlattenMember ==
  ASSUME NEW S, NEW s \in Seq(Seq(S)), NEW x
  PROVE  x \in Range(FlattenSeq(s)) <=> \E i \in 1..Len(s) : x \in Range(s[i])
<1> DEFINE R(i) == Range(s[i])
<1>1. Range(FlattenSeq(s)) = UNION {R(i) : i \in 1..Len(s)}
  BY FlattenRange
<1> HIDE DEF R
<1>2. x \in Range(FlattenSeq(s)) <=> \E i \in 1..Len(s) : x \in R(i)
  BY <1>1
<1> QED
  BY <1>2 DEF R

(* Sequences of sequences, one behind the other.                           *)
LEMMA FlattenConcat ==
  ASSUME NEW S, NEW s \in Seq(Seq(S)), NEW u \in Seq(Seq(S))
  PROVE  FlattenSeq(s \o u) = FlattenSeq(s) \o FlattenSeq(u)
<1> DEFINE Ok(k) == FlattenSeq(s \o SubSeq(u, 1, k)) = FlattenSeq(s) \o FlattenSeq(SubSeq(u, 1, k))
           T == {k \in 0..Len(u) : Ok(k)}
<1>1. Len(u) \in Nat /\ FlattenSeq(s) \in Seq(S)
  BY FlattenType
<1>2. Ok(0)
  <2>1. SubSeq(u, 1, 0) = <<>> /\ s \o <<>> = s /\ FlattenSeq(s) \o <<>> = FlattenSeq(s)
    BY <1>1, ConcatEmptySeq
  <2> QED
    BY <2>1, FlattenEmpty
<1>3. ASSUME NEW k \in 0..Len(u), k < Len(u), Ok(k)
      PROVE  Ok(k + 1)
  <2> DEFINE f == SubSeq(u, 1, k)
             x == u[k + 1]
  <2>1. f \in Seq(Seq(S)) /\ x \in Seq(S)
    BY <1>1, <1>3
  <2>2. SubSeq(u, 1, k + 1) = Append(f, x)
    BY <1>3
  <2>3. FlattenSeq(s \o f) = FlattenSeq(s) \o FlattenSeq(f)
    BY <1>3
  <2> HIDE DEF f, x
  <2>4. s \o f \in Seq(Seq(S)) /\ s \o Append(f, x) = Append(s \o f, x)
    BY <2>1
  <2>5. FlattenSeq(s \o Append(f, x)) = (FlattenSeq(s) \o FlattenSeq(f)) \o x
    BY <2>1, <2>3, <2>4, FlattenAppend
  <2>6. FlattenSeq(Append(f, x)) = FlattenSeq(f) \o x /\ FlattenSeq(f) \in Seq(S)
    BY <2>1, FlattenAppend, FlattenType
  <2>7. \A a, b, c \in Seq(S) : (a \o b) \o c = a \o (b \o c)
    BY ConcatAssociative, SMTT(30)
  <2>8. (FlattenSeq(s) \o FlattenSeq(f)) \o x = FlattenSeq(s) \o (FlattenSeq(f) \o x)
    BY <1>1, <2>1, <2>6, <2>7
  <2>9. FlattenSeq(s \o Append(f, x)) = FlattenSeq(s) \o FlattenSeq(Append(f, x))
    BY <2>5, <2>6, <2>8
  <2> QED
    BY <2>2, <2>9, Zenon
<1> HIDE DEF Ok
<1>4. 0 \in T /\ \A k \in 0..Len(u) : k < Len(u) /\ k \in T => k + 1 \in T
  BY <1>1, <1>2, <1>3
<1> HIDE DEF T
<1>5. \A k \in 0..Len(u) : k \in T
  BY <1>1, <1>4, Upwards
<1>6. Ok(Len(u))
  BY <1>1, <1>5 DEF T
<1>7. SubSeq(u, 1, Len(u)) = u
  OBVIOUS
<1> QED
  BY <1>6, <1>7 DEF Ok

LEMMA FlattenSingle ==
  ASSUME NEW S, NEW x \in Seq(S)
  PROVE  FlattenSeq(<<x>>) = x
<1>1. <<>> \in Seq(Seq(S)) /\ Append(<<>>, x) = <<x>> /\ <<>> \o x = x
  OBVIOUS
<1> QED
  BY <1>1, FlattenAppend, FlattenEmpty

(* Sequences with nothing in them.                                         *)
LEMMA FlattenNothing ==
  ASSUME NEW S, NEW s \in Seq(Seq(S))
  PROVE  FlattenSeq(s) = <<>> <=> \A i \in 1..Len(s) : s[i] = <<>>
<1>1. FlattenSeq(s) \in Seq(S)
  BY FlattenType
<1>2. \A x : x \in Range(FlattenSeq(s)) <=> \E i \in 1..Len(s) : x \in Range(s[i])
  BY FlattenMember
<1>3. ASSUME NEW q \in Seq(S)
      PROVE  q = <<>> <=> Range(q) = {}
  <2>1. CASE q = <<>>
    BY <2>1 DEF Range
  <2>2. CASE q # <<>>
    <3>1. Len(q) \in Nat /\ Len(q) # 0
      BY <2>2, EmptySeq
    <3>2. 1 \in DOMAIN q
      BY <3>1
    <3> QED
      BY <2>2, <3>2 DEF Range
  <2> QED
    BY <2>1, <2>2
<1>4. \A i \in 1..Len(s) : s[i] \in Seq(S)
  BY ElementOfSeq
<1> QED
  BY <1>1, <1>2, <1>3, <1>4

(* A sequence is its first element and the rest.                           *)
LEMMA FirstAndRest ==
  ASSUME NEW S, NEW s \in Seq(S), s # <<>>
  PROVE  s[1] \in S /\ Tail(s) \in Seq(S) /\ s = <<s[1]>> \o Tail(s)
<1> DEFINE x == s[1]
           r == Tail(s)
<1>1. Len(s) \in Nat /\ 1 \in 1..Len(s)
  BY EmptySeq
<1>2. x \in S /\ r \in Seq(S) /\ Len(r) = Len(s) - 1 /\ \A j \in 1..(Len(s) - 1) : r[j] = s[j + 1]
  BY <1>1, HeadTailProperties, ElementOfSeq
<1>3. s[1] = x
  OBVIOUS
<1> HIDE DEF x, r
<1>4. <<x>> \in Seq(S) /\ Len(<<x>>) = 1 /\ <<x>>[1] = x
  BY <1>2, SingletonSeq
<1>5. <<x>> \o r \in Seq(S) /\ Len(<<x>> \o r) = 1 + Len(r)
      /\ \A i \in 1..(1 + Len(r)) : (<<x>> \o r)[i] = IF i <= 1 THEN <<x>>[i] ELSE r[i - 1]
  BY <1>2, <1>4, ConcatProperties
<1>6. ASSUME NEW i \in 1..Len(s)
      PROVE  (<<x>> \o r)[i] = s[i]
  <2>1. CASE i = 1
    BY <1>1, <1>2, <1>3, <1>4, <1>5, <2>1
  <2>2. CASE i # 1
    <3>1. i - 1 \in 1..(Len(s) - 1) /\ (i - 1) + 1 = i /\ ~(i <= 1) /\ i \in 1..(1 + Len(r))
      BY <1>1, <1>2, <2>2
    <3> QED
      BY <1>2, <1>5, <3>1
  <2> QED
    BY <2>1, <2>2
<1>7. Len(<<x>> \o r) = Len(s)
  BY <1>1, <1>2, <1>5
<1>8. <<x>> \o r = s
  BY <1>5, <1>6, <1>7, SeqEqual
<1> QED
  BY <1>2, <1>8 DEF x, r

(* ...and an element put behind a sequence comes off again.                *)
LEMMA FrontOfAppend ==
  ASSUME NEW S, NEW s \in Seq(S), NEW x \in S
  PROVE  Append(s, x) # <<>> /\ Front(Append(s, x)) = s /\ Last(Append(s, x)) = x
<1>1. Append(s, x) \in Seq(S) /\ Len(Append(s, x)) = Len(s) + 1 /\ Len(s) \in Nat
      /\ Append(s, x)[Len(s) + 1] = x /\ Append(s, x) # <<>>
  OBVIOUS
<1>2. SubSeq(Append(s, x), 1, Len(s)) = s
  OBVIOUS
<1>3. Len(Append(s, x)) - 1 = Len(s)
  BY <1>1
<1> QED
  BY <1>1, <1>2, <1>3 DEF Front, Last
=============================================================================
