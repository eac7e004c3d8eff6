-------------------------- MODULE TwoSourcesProofs --------------------------
(***************************************************************************)
(* Proofs about TwoSources, for any tables and databases, any names their  *)
(* directories make, logs of any length and any number of deaths: what the *)
(* splitter leaves on disk, and what the SubWorkers make of it.            *)
(***************************************************************************)
EXTENDS TwoSources, SequenceFacts, FiniteSetTheorems

Event == [kind : Kind, table : Table]

-----------------------------------------------------------------------------
(* What a log says of a table up to its n-th event.  The operators of      *)
(* TwoSources, of a log on its own.                                        *)

(* Where the table was created or dropped.                                 *)
Turns(L, t, n) ==
  {p \in 1..n : Touches(L[p], t) /\ L[p].kind \in {"create", "dropTable", "dropDb"}}

Start(L, t, n) == IF Turns(L, t, n) = {} THEN 0 ELSE Max(Turns(L, t, n))

There(L, t, n) == Start(L, t, n) > 0 /\ L[Start(L, t, n)].kind = "create"

Alters(L, t, a, b) == {p \in a..b : L[p].table = t /\ L[p].kind = "alter"}

Vers(L, t, n) == Cardinality(Alters(L, t, Start(L, t, n) + 1, n))

Lone(L, t) == \E p \in DOMAIN L : L[p] = [kind |-> "dropTable", table |-> t]

(* No DROP TABLE, and no exception of the splitter.                        *)
Calm(L) == (\A u \in Table : ~Lone(L, u)) /\ \A p \in DOMAIN L : L[p].kind \notin Throwing

(* The writer was closed by another database's DROP DATABASE.              *)
Refusal(L, t, n) ==
  \E p \in 1..n : /\ L[p].kind = "dropDb" /\ DbOf[L[p].table] # DbOf[t]
                  /\ \A q \in p..n : L[q].table = t => L[q].kind \notin Opening

LEMMA OfTheLog ==
  ASSUME NEW s \in Source, NEW t \in Table, NEW n
  PROVE  /\ Begun(s, t, n) = Start(log[s], t, n) /\ Exists(s, t, n) = There(log[s], t, n)
         /\ VersionAt(s, t, n) = Vers(log[s], t, n) /\ DroppedAlone(s, t) = Lone(log[s], t)
         /\ Refused(s, t, n) = Refusal(log[s], t, n)
<1>1. Begun(s, t, n) = Start(log[s], t, n)
  BY DEF Begun, Start, Turns
<1> QED
  BY <1>1 DEF Exists, There, VersionAt, Vers, Alters, DroppedAlone, Lone, Refused, Refusal

LEMMA MaxFacts ==
  ASSUME NEW n \in Nat, NEW S \in SUBSET (1..n), S # {}
  PROVE  Max(S) \in S /\ \A y \in S : y <= Max(S)
<1> DEFINE T == {k \in Nat : \A y \in S : y <= k}
<1>1. n \in T
  OBVIOUS
<1>2. PICK m \in T : \A k \in T : m <= k
  BY <1>1, LeastNatural
<1>3. m \in S
  <2> SUFFICES ASSUME m \notin S PROVE FALSE
    OBVIOUS
  <2>1. PICK x \in S : x <= m
    BY <1>2
  <2>2. m - 1 \in T
    BY <1>2, <2>1
  <2> QED
    BY <1>2, <2>2
<1>4. \E x \in S : \A y \in S : x >= y
  BY <1>2, <1>3
<1>5. Max(S) \in S /\ \A y \in S : Max(S) >= y
  BY <1>4 DEF Max
<1> QED
  BY <1>5

LEMMA StartFacts ==
  ASSUME NEW L, NEW t, NEW n \in Nat
  PROVE  /\ Start(L, t, n) \in 0..n
         /\ Start(L, t, n) > 0 => Start(L, t, n) \in Turns(L, t, n)
         /\ \A p \in Turns(L, t, n) : p <= Start(L, t, n)
<1> DEFINE S == Turns(L, t, n)
<1>1. S \subseteq 1..n
  BY DEF Turns
<1> HIDE DEF S
<1>2. CASE S = {}
  BY <1>2 DEF Start, S
<1>3. CASE S # {}
  <2>1. Max(S) \in S /\ \A y \in S : y <= Max(S)
    BY <1>1, <1>3, MaxFacts
  <2> QED
    BY <1>1, <1>3, <2>1 DEF Start, S
<1> QED
  BY <1>2, <1>3

LEMMA StartIs ==
  ASSUME NEW L, NEW t, NEW n \in Nat, NEW b \in 0..n,
         b > 0 => b \in Turns(L, t, n), \A p \in Turns(L, t, n) : p <= b
  PROVE  Start(L, t, n) = b
BY StartFacts DEF Turns

(* One event more.                                                         *)
LEMMA StartNext ==
  ASSUME NEW L, NEW t, NEW n \in Nat
  PROVE  /\ n + 1 \in Turns(L, t, n + 1) => Start(L, t, n + 1) = n + 1
         /\ n + 1 \notin Turns(L, t, n + 1) => Start(L, t, n + 1) = Start(L, t, n)
<1>1. Turns(L, t, n + 1) \subseteq 1..(n + 1)
  BY DEF Turns
<1>2. CASE n + 1 \in Turns(L, t, n + 1)
  BY <1>1, <1>2, StartIs
<1>3. CASE n + 1 \notin Turns(L, t, n + 1)
  <2>1. Turns(L, t, n + 1) = Turns(L, t, n)
    BY <1>3 DEF Turns
  <2> QED
    BY <1>3, <2>1 DEF Start
<1> QED
  BY <1>2, <1>3

(* What was logged stays.                                                  *)
LEMMA StartLater ==
  ASSUME NEW L \in Seq(Event), NEW e \in Event, NEW t, NEW n \in 0..Len(L)
  PROVE  /\ Start(Append(L, e), t, n) = Start(L, t, n)
         /\ There(Append(L, e), t, n) <=> There(L, t, n)
<1>1. Turns(Append(L, e), t, n) = Turns(L, t, n)
  BY DEF Turns
<1>2. Start(Append(L, e), t, n) = Start(L, t, n)
  BY <1>1 DEF Start
<1>3. Start(L, t, n) > 0 => Start(L, t, n) \in 1..Len(L)
  BY StartFacts
<1> QED
  BY <1>2, <1>3 DEF There

(* Up to any place past it, the table began where it last did.             *)
LEMMA StartSame ==
  ASSUME NEW L, NEW t, NEW n \in Nat, NEW m \in 0..n, Start(L, t, n) <= m
  PROVE  Start(L, t, m) = Start(L, t, n)
<1>1. Start(L, t, n) \in 0..n
  BY StartFacts
<1>2. \A p : p \in Turns(L, t, m) <=> p \in Turns(L, t, n) /\ p <= m
  BY DEF Turns
<1> QED
  BY <1>1, <1>2, StartFacts, StartIs

LEMMA RefusedYet ==
  ASSUME NEW L, NEW t, NEW n \in Nat, Refusal(L, t, n),
         L[n + 1].table = t => L[n + 1].kind \notin Opening
  PROVE  Refusal(L, t, n + 1)
<1>1. PICK p \in 1..n : /\ L[p].kind = "dropDb" /\ DbOf[L[p].table] # DbOf[t]
                        /\ \A q \in p..n : L[q].table = t => L[q].kind \notin Opening
  BY DEF Refusal
<1>2. p \in 1..(n + 1) /\ \A q \in p..(n + 1) : q \in p..n \/ q = n + 1
  OBVIOUS
<1> QED
  BY <1>1, <1>2 DEF Refusal

LEMMA RefusedLater ==
  ASSUME NEW L \in Seq(Event), NEW e \in Event, NEW t, NEW n \in 0..Len(L)
  PROVE  Refusal(Append(L, e), t, n) <=> Refusal(L, t, n)
<1>1. \A p \in 1..n : Append(L, e)[p] = L[p]
  OBVIOUS
<1>2. \A p \in 1..n : \A q \in p..n : q \in 1..n
  OBVIOUS
<1> DEFINE M == Append(L, e)
<1> HIDE DEF M
<1> QED
  BY <1>1, <1>2 DEF Refusal, M

-----------------------------------------------------------------------------
(* What the files of a table say of the n events of a log that were dealt  *)
(* with, when the table is in a state (or, Absent, in none): F has the     *)
(* statements, R the rows.  Files of later states are left from before.    *)

Opens(L, t, p) == L[p].table = t /\ L[p].kind \in Opening

IsRow(L, t, p) == L[p] = [kind |-> "rows", table |-> t]

Fits(L, F, R, t, n, top) ==
  /\ top \in Nat \cup {Absent} /\ Len(F) = Len(R) /\ top < Len(F)
  /\ There(L, t, n) => top # Absent

(* A file for each statement, in their order.                              *)
StatedInOrder(L, F, t, n, top) ==
  /\ \A i \in 1..(top + 1) : F[i] \in 1..n /\ Opens(L, t, F[i])
  /\ \A i, j \in 1..(top + 1) : i < j => F[i] < F[j]

(* The rows are between the statement of their file and the next.          *)
RowsInPlace(L, F, R, t, n, top) ==
  \A i \in 1..(top + 1) : \A k \in DOMAIN R[i] :
    /\ R[i][k] \in 1..n /\ IsRow(L, t, R[i][k])
    /\ F[i] < R[i][k] /\ \A j \in 1..(top + 1) : i < j => R[i][k] < F[j]

RowsInOrder(R, top) ==
  \A i \in 1..(top + 1) : \A j, k \in DOMAIN R[i] : j < k => R[i][j] < R[i][k]

(* No statement is missing since the table was created.                    *)
AllStated(L, F, t, n, top) ==
  ~Lone(L, t) =>
    /\ top # Absent => F[1] = Start(L, t, n)
    /\ \A p \in 1..n : p >= Start(L, t, n) /\ Opens(L, t, p) => \E i \in 1..(top + 1) : p = F[i]

(* Nor any row, but for those that were refused.                           *)
AllWritten(L, R, t, n, top) ==
  Calm(L) =>
    \A p \in 1..n : p > Start(L, t, n) /\ IsRow(L, t, p) =>
      Refusal(L, t, p) \/ \E i \in 1..(top + 1) : p \in Range(R[i])

Files(L, F, R, t, n, top) ==
  /\ Fits(L, F, R, t, n, top)
  /\ StatedInOrder(L, F, t, n, top)
  /\ RowsInPlace(L, F, R, t, n, top) /\ RowsInOrder(R, top)
  /\ AllStated(L, F, t, n, top) /\ AllWritten(L, R, t, n, top)

FilesType(L, F, R, t, n) ==
  /\ L \in Seq(Event) /\ F \in Seq(Nat) /\ R \in Seq(Seq(Nat)) /\ t \in Table /\ n \in 0..Len(L)

(* Before anything is dealt with, whatever lies about.                     *)
LEMMA NoneDealt ==
  ASSUME NEW L, NEW F, NEW R, NEW t, Len(F) = Len(R), F \in Seq(Nat)
  PROVE  Files(L, F, R, t, 0, Absent)
<1>1. Start(L, t, 0) = 0
  BY StartFacts
<1>2. Absent \in Int /\ Absent + 1 = 0 /\ 1..0 = {} /\ Absent < Len(F)
  BY DEF Absent
<1> QED
  BY <1>1, <1>2 DEF Files, Fits, There, StatedInOrder, RowsInPlace, RowsInOrder, AllStated, AllWritten

(* The log goes on.                                                        *)
LEMMA LogGoesOn ==
  ASSUME NEW L, NEW F, NEW R, NEW t, NEW n, NEW top, FilesType(L, F, R, t, n),
         Files(L, F, R, t, n, top), NEW e \in Event
  PROVE  Files(Append(L, e), F, R, t, n, top)
<1> DEFINE M == Append(L, e)
<1>1. L \in Seq(Event) /\ t \in Table /\ n \in 0..Len(L)
  BY DEF FilesType
<1>2. /\ M \in Seq(Event) /\ Len(M) = Len(L) + 1 /\ \A p \in 1..n : M[p] = L[p]
      /\ \A p \in 1..Len(L) : M[p] = L[p]
  BY <1>1
<1>3. Start(M, t, n) = Start(L, t, n) /\ (There(M, t, n) <=> There(L, t, n))
  BY <1>1, StartLater
<1>4. \A p \in 1..n : (Opens(M, t, p) <=> Opens(L, t, p)) /\ (IsRow(M, t, p) <=> IsRow(L, t, p))
  BY <1>2 DEF Opens, Opening, IsRow
<1>5. \A u \in Table : Lone(L, u) => Lone(M, u)
  BY <1>1, <1>2 DEF Lone
<1>11. Calm(M) => Calm(L)
  <2>1. \A p \in DOMAIN L : p \in DOMAIN M /\ M[p] = L[p]
    BY <1>1, <1>2
  <2> HIDE DEF M
  <2> QED
    BY <1>5, <2>1 DEF Calm
<1>12. \A p \in 1..n : Refusal(L, t, p) <=> Refusal(M, t, p)
  <2>1. \A p \in 1..n : p \in 0..Len(L)
    BY <1>1
  <2> QED
    BY <1>1, <2>1, RefusedLater
<1> HIDE DEF M
<1>6. Fits(M, F, R, t, n, top) /\ RowsInOrder(R, top)
  BY <1>3 DEF Files, Fits
<1>7. StatedInOrder(M, F, t, n, top)
  BY <1>4 DEF Files, StatedInOrder
<1>8. RowsInPlace(M, F, R, t, n, top)
  BY <1>4 DEF Files, RowsInPlace
<1>9. AllStated(M, F, t, n, top)
  BY <1>1, <1>3, <1>4, <1>5 DEF Files, AllStated
<1>10. AllWritten(M, R, t, n, top)
  BY <1>3, <1>4, <1>11, <1>12 DEF Files, AllWritten
<1> QED
  BY <1>6, <1>7, <1>8, <1>9, <1>10 DEF Files, M

(* An event that is not about the table, or that is DROP TABLE or unread.  *)
LEMMA NotAbout ==
  ASSUME NEW L, NEW F, NEW R, NEW t, NEW n, NEW top, FilesType(L, F, R, t, n),
         Files(L, F, R, t, n, top), n + 1 \in 1..Len(L),
         \/ ~Touches(L[n + 1], t) \/ L[n + 1] = [kind |-> "dropTable", table |-> t]
         \/ L[n + 1].kind = "unread"
  PROVE  Files(L, F, R, t, n + 1, top)
<1>1. L \in Seq(Event) /\ t \in Table /\ n \in 0..Len(L) /\ n \in Nat
  BY DEF FilesType
<1>2. /\ ~Opens(L, t, n + 1) /\ ~IsRow(L, t, n + 1)
      /\ \A p \in 1..(n + 1) : p \in 1..n \/ p = n + 1
  BY <1>1 DEF Opens, Opening, IsRow, Touches
<1>3. /\ n + 1 \in Turns(L, t, n + 1) => Start(L, t, n + 1) = n + 1 /\ Lone(L, t) /\ ~There(L, t, n + 1)
      /\ n + 1 \notin Turns(L, t, n + 1) =>
           Start(L, t, n + 1) = Start(L, t, n) /\ (There(L, t, n + 1) <=> There(L, t, n))
  <2>1. n + 1 \in Turns(L, t, n + 1) => L[n + 1] = [kind |-> "dropTable", table |-> t]
    BY DEF Turns
  <2>2. n + 1 \in DOMAIN L
    BY <1>1
  <2> QED
    BY <1>1, <2>1, <2>2, StartNext DEF Lone, There
<1>4. Fits(L, F, R, t, n + 1, top) /\ RowsInOrder(R, top)
  BY <1>3 DEF Files, Fits
<1>5. StatedInOrder(L, F, t, n + 1, top)
  BY <1>1 DEF Files, StatedInOrder
<1>6. RowsInPlace(L, F, R, t, n + 1, top)
  BY <1>1 DEF Files, RowsInPlace
<1>7. AllStated(L, F, t, n + 1, top)
  BY <1>2, <1>3 DEF Files, AllStated
<1>8. AllWritten(L, R, t, n + 1, top)
  BY <1>1, <1>2, <1>3 DEF Files, AllWritten
<1> QED
  BY <1>4, <1>5, <1>6, <1>7, <1>8 DEF Files

(* DROP DATABASE.                                                          *)
LEMMA Forgotten ==
  ASSUME NEW L, NEW F, NEW R, NEW t, NEW n, NEW top, FilesType(L, F, R, t, n),
         Files(L, F, R, t, n, top), n + 1 \in 1..Len(L),
         L[n + 1].kind = "dropDb", Touches(L[n + 1], t)
  PROVE  Files(L, F, R, t, n + 1, Absent)
<1>1. L \in Seq(Event) /\ t \in Table /\ n \in 0..Len(L) /\ n \in Nat /\ F \in Seq(Nat)
  BY DEF FilesType
<1>2. n + 1 \in Turns(L, t, n + 1)
  BY <1>1 DEF Turns
<1>3. Start(L, t, n + 1) = n + 1 /\ ~There(L, t, n + 1)
  BY <1>1, <1>2, StartNext DEF There
<1>4. Absent + 1 = 0 /\ 1..0 = {} /\ Absent < Len(F) /\ Absent \in Int
  BY <1>1 DEF Absent
<1>5. ~Opens(L, t, n + 1)
  BY DEF Opens, Opening
<1> QED
  BY <1>1, <1>3, <1>4, <1>5 DEF Files, Fits, StatedInOrder, RowsInPlace, RowsInOrder, AllStated, AllWritten

LEMMA OpenedFacts ==
  ASSUME NEW S, NEW files \in Seq(S), NEW k \in 0..Len(files), NEW new \in S
  PROVE  /\ Opened(files, k, new) \in Seq(S)
         /\ Opened(files, k, new)[k + 1] = new
<1>1. CASE k < Len(files)
  BY <1>1 DEF Opened
<1>2. CASE k = Len(files)
  BY <1>2 DEF Opened
<1> QED
  BY <1>1, <1>2

LEMMA OpenedKeeps ==
  ASSUME NEW S, NEW files \in Seq(S), NEW k \in 0..Len(files), NEW new \in S, NEW i \in 1..k
  PROVE  Opened(files, k, new)[i] = files[i]
BY DEF Opened

LEMMA OpenedLen ==
  ASSUME NEW S, NEW files \in Seq(S), NEW k \in 0..Len(files), NEW new
  PROVE  Len(Opened(files, k, new)) = IF k < Len(files) THEN Len(files) ELSE k + 1
<1>1. CASE k < Len(files)
  BY <1>1 DEF Opened
<1>2. CASE k = Len(files)
  BY <1>2 DEF Opened
<1> QED
  BY <1>1, <1>2

(* G and Q have a k-th file more than F and R, for the statement x.        *)
OneMore(F, R, G, Q, k, x) ==
  /\ Len(G) = Len(Q) /\ k < Len(G)
  /\ G[k + 1] = x /\ \A i \in 1..k : G[i] = F[i]
  /\ Q[k + 1] = <<>> /\ \A i \in 1..k : Q[i] = R[i]

(* CREATE TABLE and ALTER TABLE.                                           *)
LEMMA NewFile ==
  ASSUME NEW L, NEW F, NEW R, NEW t, NEW n, NEW top, FilesType(L, F, R, t, n),
         Files(L, F, R, t, n, top), n + 1 \in 1..Len(L), Opens(L, t, n + 1),
         L[n + 1].kind = "create" <=> ~There(L, t, n),
         NEW k, k = top + 1, NEW G, NEW Q, OneMore(F, R, G, Q, k, n + 1)
  PROVE  Files(L, G, Q, t, n + 1, k)
<1>0. /\ Len(G) = Len(Q) /\ k < Len(G)
      /\ G[k + 1] = n + 1 /\ \A i \in 1..k : G[i] = F[i]
      /\ Q[k + 1] = <<>> /\ \A i \in 1..k : Q[i] = R[i]
  BY DEF OneMore
<1> USE <1>0
<1>1. /\ L \in Seq(Event) /\ t \in Table /\ n \in 0..Len(L) /\ n \in Nat /\ n + 1 \in Nat
      /\ F \in Seq(Nat) /\ R \in Seq(Seq(Nat)) /\ Len(F) = Len(R) /\ Len(F) \in Nat
      /\ k \in 0..Len(F) /\ k \in Nat /\ k + 1 \in Nat /\ k # Absent /\ k + 1 \in 1..(k + 1)
      /\ \A i \in 1..k : i \in Nat /\ i < k + 1 /\ i \in 1..(k + 1) /\ i \in 1..Len(F)
      /\ top \in Int
  BY DEF FilesType, Files, Fits, Absent
<1>3. \A i \in 1..(k + 1) : i \in 1..k \/ i = k + 1
  BY <1>1
<1>4. DOMAIN Q[k + 1] = {}
  OBVIOUS
<1>5. k # Absent /\ k \in Nat
  BY <1>1
<1>6. \/ /\ L[n + 1].kind = "create" /\ ~There(L, t, n) /\ Start(L, t, n + 1) = n + 1
      \/ /\ L[n + 1].kind # "create" /\ There(L, t, n) /\ Start(L, t, n + 1) = Start(L, t, n)
  <2>1. n + 1 \in Turns(L, t, n + 1) <=> L[n + 1].kind = "create"
    BY <1>1 DEF Turns, Opens, Opening, Touches
  <2> QED
    BY <1>1, <2>1, StartNext
<1>7. ~IsRow(L, t, n + 1) /\ \A p \in 1..(n + 1) : p \in 1..n \/ p = n + 1
  BY <1>1 DEF IsRow, Opens, Opening
<1>8. Fits(L, G, Q, t, n + 1, k)
  BY <1>5 DEF Fits
<1>9. StatedInOrder(L, G, t, n + 1, k)
  <2>1. \A i \in 1..k : F[i] \in 1..n /\ Opens(L, t, F[i])
    BY DEF Files, StatedInOrder
  <2>2. \A i, j \in 1..k : i < j => F[i] < F[j]
    BY DEF Files, StatedInOrder
  <2>3. ASSUME NEW i \in 1..(k + 1) PROVE G[i] \in 1..(n + 1) /\ Opens(L, t, G[i])
    <3>1. CASE i = k + 1
      BY <1>1, <3>1
    <3>2. CASE i \in 1..k
      <4>1. F[i] \in 1..n /\ Opens(L, t, F[i]) /\ G[i] = F[i]
        BY <2>1, <3>2
      <4> QED
        BY <1>1, <4>1
    <3> QED
      BY <1>3, <3>1, <3>2
  <2>4. ASSUME NEW i \in 1..(k + 1), NEW j \in 1..(k + 1), i < j PROVE G[i] < G[j]
    <3>1. i \in 1..k
      BY <1>1, <1>3, <2>4
    <3>2. F[i] \in 1..n
      BY <2>1, <3>1
    <3>3. CASE j = k + 1
      BY <1>1, <3>1, <3>2, <3>3
    <3>4. CASE j \in 1..k
      <4>1. F[i] < F[j]
        BY <2>2, <2>4, <3>1, <3>4
      <4>2. G[i] = F[i] /\ G[j] = F[j]
        BY <3>1, <3>4
      <4> QED
        BY <4>1, <4>2
    <3> QED
      BY <1>3, <3>3, <3>4
  <2> QED
    BY <2>3, <2>4 DEF StatedInOrder
<1>10. RowsInPlace(L, G, Q, t, n + 1, k)
  <2> SUFFICES ASSUME NEW i \in 1..(k + 1), NEW h \in DOMAIN Q[i]
               PROVE  /\ Q[i][h] \in 1..(n + 1) /\ IsRow(L, t, Q[i][h])
                      /\ G[i] < Q[i][h] /\ \A j \in 1..(k + 1) : i < j => Q[i][h] < G[j]
    BY DEF RowsInPlace
  <2>1. i \in 1..k /\ Q[i] = R[i] /\ G[i] = F[i]
    BY <1>3, <1>4
  <2>2. /\ R[i][h] \in 1..n /\ IsRow(L, t, R[i][h])
        /\ F[i] < R[i][h] /\ \A j \in 1..k : i < j => R[i][h] < F[j]
    BY <2>1 DEF Files, RowsInPlace
  <2>3. ASSUME NEW j \in 1..(k + 1), i < j PROVE R[i][h] < G[j]
    <3>1. CASE j = k + 1
      BY <1>1, <2>2, <3>1
    <3>2. CASE j \in 1..k
      BY <2>2, <2>3, <3>2
    <3> QED
      BY <1>3, <3>1, <3>2
  <2> QED
    BY <1>1, <2>1, <2>2, <2>3
<1>11. RowsInOrder(Q, k)
  <2> SUFFICES ASSUME NEW i \in 1..(k + 1), NEW h \in DOMAIN Q[i], NEW j \in DOMAIN Q[i], h < j
               PROVE  Q[i][h] < Q[i][j]
    BY DEF RowsInOrder
  <2>1. i \in 1..k /\ Q[i] = R[i]
    BY <1>3, <1>4
  <2> QED
    BY <2>1 DEF Files, RowsInOrder
<1>12. AllStated(L, G, t, n + 1, k)
  <2> SUFFICES ASSUME ~Lone(L, t)
               PROVE  /\ G[1] = Start(L, t, n + 1)
                      /\ \A p \in 1..(n + 1) : p >= Start(L, t, n + 1) /\ Opens(L, t, p) =>
                           \E i \in 1..(k + 1) : p = G[i]
    BY DEF AllStated
  <2>1. /\ top # Absent => F[1] = Start(L, t, n)
        /\ \A p \in 1..n : p >= Start(L, t, n) /\ Opens(L, t, p) => \E i \in 1..k : p = F[i]
    BY DEF Files, AllStated
  <2>2. G[1] = Start(L, t, n + 1)
    <3>1. CASE There(L, t, n)
      <4>1. top # Absent /\ 1 \in 1..k
        BY <1>1, <3>1 DEF Files, Fits, Absent
      <4> QED
        BY <1>6, <2>1, <3>1, <4>1
    <3>2. CASE ~There(L, t, n)
      <4>1. top = Absent
        <5> SUFFICES ASSUME top # Absent PROVE FALSE
          OBVIOUS
        <5>1. 1 \in 1..(top + 1) /\ F[1] \in 1..n /\ Opens(L, t, F[1])
          <6>1. top \in Nat
            BY DEF Files, Fits
          <6>2. 1 \in 1..(top + 1)
            BY <6>1
          <6> QED
            BY <6>2 DEF Files, StatedInOrder
        <5>2. F[1] = Start(L, t, n) /\ F[1] > 0 /\ F[1] \in Turns(L, t, n)
          <6>1. F[1] = Start(L, t, n) /\ F[1] > 0
            BY <2>1, <5>1
          <6>2. n \in Nat
            BY <1>1
          <6>3. Start(L, t, n) > 0 => Start(L, t, n) \in Turns(L, t, n)
            BY <6>2, StartFacts
          <6> QED
            BY <6>1, <6>3
        <5>3. L[F[1]].kind = "create"
          BY <5>1, <5>2 DEF Turns, Opens, Opening
        <5> QED
          BY <3>2, <5>2, <5>3 DEF There
      <4>2. k + 1 = 1
        BY <4>1 DEF Absent
      <4> QED
        BY <1>6, <3>2, <4>2
    <3> QED
      BY <3>1, <3>2
  <2>3. ASSUME NEW p \in 1..(n + 1), p >= Start(L, t, n + 1), Opens(L, t, p)
        PROVE  \E i \in 1..(k + 1) : p = G[i]
    <3>1. k + 1 \in 1..(k + 1)
      BY <1>1
    <3>2. CASE p = n + 1
      BY <3>1, <3>2
    <3>3. CASE p \in 1..n
      <4>1. p >= Start(L, t, n)
        BY <1>1, <1>6, <2>3, <3>3
      <4>2. PICK i \in 1..k : p = F[i]
        BY <2>1, <2>3, <3>3, <4>1
      <4>3. i \in 1..(k + 1)
        BY <1>1
      <4> QED
        BY <4>2, <4>3
    <3> QED
      BY <1>7, <3>2, <3>3
  <2> QED
    BY <2>2, <2>3
<1>13. AllWritten(L, Q, t, n + 1, k)
  <2> SUFFICES ASSUME Calm(L), NEW p \in 1..(n + 1),
                      p > Start(L, t, n + 1), IsRow(L, t, p)
               PROVE  Refusal(L, t, p) \/ \E i \in 1..(k + 1) : p \in Range(Q[i])
    BY DEF AllWritten
  <2>1. p \in 1..n /\ p > Start(L, t, n)
    BY <1>1, <1>6, <1>7
  <2>2. Refusal(L, t, p) \/ \E i \in 1..k : p \in Range(R[i])
    BY <2>1 DEF Files, AllWritten
  <2>3. \A i \in 1..k : i \in 1..(k + 1)
    BY <1>1
  <2> QED
    BY <2>2, <2>3
<1> QED
  BY <1>8, <1>9, <1>10, <1>11, <1>12, <1>13 DEF Files

LEMMA OneLonger ==
  ASSUME NEW s \in Seq(Nat), NEW x \in Nat
  PROVE  /\ Append(s, x) \in Seq(Nat)
         /\ DOMAIN Append(s, x) = DOMAIN s \cup {Len(s) + 1} /\ Append(s, x)[Len(s) + 1] = x
         /\ \A h \in DOMAIN s : h < Len(s) + 1 /\ Append(s, x)[h] = s[h]
         /\ Len(s) + 1 \notin DOMAIN s /\ DOMAIN s \subseteq Nat
<1>1. DOMAIN s = 1..Len(s) /\ DOMAIN Append(s, x) = 1..(Len(s) + 1) /\ Len(s) \in Nat
  OBVIOUS
<1>2. 1..(Len(s) + 1) = 1..Len(s) \cup {Len(s) + 1}
  BY <1>1
<1> QED
  BY <1>1, <1>2

(* A row.                                                                  *)
LEMMA RowWritten ==
  ASSUME NEW L, NEW F, NEW R, NEW t, NEW n, NEW top, FilesType(L, F, R, t, n),
         Files(L, F, R, t, n, top), n + 1 \in 1..Len(L), IsRow(L, t, n + 1), There(L, t, n),
         NEW k, k = top + 1, NEW Q, Len(Q) = Len(R), Q[k] = Append(R[k], n + 1),
         \A i \in 1..k : i # k => Q[i] = R[i]
  PROVE  Files(L, F, Q, t, n + 1, top)
<1>1. /\ L \in Seq(Event) /\ t \in Table /\ n \in 0..Len(L) /\ n \in Nat /\ n + 1 \in Nat
      /\ F \in Seq(Nat) /\ R \in Seq(Seq(Nat)) /\ Len(F) = Len(R) /\ Len(F) \in Nat
      /\ top # Absent /\ top \in Nat /\ k \in 1..Len(R) /\ k \in 1..k /\ k \in Nat
      /\ \A i \in 1..k : i \in 1..Len(R) /\ i <= k
  <2>1. /\ L \in Seq(Event) /\ t \in Table /\ n \in 0..Len(L) /\ n \in Nat /\ n + 1 \in Nat
        /\ F \in Seq(Nat) /\ R \in Seq(Seq(Nat)) /\ Len(F) = Len(R) /\ Len(F) \in Nat
    BY DEF FilesType, Files, Fits
  <2>2. top # Absent /\ top \in Nat /\ top < Len(R)
    BY DEF Files, Fits
  <2> QED
    BY <2>1, <2>2
<1>2. PICK old \in Seq(Nat) : R[k] = old
  BY <1>1
<1>3. PICK last : last = Len(old) + 1
  OBVIOUS
<1>4. /\ DOMAIN Q[k] = DOMAIN old \cup {last} /\ Q[k][last] = n + 1
      /\ \A h \in DOMAIN old : h < last /\ Q[k][h] = old[h]
      /\ last \notin DOMAIN old /\ DOMAIN old \subseteq Nat /\ last \in Nat
  <2>1. /\ DOMAIN Append(old, n + 1) = DOMAIN old \cup {Len(old) + 1}
        /\ Append(old, n + 1)[Len(old) + 1] = n + 1
        /\ \A h \in DOMAIN old : h < Len(old) + 1 /\ Append(old, n + 1)[h] = old[h]
        /\ Len(old) + 1 \notin DOMAIN old /\ DOMAIN old \subseteq Nat
    BY <1>1, OneLonger
  <2> QED
    BY <1>2, <1>3, <2>1
<1>5. Start(L, t, n + 1) = Start(L, t, n) /\ (There(L, t, n + 1) <=> There(L, t, n))
  <2>1. n + 1 \notin Turns(L, t, n + 1)
    BY DEF Turns, IsRow
  <2> QED
    BY <1>1, <2>1, StartNext DEF There
<1>6. ~Opens(L, t, n + 1) /\ \A p \in 1..(n + 1) : p \in 1..n \/ p = n + 1
  BY <1>1 DEF Opens, Opening, IsRow
<1>7. /\ \A i \in 1..k : F[i] \in 1..n
      /\ 1..n \subseteq 1..(n + 1) /\ n + 1 \in 1..(n + 1) /\ \A p \in 1..n : p < n + 1
  <2>1. \A i \in 1..k : F[i] \in 1..n
    BY DEF Files, StatedInOrder
  <2>2. n \in Nat
    BY <1>1
  <2>3. 1..n \subseteq 1..(n + 1) /\ n + 1 \in 1..(n + 1) /\ \A p \in 1..n : p < n + 1
    BY <2>2
  <2> QED
    BY <2>1, <2>3
<1>8. Fits(L, F, Q, t, n + 1, top)
  BY <1>1, <1>5 DEF Files, Fits
<1>9. StatedInOrder(L, F, t, n + 1, top)
  <2>1. \A i \in 1..k : F[i] \in 1..(n + 1)
    BY <1>7
  <2>2. \A i \in 1..k : Opens(L, t, F[i])
    BY DEF Files, StatedInOrder
  <2>3. \A i, j \in 1..k : i < j => F[i] < F[j]
    BY DEF Files, StatedInOrder
  <2> QED
    BY <2>1, <2>2, <2>3 DEF StatedInOrder
<1>10. RowsInPlace(L, F, Q, t, n + 1, top)
  <2> SUFFICES ASSUME NEW i \in 1..k, NEW h \in DOMAIN Q[i]
               PROVE  /\ Q[i][h] \in 1..(n + 1) /\ IsRow(L, t, Q[i][h])
                      /\ F[i] < Q[i][h] /\ \A j \in 1..k : i < j => Q[i][h] < F[j]
    BY DEF RowsInPlace
  <2>1. \A g \in DOMAIN R[i] : /\ R[i][g] \in 1..n /\ IsRow(L, t, R[i][g])
                               /\ F[i] < R[i][g] /\ \A j \in 1..k : i < j => R[i][g] < F[j]
    BY DEF Files, RowsInPlace
  <2>2. CASE h \in DOMAIN R[i] /\ Q[i][h] = R[i][h]
    <3>1. /\ R[i][h] \in 1..n /\ IsRow(L, t, R[i][h])
          /\ F[i] < R[i][h] /\ \A j \in 1..k : i < j => R[i][h] < F[j]
      BY <2>1, <2>2
    <3> QED
      BY <1>7, <2>2, <3>1
  <2>3. CASE i = k /\ Q[i][h] = n + 1
    <3>1. F[i] < n + 1 /\ \A j \in 1..k : ~(i < j)
      <4>1. F[i] < n + 1
        BY <1>7
      <4>2. k \in Nat
        BY <1>1
      <4> QED
        BY <2>3, <4>1, <4>2
    <3> QED
      BY <1>7, <2>3, <3>1
  <2>4. CASE i = k
    BY <1>2, <1>4, <2>2, <2>3, <2>4
  <2>5. CASE i # k
    BY <2>2, <2>5
  <2> QED
    BY <2>4, <2>5
<1>11. RowsInOrder(Q, top)
  <2> SUFFICES ASSUME NEW i \in 1..k, NEW h \in DOMAIN Q[i], NEW j \in DOMAIN Q[i], h < j
               PROVE  Q[i][h] < Q[i][j]
    BY DEF RowsInOrder
  <2>1. /\ \A f, g \in DOMAIN R[i] : f < g => R[i][f] < R[i][g]
        /\ \A g \in DOMAIN R[i] : R[i][g] \in 1..n
    BY DEF Files, RowsInOrder, RowsInPlace
  <2>2. CASE i # k
    BY <2>1, <2>2
  <2>3. CASE i = k /\ h \in DOMAIN old /\ j \in DOMAIN old
    BY <1>2, <1>4, <2>1, <2>3
  <2>4. CASE i = k /\ h \in DOMAIN old /\ j = last
    <3>1. Q[i][h] = old[h] /\ Q[i][j] = n + 1 /\ R[i][h] = old[h]
      BY <1>2, <1>4, <2>4
    <3>2. old[h] \in 1..n
      BY <1>2, <2>1, <2>4
    <3> QED
      BY <1>7, <3>1, <3>2
  <2>5. CASE i = k /\ h = last
    <3>1. j = h \/ j < h
      <4>1. j \in DOMAIN old \/ j = last
        BY <1>4, <2>5
      <4> QED
        BY <1>4, <2>5, <4>1
    <3> QED
      BY <1>2, <1>4, <2>5, <3>1
  <2> QED
    BY <1>2, <1>4, <2>2, <2>3, <2>4, <2>5
<1>12. AllStated(L, F, t, n + 1, top)
  BY <1>5, <1>6 DEF Files, AllStated
<1>13. AllWritten(L, Q, t, n + 1, top)
  <2> SUFFICES ASSUME Calm(L), NEW p \in 1..(n + 1),
                      p > Start(L, t, n + 1), IsRow(L, t, p)
               PROVE  Refusal(L, t, p) \/ \E i \in 1..k : p \in Range(Q[i])
    BY DEF AllWritten
  <2>1. CASE p = n + 1
    BY <1>1, <1>4, <2>1 DEF Range
  <2>2. CASE p \in 1..n
    <3>1. Refusal(L, t, p) \/ \E i \in 1..k : p \in Range(R[i])
      BY <1>5, <2>2 DEF Files, AllWritten
    <3>2. ASSUME NEW i \in 1..k PROVE Range(R[i]) \subseteq Range(Q[i])
      <4>1. CASE i = k
        <5>1. Range(old) \subseteq Range(Q[k])
          BY <1>4 DEF Range
        <5> QED
          BY <1>2, <4>1, <5>1
      <4>2. CASE i # k
        BY <4>2
      <4> QED
        BY <4>1, <4>2
    <3> QED
      BY <3>1, <3>2
  <2> QED
    BY <1>6, <2>1, <2>2
<1> QED
  BY <1>8, <1>9, <1>10, <1>11, <1>12, <1>13 DEF Files

(* A row that is refused.                                                  *)
LEMMA RowRefused ==
  ASSUME NEW L, NEW F, NEW R, NEW t, NEW n, NEW top, FilesType(L, F, R, t, n),
         Files(L, F, R, t, n, top), n + 1 \in 1..Len(L), IsRow(L, t, n + 1),
         Refusal(L, t, n)
  PROVE  Files(L, F, R, t, n + 1, top)
<1>1. L \in Seq(Event) /\ t \in Table /\ n \in 0..Len(L) /\ n \in Nat
  BY DEF FilesType
<1>2. /\ ~Opens(L, t, n + 1) /\ n + 1 \notin Turns(L, t, n + 1)
      /\ \A p \in 1..(n + 1) : p \in 1..n \/ p = n + 1
  BY <1>1 DEF Opens, Opening, IsRow, Turns
<1>3. Start(L, t, n + 1) = Start(L, t, n) /\ (There(L, t, n + 1) <=> There(L, t, n))
  BY <1>1, <1>2, StartNext DEF There
<1>4. Refusal(L, t, n + 1)
  BY <1>1, RefusedYet DEF IsRow, Opening
<1>5. Fits(L, F, R, t, n + 1, top) /\ RowsInOrder(R, top)
  BY <1>3 DEF Files, Fits
<1>6. StatedInOrder(L, F, t, n + 1, top)
  BY <1>1 DEF Files, StatedInOrder
<1>7. RowsInPlace(L, F, R, t, n + 1, top)
  BY <1>1 DEF Files, RowsInPlace
<1>8. AllStated(L, F, t, n + 1, top)
  BY <1>2, <1>3 DEF Files, AllStated
<1>9. AllWritten(L, R, t, n + 1, top)
  BY <1>2, <1>3, <1>4 DEF Files, AllWritten
<1> QED
  BY <1>5, <1>6, <1>7, <1>8, <1>9 DEF Files

(* What a splitter that threw an exception left of an open file.           *)
LEMMA FileCut ==
  ASSUME NEW L, NEW F, NEW R, NEW t, NEW n, NEW top, FilesType(L, F, R, t, n),
         Files(L, F, R, t, n, top), top # Absent, ~Calm(L),
         NEW Q, Q = [R EXCEPT ![top + 1] = <<>>]
  PROVE  Q \in Seq(Seq(Nat)) /\ Files(L, F, Q, t, n, top)
<1>1. /\ R \in Seq(Seq(Nat)) /\ Len(F) = Len(R) /\ top + 1 \in 1..Len(R)
      /\ \A i \in 1..(top + 1) : i \in 1..Len(R)
  BY DEF FilesType, Files, Fits, Absent
<1>2. <<>> \in Seq(Nat) /\ DOMAIN <<>> = {}
  OBVIOUS
<1>3. /\ Q \in Seq(Seq(Nat)) /\ Len(Q) = Len(R)
      /\ \A i \in 1..(top + 1) : Q[i] = R[i] \/ DOMAIN Q[i] = {}
  BY <1>1, <1>2
<1>4. Fits(L, F, Q, t, n, top) /\ AllWritten(L, Q, t, n, top)
  BY <1>3 DEF Files, Fits, AllWritten
<1>5. RowsInPlace(L, F, Q, t, n, top)
  <2> SUFFICES ASSUME NEW i \in 1..(top + 1), NEW k \in DOMAIN Q[i]
               PROVE  /\ Q[i][k] \in 1..n /\ IsRow(L, t, Q[i][k])
                      /\ F[i] < Q[i][k] /\ \A j \in 1..(top + 1) : i < j => Q[i][k] < F[j]
    BY DEF RowsInPlace
  <2>1. Q[i] = R[i]
    BY <1>3
  <2> QED
    BY <2>1 DEF Files, RowsInPlace
<1>6. RowsInOrder(Q, top)
  BY <1>3 DEF Files, RowsInOrder
<1> QED
  BY <1>3, <1>4, <1>5, <1>6 DEF Files

-----------------------------------------------------------------------------
(* The version of a table is that of the statement of its file.            *)

LEMMA StatedTwice ==
  ASSUME NEW L, NEW F, NEW R, NEW t, NEW n, NEW top, FilesType(L, F, R, t, n),
         Files(L, F, R, t, n, top), NEW i \in 1..(top + 1)
  PROVE  /\ top # Absent /\ 1 \in 1..(top + 1) /\ F[i] \in 1..n /\ Opens(L, t, F[i])
         /\ \A j \in 1..(top + 1) : j <= i => F[j] <= F[i]
         /\ ~Lone(L, t) => F[1] = Start(L, t, n) /\ F[1] <= F[i] /\ There(L, t, n)
         /\ n \in Nat /\ top \in Nat
<1>1. top # Absent /\ top \in Nat /\ n \in Nat /\ L \in Seq(Event) /\ n <= Len(L)
  BY DEF FilesType, Files, Fits, Absent
<1>2. /\ \A j \in 1..(top + 1) : F[j] \in 1..n /\ Opens(L, t, F[j])
      /\ \A j, k \in 1..(top + 1) : j < k => F[j] < F[k]
  BY DEF Files, StatedInOrder
<1>3. \A j \in 1..(top + 1) : j <= i => F[j] <= F[i]
  <2> SUFFICES ASSUME NEW j \in 1..(top + 1), j <= i PROVE F[j] <= F[i]
    OBVIOUS
  <2>1. F[j] \in 1..n /\ F[i] \in 1..n /\ (j = i \/ j < i)
    BY <1>2
  <2> QED
    BY <1>2, <2>1
<1>4. 1 \in 1..(top + 1) /\ 1 <= i
  BY <1>1
<1>5. ASSUME ~Lone(L, t) PROVE F[1] = Start(L, t, n) /\ There(L, t, n)
  <2>1. F[1] = Start(L, t, n)
    BY <1>1, <1>5 DEF Files, AllStated
  <2>2. F[1] \in Turns(L, t, n) /\ F[1] > 0 /\ Opens(L, t, F[1])
    BY <1>1, <1>2, <1>4, <2>1, StartFacts
  <2> QED
    BY <2>1, <2>2 DEF There, Turns, Opens, Opening
<1> QED
  BY <1>1, <1>2, <1>3, <1>4, <1>5

LEMMA AltersFinite ==
  ASSUME NEW L, NEW t, NEW a \in Nat, NEW b \in Nat
  PROVE  IsFiniteSet(Alters(L, t, a, b)) /\ Cardinality(Alters(L, t, a, b)) \in Nat
<1>1. IsFiniteSet(a..b)
  BY FS_Interval
<1>2. Alters(L, t, a, b) \in SUBSET (a..b)
  BY DEF Alters
<1> QED
  BY <1>1, <1>2, FS_Subset, FS_CardinalityType

LEMMA VersionInFile ==
  ASSUME NEW L, NEW F, NEW R, NEW t, NEW n, NEW top, FilesType(L, F, R, t, n),
         Files(L, F, R, t, n, top), ~Lone(L, t), NEW i \in 1..(top + 1), NEW p \in 1..n,
         F[i] <= p, \A j \in 1..(top + 1) : i < j => p < F[j]
  PROVE  Vers(L, t, p) = Vers(L, t, F[i])
<1> DEFINE b == Start(L, t, n)
<1>1. /\ F[i] \in 1..n /\ \A j \in 1..(top + 1) : j <= i => F[j] <= F[i]
      /\ F[1] = b /\ b <= F[i] /\ n \in Nat /\ top \in Nat /\ b \in 0..n
  BY StatedTwice, StartFacts
<1>2. Start(L, t, p) = b /\ Start(L, t, F[i]) = b
  <2>1. p \in 0..n /\ b <= p /\ F[i] \in 0..n
    BY <1>1
  <2> QED
    BY <1>1, <2>1, StartSame
<1> HIDE DEF b
<1>3. ASSUME NEW q \in (b + 1)..p, L[q].table = t /\ L[q].kind = "alter" PROVE q <= F[i]
  <2>1. q \in 1..n /\ q >= b /\ Opens(L, t, q)
    BY <1>1, <1>3 DEF Opens, Opening
  <2>2. PICK j \in 1..(top + 1) : q = F[j]
    BY <2>1 DEF Files, AllStated, b
  <2>3. ~(i < j)
    BY <1>1, <2>1, <2>2
  <2> QED
    BY <1>1, <2>2, <2>3
<1>4. \A q \in (b + 1)..F[i] : q \in (b + 1)..p
  BY <1>1
<1>5. \A q \in (b + 1)..p : q <= F[i] => q \in (b + 1)..F[i]
  BY <1>1
<1>6. Alters(L, t, b + 1, p) = Alters(L, t, b + 1, F[i])
  BY <1>3, <1>4, <1>5 DEF Alters
<1> QED
  BY <1>2, <1>6 DEF Vers

LEMMA FirstVersion ==
  ASSUME NEW L, NEW F, NEW R, NEW t, NEW n, NEW top, FilesType(L, F, R, t, n),
         Files(L, F, R, t, n, top), ~Lone(L, t), top # Absent
  PROVE  L[F[1]].kind = "create" /\ Vers(L, t, F[1]) = 0
<1>1. 1 \in 1..(top + 1)
  BY DEF Files, Fits, Absent
<1>2. /\ F[1] = Start(L, t, n) /\ There(L, t, n) /\ F[1] \in 1..n /\ n \in Nat
  BY <1>1, StatedTwice
<1>3. Start(L, t, F[1]) = F[1]
  BY <1>2, StartSame
<1>4. Alters(L, t, F[1] + 1, F[1]) = {}
  BY <1>2 DEF Alters
<1> QED
  BY <1>2, <1>3, <1>4, FS_EmptySet DEF Vers, There

LEMMA NextVersion ==
  ASSUME NEW L, NEW F, NEW R, NEW t, NEW n, NEW top, FilesType(L, F, R, t, n),
         Files(L, F, R, t, n, top), ~Lone(L, t), NEW i \in 1..(top + 1), i + 1 \in 1..(top + 1)
  PROVE  /\ Vers(L, t, F[i]) \in Nat
         /\ L[F[i + 1]].kind = "alter" => Vers(L, t, F[i + 1]) = Vers(L, t, F[i]) + 1
         /\ L[F[i + 1]].kind # "alter" => Vers(L, t, F[i + 1]) = Vers(L, t, F[i])
<1> DEFINE b == Start(L, t, n)
           c == F[i]
           d == F[i + 1]
<1>1. /\ c \in 1..n /\ d \in 1..n /\ c < d /\ \A j \in 1..(top + 1) : j <= i => F[j] <= c
      /\ b <= c /\ n \in Nat /\ top \in Nat /\ b \in 0..n /\ Opens(L, t, d)
      /\ \A j \in 1..(top + 1) : i + 1 <= j => d <= F[j]
  <2>1. c < d
    BY DEF Files, StatedInOrder
  <2>2. ASSUME NEW j \in 1..(top + 1), i + 1 <= j PROVE d <= F[j]
    BY <2>2, StatedTwice
  <2> QED
    BY <2>1, <2>2, StatedTwice, StartFacts
<1>2. Start(L, t, c) = b /\ Start(L, t, d) = b
  <2>1. c \in 0..n /\ d \in 0..n /\ b <= d
    BY <1>1
  <2> QED
    BY <1>1, <2>1, StartSame
<1>3. ASSUME NEW q \in (b + 1)..d, L[q].table = t /\ L[q].kind = "alter" PROVE q <= c \/ q = d
  <2>1. q \in 1..n /\ q >= b /\ Opens(L, t, q)
    BY <1>1, <1>3 DEF Opens, Opening
  <2>2. PICK j \in 1..(top + 1) : q = F[j]
    BY <2>1 DEF Files, AllStated
  <2>3. j <= i \/ i + 1 <= j
    BY <1>1
  <2> QED
    BY <1>1, <1>3, <2>2, <2>3
<1> HIDE DEF b, c, d
<1>4. /\ \A q : q \in (b + 1)..c => q \in (b + 1)..d
      /\ \A q \in (b + 1)..d : q <= c => q \in (b + 1)..c
      /\ d \in (b + 1)..d /\ d \notin (b + 1)..c
  BY <1>1
<1> DEFINE S == Alters(L, t, b + 1, c)
<1>5. L[d].kind = "alter" => Alters(L, t, b + 1, d) = S \cup {d}
  BY <1>1, <1>3, <1>4 DEF Alters, Opens, Opening
<1>6. L[d].kind # "alter" => Alters(L, t, b + 1, d) = S
  BY <1>3, <1>4 DEF Alters
<1>7. IsFiniteSet(S) /\ Cardinality(S) \in Nat /\ d \notin S
  <2>1. b + 1 \in Nat /\ c \in Nat
    BY <1>1
  <2> QED
    BY <1>4, <2>1, AltersFinite DEF Alters
<1> HIDE DEF S
<1>8. Cardinality(S \cup {d}) = Cardinality(S) + 1
  BY <1>7, FS_AddElement
<1>9. Vers(L, t, c) = Cardinality(S) /\ Vers(L, t, d) = Cardinality(Alters(L, t, b + 1, d))
  BY <1>2 DEF Vers, S
<1> QED
  BY <1>5, <1>6, <1>7, <1>8, <1>9 DEF c, d

-----------------------------------------------------------------------------
(* Two logs with the same statements on a table.                           *)

Bearing(L, t) == {p \in DOMAIN L : Touches(L[p], t) /\ L[p].kind # "rows"}

Alike(h, L, M, t) ==
  /\ h \in Bijection(Bearing(L, t), Bearing(M, t))
  /\ \A p, q \in Bearing(L, t) : M[h[p]].kind = L[p].kind /\ (p < q => h[p] < h[q])

LEMMA AlikeFacts ==
  ASSUME NEW L \in Seq(Event), NEW M \in Seq(Event), NEW t, NEW h, Alike(h, L, M, t)
  PROVE  /\ Bearing(L, t) \subseteq Nat /\ Bearing(M, t) \subseteq Nat
         /\ \A p \in Bearing(L, t) : h[p] \in Bearing(M, t) /\ M[h[p]].kind = L[p].kind
         /\ \A q \in Bearing(M, t) : \E p \in Bearing(L, t) : h[p] = q
         /\ \A p, q \in Bearing(L, t) : p < q <=> h[p] < h[q]
<1>1. Bearing(L, t) \subseteq Nat /\ Bearing(M, t) \subseteq Nat
  BY DEF Bearing
<1>2. /\ h \in [Bearing(L, t) -> Bearing(M, t)]
      /\ \A q \in Bearing(M, t) : \E p \in Bearing(L, t) : h[p] = q
  BY DEF Alike, Bijection, Injection, Surjection
<1>3. ASSUME NEW p \in Bearing(L, t), NEW q \in Bearing(L, t), h[p] < h[q] PROVE p < q
  <2>1. h[p] \in Nat /\ h[q] \in Nat /\ p \in Nat /\ q \in Nat
    BY <1>1, <1>2
  <2>2. CASE q < p
    <3>1. h[q] < h[p]
      BY <2>2 DEF Alike
    <3> QED
      BY <1>3, <2>1, <3>1
  <2>3. CASE q = p
    BY <1>3, <2>1, <2>3
  <2> QED
    BY <2>1, <2>2, <2>3
<1> QED
  BY <1>1, <1>2, <1>3 DEF Alike

LEMMA OpensBears ==
  ASSUME NEW L \in Seq(Event), NEW t, NEW p \in Bearing(L, t),
         L[p].kind \in Opening \cup {"dropTable"}
  PROVE  L[p].table = t /\ p \in 1..Len(L)
BY DEF Bearing, Touches, Opening

LEMMA AlikeLone ==
  ASSUME NEW L \in Seq(Event), NEW M \in Seq(Event), NEW t, NEW h, Alike(h, L, M, t), Lone(L, t)
  PROVE  Lone(M, t)
<1>1. PICK p \in DOMAIN L : L[p] = [kind |-> "dropTable", table |-> t]
  BY DEF Lone
<1>2. p \in Bearing(L, t) /\ L[p].kind = "dropTable"
  BY <1>1 DEF Bearing, Touches
<1>3. h[p] \in Bearing(M, t) /\ M[h[p]].kind = "dropTable"
  BY <1>2, AlikeFacts
<1>4. M[h[p]].table = t /\ h[p] \in 1..Len(M)
  BY <1>3, OpensBears
<1>5. M[h[p]] \in Event
  BY <1>4
<1>6. M[h[p]] = [kind |-> "dropTable", table |-> t]
  BY <1>3, <1>4, <1>5 DEF Event
<1> QED
  BY <1>4, <1>6 DEF Lone

(* File by file, the tables have the same version, and neither source has  *)
(* more files than the other.                                              *)
LEMMA AlikeVersions ==
  ASSUME NEW t,
         NEW L, NEW F, NEW R, NEW top, FilesType(L, F, R, t, Len(L)), Files(L, F, R, t, Len(L), top),
         NEW M, NEW G, NEW Q, NEW up, FilesType(M, G, Q, t, Len(M)), Files(M, G, Q, t, Len(M), up),
         NEW h, Alike(h, L, M, t), ~Lone(M, t),
         NEW i \in 1..(up + 1)
  PROVE  i \in 1..(top + 1) /\ Vers(L, t, F[i]) = Vers(M, t, G[i])
<1>1. /\ L \in Seq(Event) /\ M \in Seq(Event) /\ ~Lone(L, t) /\ Len(L) \in Nat /\ Len(M) \in Nat
      /\ DOMAIN L = 1..Len(L) /\ DOMAIN M = 1..Len(M)
  <2>1. L \in Seq(Event) /\ M \in Seq(Event)
    BY DEF FilesType
  <2> QED
    BY <2>1, AlikeLone
<1>2. /\ top \in Nat /\ up \in Nat /\ top # Absent /\ up # Absent
      /\ F[1] = Start(L, t, Len(L)) /\ G[1] = Start(M, t, Len(M))
      /\ There(L, t, Len(L)) /\ There(M, t, Len(M)) /\ 1 \in 1..(top + 1) /\ 1 \in 1..(up + 1)
  <2>1. /\ up \in Nat /\ up # Absent /\ 1 \in 1..(up + 1)
        /\ G[1] = Start(M, t, Len(M)) /\ There(M, t, Len(M))
    BY <1>1, StatedTwice
  <2>2. G[1] > 0 /\ G[1] \in Turns(M, t, Len(M)) /\ M[G[1]].kind = "create"
    BY <1>1, <2>1, StartFacts DEF There
  <2>3. G[1] \in Bearing(M, t)
    BY <1>1, <2>2 DEF Bearing, Turns
  <2>4. PICK q \in Bearing(L, t) : h[q] = G[1] /\ L[q].kind = "create"
    BY <1>1, <2>2, <2>3, AlikeFacts
  <2>5. q \in Turns(L, t, Len(L)) /\ q \in 1..Len(L)
    BY <1>1, <2>4 DEF Turns, Bearing
  <2>6. ASSUME NEW p \in Turns(L, t, Len(L)) PROVE p <= q
    <3>1. p \in Bearing(L, t) /\ p \in Nat /\ q \in Nat
      BY <1>1, <2>5 DEF Turns, Bearing
    <3>2. h[p] \in Bearing(M, t) /\ M[h[p]].kind = L[p].kind
      BY <1>1, <3>1, AlikeFacts
    <3>3. h[p] \in Turns(M, t, Len(M))
      BY <1>1, <2>6, <3>2 DEF Turns, Bearing
    <3>4. h[p] <= G[1]
      BY <1>1, <2>1, <3>3, StartFacts
    <3>5. ~(h[q] < h[p])
      BY <1>1, <2>2, <2>4, <3>3, <3>4 DEF Turns
    <3>6. q < p <=> h[q] < h[p]
      BY <1>1, <2>4, <3>1, AlikeFacts
    <3> QED
      BY <3>1, <3>5, <3>6
  <2>7. Start(L, t, Len(L)) = q
    BY <1>1, <2>5, <2>6, StartIs
  <2>8. There(L, t, Len(L))
    BY <2>4, <2>5, <2>7 DEF There
  <2>9. top # Absent /\ top \in Nat
    BY <2>8 DEF Files, Fits
  <2>10. 1 \in 1..(top + 1)
    BY <2>9
  <2>11. F[1] = Start(L, t, Len(L))
    BY <1>1, <2>10, StatedTwice
  <2> QED
    BY <2>1, <2>8, <2>9, <2>10, <2>11
<1>3. /\ \A j \in 1..(top + 1) : /\ F[j] \in 1..Len(L) /\ Opens(L, t, F[j]) /\ F[1] <= F[j]
                                 /\ F[j] \in Bearing(L, t)
      /\ \A j \in 1..(up + 1) : /\ G[j] \in 1..Len(M) /\ Opens(M, t, G[j]) /\ G[1] <= G[j]
                                /\ G[j] \in Bearing(M, t)
  <2>1. \A j \in 1..(top + 1) : F[j] \in 1..Len(L) /\ Opens(L, t, F[j]) /\ F[1] <= F[j]
    BY <1>1, StatedTwice
  <2>2. \A j \in 1..(up + 1) : G[j] \in 1..Len(M) /\ Opens(M, t, G[j]) /\ G[1] <= G[j]
    BY <1>1, StatedTwice
  <2> QED
    BY <1>1, <2>1, <2>2 DEF Bearing, Opens, Opening, Touches
<1>4. /\ Bearing(L, t) \subseteq Nat /\ Bearing(M, t) \subseteq Nat
      /\ \A p \in Bearing(L, t) : h[p] \in Bearing(M, t) /\ M[h[p]].kind = L[p].kind
      /\ \A q \in Bearing(M, t) : \E p \in Bearing(L, t) : h[p] = q
      /\ \A p, q \in Bearing(L, t) : p < q <=> h[p] < h[q]
  BY <1>1, AlikeFacts
<1>5. h[F[1]] = G[1]
  <2>1. L[F[1]].kind = "create" /\ M[G[1]].kind = "create"
    BY <1>2 DEF There
  <2>2. h[F[1]] \in Turns(M, t, Len(M))
    BY <1>1, <1>2, <1>3, <1>4, <2>1 DEF Turns, Bearing
  <2>3. h[F[1]] <= G[1]
    BY <1>1, <1>2, <2>2, StartFacts
  <2>4. PICK q \in Bearing(L, t) : h[q] = G[1]
    BY <1>2, <1>3, <1>4
  <2>5. q \in Turns(L, t, Len(L))
    BY <1>1, <1>4, <2>1, <2>4 DEF Turns, Bearing
  <2>6. q <= F[1]
    BY <1>1, <1>2, <2>5, StartFacts
  <2>7. ~(h[F[1]] < h[q]) /\ h[F[1]] \in Nat /\ G[1] \in Nat
    BY <1>2, <1>3, <1>4, <2>6
  <2> QED
    BY <2>3, <2>4, <2>7
<1> DEFINE T == {k \in Nat : k + 1 \in 1..(up + 1) =>
                   /\ k + 1 \in 1..(top + 1)
                   /\ h[F[k + 1]] = G[k + 1] /\ Vers(L, t, F[k + 1]) = Vers(M, t, G[k + 1])}
<1>6. 0 \in T
  <2>1. Vers(L, t, F[1]) = 0 /\ Vers(M, t, G[1]) = 0
    BY <1>1, <1>2, FirstVersion
  <2> QED
    BY <1>2, <1>5, <2>1
<1>7. ASSUME NEW k \in 0..up, k < up, k \in T PROVE k + 1 \in T
  <2> SUFFICES ASSUME k + 1 + 1 \in 1..(up + 1)
               PROVE  /\ k + 1 + 1 \in 1..(top + 1)
                      /\ h[F[k + 1 + 1]] = G[k + 1 + 1]
                      /\ Vers(L, t, F[k + 1 + 1]) = Vers(M, t, G[k + 1 + 1])
    BY <1>2
  <2> DEFINE c == k + 1
             d == c + 1
  <2>1. /\ c \in 1..(up + 1) /\ d \in 1..(up + 1) /\ c \in 1..(top + 1)
        /\ h[F[c]] = G[c] /\ Vers(L, t, F[c]) = Vers(M, t, G[c])
    <3>1. c \in 1..(up + 1) /\ d \in 1..(up + 1)
      BY <1>2
    <3> QED
      BY <1>7, <3>1
  <2>2. h[F[c]] = G[c] /\ Vers(L, t, F[c]) = Vers(M, t, G[c])
    BY <2>1
  <2>10. G[c] < G[d]
    BY <2>1 DEF Files, StatedInOrder
  <2>6. PICK q \in Bearing(L, t) : h[q] = G[d]
    BY <1>3, <1>4, <2>1
  <2>11. PICK e \in 1..(top + 1) : q = F[e] /\ F[c] < q
    <3>1. M[G[d]].kind = L[q].kind /\ F[c] < q
      BY <1>3, <1>4, <2>1, <2>2, <2>6, <2>10
    <3>2. L[q].kind \in Opening
      BY <1>3, <2>1, <3>1 DEF Opens, Opening
    <3>3. L[q].table = t /\ q \in 1..Len(L)
      BY <1>1, <3>2, OpensBears
    <3>4. Opens(L, t, q) /\ q >= F[1]
      <4>1. F[1] <= F[c] /\ F[c] \in Nat /\ F[1] \in Nat /\ q \in Nat
        BY <1>2, <1>3, <1>4, <2>1
      <4> QED
        BY <3>1, <3>2, <3>3, <4>1 DEF Opens, Opening
    <3>5. PICK j \in 1..(top + 1) : q = F[j]
      BY <1>1, <1>2, <3>3, <3>4 DEF Files, AllStated
    <3> QED
      BY <3>1, <3>5
  <2>12. c < e /\ d \in 1..(top + 1)
    <3>1. ~(e <= c)
      <4>1. e <= c => F[e] <= F[c]
        BY <1>1, <2>1, StatedTwice
      <4>2. F[e] \in Nat /\ F[c] \in Nat
        BY <1>3, <2>1
      <4> QED
        BY <2>11, <4>1, <4>2
    <3>2. e \in Nat /\ e <= top + 1 /\ c \in Nat /\ d = c + 1 /\ top \in Nat
      BY <1>2
    <3> QED
      BY <3>1, <3>2
  <2>3. F[c] < F[d] /\ G[c] < G[d]
    BY <2>1, <2>10, <2>12 DEF Files, StatedInOrder
  <2>4. /\ \A j \in 1..(top + 1) : F[c] < F[j] => F[d] <= F[j]
        /\ \A j \in 1..(up + 1) : G[c] < G[j] => G[d] <= G[j]
    <3>0. c \in Nat /\ d = c + 1
      OBVIOUS
    <3>1. \A j \in 1..(top + 1) : j <= c \/ d <= j
      BY <1>2, <3>0
    <3>2. \A j \in 1..(up + 1) : j <= c \/ d <= j
      BY <1>2, <3>0
    <3>3. \A j \in 1..(top + 1) : (j <= c => F[j] <= F[c]) /\ (d <= j => F[d] <= F[j])
      BY <1>1, <2>1, <2>12, StatedTwice
    <3>4. \A j \in 1..(up + 1) : (j <= c => G[j] <= G[c]) /\ (d <= j => G[d] <= G[j])
      BY <1>1, <2>1, <2>12, StatedTwice
    <3> HIDE DEF c, d
    <3>5. \A j \in 1..(top + 1) : F[c] < F[j] => F[d] <= F[j]
      <4>1. \A j \in 1..(top + 1) : F[j] \in Nat
        BY <1>3
      <4>2. F[c] \in Nat
        BY <2>1, <4>1
      <4> QED
        BY <3>1, <3>3, <4>1, <4>2
    <3>6. \A j \in 1..(up + 1) : G[c] < G[j] => G[d] <= G[j]
      <4>1. \A j \in 1..(up + 1) : G[j] \in Nat
        BY <1>3
      <4>2. G[c] \in Nat
        BY <2>1, <4>1
      <4> QED
        BY <3>2, <3>4, <4>1, <4>2
    <3> QED
      BY <3>5, <3>6
  <2> HIDE DEF c, d
  <2>5. /\ h[F[d]] \in Bearing(M, t) /\ Opens(M, t, h[F[d]]) /\ G[c] < h[F[d]]
        /\ G[d] <= h[F[d]]
    <3>1. h[F[d]] \in Bearing(M, t) /\ M[h[F[d]]].kind = L[F[d]].kind /\ G[c] < h[F[d]]
      BY <1>3, <1>4, <2>1, <2>12, <2>2, <2>3
    <3>2. L[F[d]].kind \in Opening
      BY <1>3, <2>1, <2>12 DEF Opens, Opening
    <3>3. M[h[F[d]]].table = t /\ h[F[d]] \in 1..Len(M)
      <4>1. M[h[F[d]]].kind \in Opening /\ M \in Seq(Event)
        BY <1>1, <3>1, <3>2
      <4> QED
        BY <3>1, <4>1, OpensBears
    <3>4. Opens(M, t, h[F[d]]) /\ h[F[d]] >= G[1]
      <4>1. G[1] <= G[c] /\ G[c] \in Nat /\ G[1] \in Nat /\ h[F[d]] \in Nat
        BY <1>2, <1>3, <1>4, <2>1, <2>12, <3>1
      <4>2. h[F[d]] >= G[1]
        BY <3>1, <4>1
      <4> QED
        BY <3>1, <3>2, <3>3, <4>2 DEF Opens, Opening
    <3>5. PICK j \in 1..(up + 1) : h[F[d]] = G[j]
      BY <1>2, <3>3, <3>4 DEF Files, AllStated
    <3> QED
      BY <2>4, <3>1, <3>4, <3>5
  <2>7. F[d] <= q
    BY <2>4, <2>11
  <2>8. h[F[d]] = G[d]
    <3>1. ~(q < F[d]) /\ F[d] \in Bearing(L, t)
      BY <1>3, <1>4, <2>1, <2>12, <2>7
    <3>2. ~(h[q] < h[F[d]])
      BY <1>4, <3>1
    <3>3. h[q] = G[d] /\ G[d] <= h[F[d]]
      BY <2>5, <2>6
    <3>4. G[d] \in Nat /\ h[F[d]] \in Nat
      <4>1. G[d] \in Nat
        BY <1>3, <2>1
      <4> QED
        BY <1>4, <3>1, <4>1
    <3> QED
      BY <3>2, <3>3, <3>4
  <2>9. Vers(L, t, F[d]) = Vers(M, t, G[d])
    <3>1. L[F[d]].kind = M[G[d]].kind
      BY <1>3, <1>4, <2>1, <2>12, <2>8
    <3>2. /\ L[F[d]].kind = "alter" => Vers(L, t, F[d]) = Vers(L, t, F[c]) + 1
          /\ L[F[d]].kind # "alter" => Vers(L, t, F[d]) = Vers(L, t, F[c])
      BY <1>1, <2>1, <2>12, NextVersion DEF d
    <3>3. /\ M[G[d]].kind = "alter" => Vers(M, t, G[d]) = Vers(M, t, G[c]) + 1
          /\ M[G[d]].kind # "alter" => Vers(M, t, G[d]) = Vers(M, t, G[c])
      BY <1>1, <2>1, <2>12, NextVersion DEF d
    <3> QED
      BY <2>2, <3>1, <3>2, <3>3
  <2> QED
    BY <2>8, <2>9, <2>12 DEF c, d
<1> HIDE DEF T
<1>8. \A k \in 0..up : k \in T
  BY <1>2, <1>6, <1>7, Upwards
<1>9. i - 1 \in T /\ i - 1 \in Nat /\ (i - 1) + 1 = i /\ i \in 1..(up + 1)
  BY <1>2, <1>8
<1> QED
  BY <1>9 DEF T

-----------------------------------------------------------------------------
(* The files, the writers and the statements of all files on disk, those   *)
(* of other runs included: W has the tables with open writers.             *)

Well(L, F, R, t, n, top, W) ==
  /\ Files(L, F, R, t, n, top)
  /\ t \in W => top # Absent
  /\ top # Absent => t \in W \/ Refusal(L, t, n)
  /\ \A i \in DOMAIN F : F[i] \in DOMAIN L /\ Opens(L, t, F[i])

LEMMA WellGoesOn ==
  ASSUME NEW L, NEW F, NEW R, NEW t, NEW n, NEW top, NEW W, FilesType(L, F, R, t, n),
         Well(L, F, R, t, n, top, W), NEW e \in Event
  PROVE  Well(Append(L, e), F, R, t, n, top, W)
<1>1. L \in Seq(Event) /\ n \in 0..Len(L)
  BY DEF FilesType
<1>2. Files(Append(L, e), F, R, t, n, top)
  BY LogGoesOn DEF Well
<1>3. Refusal(L, t, n) => Refusal(Append(L, e), t, n)
  BY <1>1, RefusedLater
<1> DEFINE M == Append(L, e)
<1>4. \A p \in DOMAIN L : p \in DOMAIN M /\ M[p] = L[p]
  BY <1>1
<1> HIDE DEF M
<1>5. \A i \in DOMAIN F : F[i] \in DOMAIN M /\ Opens(M, t, F[i])
  BY <1>4 DEF Well, Opens
<1> QED
  BY <1>2, <1>3, <1>5 DEF Well, M

(* An event that is not about the table, or that is DROP TABLE or unread.  *)
LEMMA WellAside ==
  ASSUME NEW L, NEW F, NEW R, NEW t, NEW n, NEW top, NEW W, FilesType(L, F, R, t, n),
         Well(L, F, R, t, n, top, W), n + 1 \in 1..Len(L),
         \/ ~Touches(L[n + 1], t) \/ L[n + 1] = [kind |-> "dropTable", table |-> t]
         \/ L[n + 1].kind = "unread",
         NEW V, t \in V => t \in W, t \in W => t \in V \/ L[n + 1].kind = "dropDb"
  PROVE  Well(L, F, R, t, n + 1, top, V)
<1>1. n \in Nat /\ n + 1 \in Nat
  BY DEF FilesType
<1>2. Files(L, F, R, t, n + 1, top)
  BY NotAbout DEF Well
<1>3. L[n + 1].table = t => L[n + 1].kind \notin Opening
  BY DEF Touches, Opening
<1>4. Refusal(L, t, n) => Refusal(L, t, n + 1)
  BY <1>1, <1>3, RefusedYet
<1>5. ASSUME L[n + 1].kind = "dropDb" PROVE Refusal(L, t, n + 1)
  <2>1. DbOf[L[n + 1].table] # DbOf[t]
    BY <1>5 DEF Touches
  <2>2. n + 1 \in 1..(n + 1) /\ \A q \in (n + 1)..(n + 1) : q = n + 1
    BY <1>1
  <2>3. "dropDb" \notin Opening
    BY DEF Opening
  <2> QED
    BY <1>5, <2>1, <2>2, <2>3 DEF Refusal
<1> QED
  BY <1>2, <1>4, <1>5 DEF Well

LEMMA WellForgotten ==
  ASSUME NEW L, NEW F, NEW R, NEW t, NEW n, NEW top, NEW W, FilesType(L, F, R, t, n),
         Well(L, F, R, t, n, top, W), n + 1 \in 1..Len(L),
         L[n + 1].kind = "dropDb", Touches(L[n + 1], t)
  PROVE  Well(L, F, R, t, n + 1, Absent, {})
BY Forgotten DEF Well

(* G is F with a file more, or another one, for the statement x.           *)
Longer(F, G, x) ==
  /\ Len(F) <= Len(G)
  /\ \A i \in DOMAIN G : G[i] = x \/ (i \in DOMAIN F /\ G[i] = F[i])

LEMMA OpenedLonger ==
  ASSUME NEW files \in Seq(Nat), NEW k \in 0..Len(files), NEW new \in Nat
  PROVE  Longer(files, Opened(files, k, new), new)
<1>1. CASE k < Len(files)
  BY <1>1 DEF Opened, Longer
<1>2. CASE k = Len(files)
  BY <1>2 DEF Opened, Longer
<1> QED
  BY <1>1, <1>2

LEMMA WellOpened ==
  ASSUME NEW L, NEW F, NEW R, NEW t, NEW n, NEW top, NEW W, FilesType(L, F, R, t, n),
         Well(L, F, R, t, n, top, W), n + 1 \in 1..Len(L), Opens(L, t, n + 1),
         L[n + 1].kind = "create" <=> ~There(L, t, n),
         NEW k, k = top + 1, NEW G, NEW Q, OneMore(F, R, G, Q, k, n + 1), Longer(F, G, n + 1),
         NEW V, t \in V
  PROVE  Well(L, G, Q, t, n + 1, k, V)
<1>1. Files(L, G, Q, t, n + 1, k)
  BY NewFile DEF Well
<1>2. k # Absent
  BY DEF Well, Files, Fits, Absent
<1>3. n + 1 \in DOMAIN L
  BY DEF FilesType
<1>4. \A i \in DOMAIN G : G[i] \in DOMAIN L /\ Opens(L, t, G[i])
  BY <1>3 DEF Longer, Well
<1> QED
  BY <1>1, <1>2, <1>4 DEF Well

LEMMA WellWritten ==
  ASSUME NEW L, NEW F, NEW R, NEW t, NEW n, NEW top, NEW W, FilesType(L, F, R, t, n),
         Well(L, F, R, t, n, top, W), n + 1 \in 1..Len(L), IsRow(L, t, n + 1), There(L, t, n),
         t \in W,
         NEW k, k = top + 1, NEW Q, Len(Q) = Len(R), Q[k] = Append(R[k], n + 1),
         \A i \in 1..k : i # k => Q[i] = R[i]
  PROVE  Well(L, F, Q, t, n + 1, top, W)
<1>1. Files(L, F, Q, t, n + 1, top)
  BY RowWritten DEF Well
<1> QED
  BY <1>1 DEF Well

LEMMA WellRefused ==
  ASSUME NEW L, NEW F, NEW R, NEW t, NEW n, NEW top, NEW W, FilesType(L, F, R, t, n),
         Well(L, F, R, t, n, top, W), n + 1 \in 1..Len(L), IsRow(L, t, n + 1), There(L, t, n),
         t \notin W
  PROVE  Well(L, F, R, t, n + 1, top, W)
<1>1. n \in Nat /\ Refusal(L, t, n)
  BY DEF FilesType, Well, Files, Fits
<1>2. Refusal(L, t, n + 1)
  BY <1>1, RefusedYet DEF IsRow, Opening
<1>3. Files(L, F, R, t, n + 1, top)
  BY <1>1, RowRefused DEF Well
<1> QED
  BY <1>2, <1>3 DEF Well

(* A run begins anew on what is on disk.                                   *)
LEMMA WellAnew ==
  ASSUME NEW L, NEW F \in Seq(Nat), NEW R, NEW t, NEW n, NEW top, NEW W,
         Well(L, F, R, t, n, top, W)
  PROVE  Well(L, F, R, t, 0, Absent, {})
<1>1. Files(L, F, R, t, 0, Absent)
  BY NoneDealt DEF Well, Files, Fits
<1> QED
  BY <1>1 DEF Well

-----------------------------------------------------------------------------
(* Types.                                                                  *)

Splits == {"split", "count", "thrown", "mark"}

MayBe == Nat \cup {Absent}

Intake == [table : Table, source : Source, place : Nat, version : MayBe]

DiskType ==
  /\ log \in [Source -> Seq(Event)] /\ ddl \in [Source -> [Table -> Seq(Nat)]]
  /\ dat \in [Source -> [Table -> Seq(Seq(Nat))]] /\ cnt \in [Source -> [Table -> MayBe]]

SplitType ==
  /\ dealt \in [Source -> Nat] /\ state \in [Source -> [Table -> MayBe]]
  /\ open \in [Source -> SUBSET Table] /\ counted \in [Source -> SUBSET Table]

WorkType ==
  /\ DOMAIN works \subseteq Table
  /\ \A n \in DOMAIN works : works[n].dir \in Table /\ works[n].count \in Int
  /\ current \subseteq Table /\ at \in Nat /\ version \in MayBe
  /\ read \in [Table -> Seq(Intake)]

MainType ==
  /\ stem \in [Table -> Table] /\ source \in Source
  /\ pc \in Splits \cup {"load", "work", "state", "rows", "failed", "done"}

TypeInv == DiskType /\ SplitType /\ WorkType /\ MainType

LEMMA InitType == Init => TypeInv
<1> SUFFICES ASSUME Init PROVE TypeInv
  OBVIOUS
<1>1. DiskType
  <2>1. \A s \in Source : <<>> \in Seq(Event) /\ <<>> \in Seq(Nat) /\ <<>> \in Seq(Seq(Nat))
    OBVIOUS
  <2> QED
    BY <2>1 DEF Init, DiskType, Nothing, MayBe
<1>2. SplitType
  BY DEF Init, SplitType, Nothing, MayBe
<1>3. WorkType
  BY DEF Init, WorkType, MayBe
<1>4. MainType
  BY TwoSourcesAssumption DEF Init, MainType, Source, Splits, TwoSourcesAssumption
<1> QED
  BY <1>1, <1>2, <1>3, <1>4 DEF TypeInv

LEMMA UpdateType ==
  ASSUME TypeInv, NEW t \in Table, NEW place \in Nat, UpdateTableWriter(t, place),
         state[source][t] + 1 <= Len(ddl[source][t]), Len(ddl[source][t]) = Len(dat[source][t])
  PROVE  /\ state' \in [Source -> [Table -> MayBe]] /\ open' \in [Source -> SUBSET Table]
         /\ ddl' \in [Source -> [Table -> Seq(Nat)]]
         /\ dat' \in [Source -> [Table -> Seq(Seq(Nat))]]
         /\ state'[source][t] = state[source][t] + 1 /\ open'[source] = open[source] \cup {t}
         /\ \A s \in Source, u \in Table : s # source \/ u # t =>
              state'[s][u] = state[s][u] /\ ddl'[s][u] = ddl[s][u] /\ dat'[s][u] = dat[s][u]
         /\ \A s \in Source \ {source} : open'[s] = open[s]
         /\ OneMore(ddl[source][t], dat[source][t], ddl'[source][t], dat'[source][t],
                    state[source][t] + 1, place)
         /\ Longer(ddl[source][t], ddl'[source][t], place)
<1>1. /\ ddl \in [Source -> [Table -> Seq(Nat)]] /\ dat \in [Source -> [Table -> Seq(Seq(Nat))]]
      /\ state \in [Source -> [Table -> MayBe]] /\ open \in [Source -> SUBSET Table]
      /\ source \in Source
  BY DEF TypeInv, DiskType, SplitType, MainType
<1>2. state[source][t] + 1 \in Nat
  <2>1. state[source][t] \in Nat \/ state[source][t] = -1
    BY <1>1 DEF MayBe, Absent
  <2> QED
    BY <2>1
<1>3. /\ state' \in [Source -> [Table -> MayBe]] /\ state'[source][t] = state[source][t] + 1
      /\ \A s \in Source, u \in Table : s # source \/ u # t => state'[s][u] = state[s][u]
  <2>1. PICK k \in MayBe : k = state[source][t] + 1
    BY <1>2 DEF MayBe
  <2>2. state' = [state EXCEPT ![source][t] = k]
    BY <2>1, Zenon DEF UpdateTableWriter
  <2> QED
    BY <1>1, <2>1, <2>2
<1>16. /\ open' \in [Source -> SUBSET Table] /\ open'[source] = open[source] \cup {t}
       /\ \A s \in Source \ {source} : open'[s] = open[s]
  <2>1. PICK W \in SUBSET Table : W = open[source] \cup {t}
    BY <1>1
  <2>2. open' = [open EXCEPT ![source] = W]
    BY <2>1 DEF UpdateTableWriter
  <2> QED
    BY <1>1, <2>1, <2>2
<1>4. PICK F \in Seq(Nat) : F = ddl[source][t]
  BY <1>1
<1>5. PICK R \in Seq(Seq(Nat)) : R = dat[source][t]
  BY <1>1
<1>6. PICK k \in 0..Len(F) : k = state[source][t] + 1
  BY <1>2, <1>4
<1>7. PICK none \in Seq(Nat) : none = <<>>
  <2>1. <<>> \in Seq(Nat)
    OBVIOUS
  <2> QED
    BY <2>1
<1>8. Len(F) = Len(R)
  BY <1>4, <1>5
<1>9. /\ Opened(F, k, place) \in Seq(Nat) /\ Opened(R, k, none) \in Seq(Seq(Nat))
      /\ Len(Opened(F, k, place)) = Len(Opened(R, k, none)) /\ k < Len(Opened(F, k, place))
      /\ Opened(F, k, place)[k + 1] = place /\ Opened(R, k, none)[k + 1] = none
      /\ \A i \in 1..k : Opened(F, k, place)[i] = F[i] /\ Opened(R, k, none)[i] = R[i]
  <2>1. k \in 0..Len(R)
    BY <1>8
  <2>2. Opened(F, k, place) \in Seq(Nat)
    BY OpenedFacts
  <2>3. Opened(R, k, none) \in Seq(Seq(Nat))
    BY <2>1, OpenedFacts
  <2>4. Opened(F, k, place)[k + 1] = place
    BY OpenedFacts
  <2>5. Opened(R, k, none)[k + 1] = none
    BY <2>1, OpenedFacts
  <2>6. \A i \in 1..k : Opened(F, k, place)[i] = F[i]
    BY OpenedKeeps
  <2>7. \A i \in 1..k : Opened(R, k, none)[i] = R[i]
    BY <2>1, OpenedKeeps
  <2>8. Len(Opened(F, k, place)) = IF k < Len(F) THEN Len(F) ELSE k + 1
    BY OpenedLen
  <2>9. Len(Opened(R, k, none)) = IF k < Len(R) THEN Len(R) ELSE k + 1
    BY <2>1, OpenedLen
  <2>10. Len(Opened(F, k, place)) = Len(Opened(R, k, none)) /\ k < Len(Opened(F, k, place))
    BY <1>8, <2>8, <2>9
  <2> QED
    BY <2>2, <2>3, <2>4, <2>5, <2>6, <2>7, <2>10
<1>10. /\ ddl' = [ddl EXCEPT ![source][t] = Opened(F, k, place)]
       /\ dat' = [dat EXCEPT ![source][t] = Opened(R, k, none)]
  BY <1>1, <1>3, <1>4, <1>5, <1>6, <1>7 DEF UpdateTableWriter
<1>11. PICK G \in Seq(Nat) : G = Opened(F, k, place)
  BY <1>9
<1>12. PICK Q \in Seq(Seq(Nat)) : Q = Opened(R, k, none)
  BY <1>9
<1>13. ddl' = [ddl EXCEPT ![source][t] = G] /\ dat' = [dat EXCEPT ![source][t] = Q]
  BY <1>10, <1>11, <1>12
<1>14. /\ ddl' \in [Source -> [Table -> Seq(Nat)]] /\ dat' \in [Source -> [Table -> Seq(Seq(Nat))]]
       /\ ddl'[source][t] = G /\ dat'[source][t] = Q
       /\ \A s \in Source, u \in Table : s # source \/ u # t =>
            ddl'[s][u] = ddl[s][u] /\ dat'[s][u] = dat[s][u]
  BY <1>1, <1>13
<1>15. OneMore(F, R, G, Q, k, place)
  BY <1>7, <1>9, <1>11, <1>12 DEF OneMore
<1>17. Longer(F, G, place)
  BY <1>11, OpenedLonger
<1> QED
  BY <1>3, <1>4, <1>5, <1>6, <1>14, <1>15, <1>16, <1>17

-----------------------------------------------------------------------------
(* The files of both sources, at any time: those of the events that the    *)
(* last run dealt with, in the states it came to.                          *)

FilesInv ==
  \A s \in Source, t \in Table :
    Well(log[s], ddl[s][t], dat[s][t], t, dealt[s], state[s][t], open[s])

(* A server has no table twice, and carries nothing out on one it lacks.   *)
LegalAt(L, e, n) ==
  /\ e.kind = "create" => ~There(L, e.table, n)
  /\ e.kind \in {"again", "alter", "fails", "rows", "dropTable"} => There(L, e.table, n)

LegalInv == \A s \in Source : \A p \in DOMAIN log[s] : LegalAt(log[s], log[s][p], p - 1)

Over(s) == pc \notin Splits \/ s < source \/ (s = source /\ pc # "split")

(* A source that is over was dealt with to the end of its log, and source  *)
(* 1 is not begun before source 0 is marked.                               *)
DealtInv ==
  /\ \A s \in Source : dealt[s] <= Len(log[s])
  /\ \A s \in Source : Over(s) => dealt[s] = Len(log[s])
  /\ pc \in Splits /\ source = 0 => dealt[1] = 0 /\ counted[1] = {}

(* Nothing is logged, for the splitter, behind what it throws at.          *)
ThrowsLast(L) == \A p \in DOMAIN L : L[p].kind \in Throwing => p = Len(L)

Unthrown(L, n) == \A p \in 1..n : L[p].kind \notin Throwing

ThrowInv ==
  /\ \A s \in Source : ThrowsLast(log[s])
  /\ pc = "split" => Unthrown(log[source], dealt[source])
  /\ pc = "thrown" => ~Calm(log[source])

Marked(s) == pc \notin Splits \/ s < source \/ (s = source /\ pc = "mark")

(* The counts on disk are of files that are there, and those the last run  *)
(* wrote are of its states: all of them, if it threw no exception.         *)
CountInv ==
  /\ pc = "split" => counted[source] = {}
  /\ \A s \in Source, t \in Table : cnt[s][t] # 0 /\ cnt[s][t] <= Len(ddl[s][t])
  /\ \A s \in Source : \A t \in counted[s] : state[s][t] # Absent /\ cnt[s][t] = state[s][t] + 1
  /\ \A s \in Source :
       Marked(s) /\ Calm(log[s]) => \A t \in Table : state[s][t] # Absent => t \in counted[s]

SplitInv == LegalInv /\ DealtInv /\ ThrowInv /\ CountInv /\ FilesInv

LEMMA SplitTypes ==
  ASSUME TypeInv, DealtInv, NEW s \in Source, NEW t \in Table
  PROVE  FilesType(log[s], ddl[s][t], dat[s][t], t, dealt[s]) /\ state[s][t] \in MayBe
<1>1. /\ log \in [Source -> Seq(Event)] /\ ddl \in [Source -> [Table -> Seq(Nat)]]
      /\ dat \in [Source -> [Table -> Seq(Seq(Nat))]]
      /\ dealt \in [Source -> Nat] /\ state \in [Source -> [Table -> MayBe]]
  BY DEF TypeInv, DiskType, SplitType
<1>2. Len(log[s]) \in Nat /\ dealt[s] \in 0..Len(log[s])
  BY <1>1 DEF DealtInv
<1> QED
  BY <1>1, <1>2 DEF FilesType

LEMMA InitSplit == Init => SplitInv
<1> SUFFICES ASSUME Init PROVE SplitInv
  OBVIOUS
<1>1. /\ log = [s \in Source |-> <<>>] /\ dealt = [s \in Source |-> 0] /\ pc = "split"
      /\ state = [s \in Source |-> Nothing] /\ open = [s \in Source |-> {}] /\ counted = open
      /\ ddl = [s \in Source |-> [t \in Table |-> <<>>]] /\ dat = ddl
      /\ cnt = [s \in Source |-> Nothing] /\ source = 0 /\ Source = {0, 1}
  BY DEF Init, Source
<1>2. LegalInv /\ ThrowInv
  BY <1>1 DEF LegalInv, ThrowInv, ThrowsLast, Unthrown
<1>3. DealtInv
  BY <1>1 DEF DealtInv, Over, Splits
<1>4. CountInv
  BY <1>1 DEF CountInv, Marked, Splits, Nothing, Absent
<1>5. ASSUME NEW s \in Source, NEW t \in Table
      PROVE  Well(log[s], ddl[s][t], dat[s][t], t, dealt[s], state[s][t], open[s])
  <2>1. dealt[s] = 0 /\ state[s][t] = Absent /\ open[s] = {}
    BY <1>1 DEF Nothing
  <2>2. ddl[s][t] = <<>> /\ dat[s][t] = <<>>
    BY <1>1
  <2>3. <<>> \in Seq(Nat) /\ DOMAIN <<>> = {}
    OBVIOUS
  <2>4. Files(log[s], <<>>, <<>>, t, 0, Absent)
    BY <2>3, NoneDealt
  <2> QED
    BY <2>1, <2>2, <2>3, <2>4 DEF Well
<1> QED
  BY <1>2, <1>3, <1>4, <1>5 DEF SplitInv, FilesInv

(* No step after the splitting changes the files.                          *)
LEMMA SplitDone ==
  ASSUME SplitInv, UNCHANGED <<log, dealt, state, open, counted, ddl, dat, cnt>>,
         \/ pc \notin Splits /\ pc' \notin Splits
         \/ UNCHANGED <<pc, source>>
  PROVE  SplitInv'
<1>1. LegalInv' /\ FilesInv'
  BY DEF SplitInv, LegalInv, FilesInv
<1>2. DealtInv'
  BY DEF SplitInv, DealtInv, Over, Splits
<1>3. ThrowInv'
  BY DEF SplitInv, ThrowInv, Splits
<1>4. CountInv'
  BY DEF SplitInv, CountInv, Marked, Splits
<1> QED
  BY <1>1, <1>2, <1>3, <1>4 DEF SplitInv

(* The event that is dealt with, and what the log is then.                 *)
LEMMA DealFacts ==
  ASSUME TypeInv, SplitInv, Deal
  PROVE  \E e \in Event :
           /\ DealWith(e, dealt[source] + 1) /\ LegalAt(log'[source], e, dealt[source])
           /\ dealt[source] \in 0..Len(log'[source]) /\ dealt[source] + 1 \in 1..Len(log'[source])
           /\ log'[source][dealt[source] + 1] = e
           /\ log' \in [Source -> Seq(Event)] /\ \A s \in Source \ {source} : log'[s] = log[s]
           /\ \A t \in Table : Well(log'[source], ddl[source][t], dat[source][t], t,
                                    dealt[source], state[source][t], open[source])
           /\ LegalInv' /\ (\A s \in Source : ThrowsLast(log'[s]))
           /\ Unthrown(log'[source], dealt[source])
<1>1. /\ log \in [Source -> Seq(Event)] /\ source \in Source /\ dealt \in [Source -> Nat]
      /\ dealt[source] <= Len(log[source]) /\ pc = "split"
      /\ source' = source /\ Unthrown(log[source], dealt[source])
      /\ \A s \in Source : ThrowsLast(log[s])
  BY DEF TypeInv, DiskType, MainType, SplitType, Deal, SplitInv, DealtInv, ThrowInv
<1>2. PICK L \in Seq(Event) : L = log[source]
  BY <1>1
<1>7. PICK n \in Nat : n = dealt[source]
  BY <1>1
<1>3. ASSUME NEW t \in Table
      PROVE  Well(L, ddl[source][t], dat[source][t], t, n, state[source][t], open[source])
             /\ FilesType(L, ddl[source][t], dat[source][t], t, n)
  BY <1>1, <1>2, <1>7, SplitTypes DEF SplitInv, FilesInv
<1>4. CASE n + 1 <= Len(log[source]) /\ UNCHANGED log /\ DealWith(log'[source][n + 1], n + 1)
  <2>1. n + 1 \in 1..Len(L) /\ n \in 0..Len(L) /\ L[n + 1] \in Event
    BY <1>1, <1>2, <1>4
  <2>2. LegalAt(L, L[n + 1], n + 1 - 1)
    BY <1>1, <1>2, <2>1 DEF SplitInv, LegalInv
  <2>3. n + 1 - 1 = n
    BY <1>1
  <2>4. LegalInv'
    BY <1>4 DEF SplitInv, LegalInv
  <2> QED
    BY <1>1, <1>2, <1>3, <1>4, <1>7, <2>1, <2>2, <2>3, <2>4
<1>5. ASSUME n = Len(log[source]), NEW e \in Event, Legal(e), DealWith(log'[source][n + 1], n + 1),
             log' = [log EXCEPT ![source] = Append(@, e)]
      PROVE  /\ DealWith(e, n + 1) /\ LegalAt(log'[source], e, n)
             /\ n \in 0..Len(log'[source]) /\ n + 1 \in 1..Len(log'[source])
             /\ log'[source][n + 1] = e
             /\ log' \in [Source -> Seq(Event)] /\ \A s \in Source \ {source} : log'[s] = log[s]
             /\ \A t \in Table : Well(log'[source], ddl[source][t], dat[source][t], t,
                                      n, state[source][t], open[source])
             /\ LegalInv' /\ (\A s \in Source : ThrowsLast(log'[s]))
             /\ Unthrown(log'[source], n)
  <2>0. Append(L, e) \in Seq(Event)
    BY <1>2
  <2>1. PICK M \in Seq(Event) : M = Append(L, e)
    BY <2>0
  <2>2. /\ log' \in [Source -> Seq(Event)] /\ log'[source] = M
        /\ \A s \in Source \ {source} : log'[s] = log[s]
    BY <1>1, <1>2, <1>5, <2>1
  <2>3. /\ Len(M) = Len(L) + 1 /\ n = Len(L) /\ Len(L) \in Nat /\ M[n + 1] = e
        /\ n \in 0..Len(M) /\ n + 1 \in 1..Len(M) /\ \A p \in 1..Len(L) : M[p] = L[p]
    BY <1>1, <1>2, <1>5, <2>1
  <2>4. ASSUME NEW t \in Table
        PROVE  Well(M, ddl[source][t], dat[source][t], t, n, state[source][t], open[source])
    <3>1. PICK F : F = ddl[source][t]
      OBVIOUS
    <3>2. PICK R : R = dat[source][t]
      OBVIOUS
    <3>3. PICK top : top = state[source][t]
      OBVIOUS
    <3>4. PICK W : W = open[source]
      OBVIOUS
    <3>5. Well(L, F, R, t, n, top, W) /\ FilesType(L, F, R, t, n)
      BY <1>3, <3>1, <3>2, <3>3, <3>4
    <3>6. Well(Append(L, e), F, R, t, n, top, W)
      BY <3>5, WellGoesOn
    <3> QED
      BY <2>1, <3>1, <3>2, <3>3, <3>4, <3>6
  <2>5. LegalAt(M, e, n)
    <3>1. e.table \in Table
      BY DEF Event
    <3>2. Exists(source, e.table, n) = There(L, e.table, n)
      BY <1>1, <1>2, <3>1, OfTheLog
    <3>3. There(M, e.table, n) <=> There(L, e.table, n)
      BY <2>1, <2>3, StartLater
    <3>4. /\ e.kind = "create" => ~Exists(source, e.table, n)
          /\ e.kind \in {"again", "alter", "fails", "rows", "dropTable"} => Exists(source, e.table, n)
      BY <1>5 DEF Legal
    <3> QED
      BY <3>2, <3>3, <3>4 DEF LegalAt
  <2>6. LegalInv'
    <3>1. ASSUME NEW s \in Source, NEW p \in DOMAIN log'[s]
          PROVE  LegalAt(log'[s], log'[s][p], p - 1)
      <4>1. CASE s # source
        BY <2>2, <3>1, <4>1 DEF SplitInv, LegalInv
      <4>2. CASE s = source /\ p = n + 1
        BY <2>2, <2>3, <2>5, <4>2
      <4>3. CASE s = source /\ p # n + 1
        <5>1. p \in 1..Len(L) /\ M[p] = L[p] /\ L[p] \in Event
          BY <1>2, <2>2, <2>3, <3>1, <4>3
        <5>2. LegalAt(L, L[p], p - 1)
          BY <1>1, <1>2, <5>1 DEF SplitInv, LegalInv
        <5>3. p - 1 \in 0..Len(L)
          BY <5>1, <2>3
        <5>4. PICK u : u = L[p].table
          OBVIOUS
        <5>5. There(M, u, p - 1) <=> There(L, u, p - 1)
          BY <2>1, <5>3, StartLater
        <5>6. LegalAt(M, M[p], p - 1)
          BY <5>1, <5>2, <5>4, <5>5 DEF LegalAt
        <5> QED
          BY <2>2, <4>3, <5>6
      <4> QED
        BY <4>1, <4>2, <4>3
    <3> QED
      BY <3>1 DEF LegalInv
  <2>7. Unthrown(L, n) /\ Unthrown(M, n)
    BY <1>1, <1>2, <1>7, <2>3 DEF Unthrown
  <2>8. ThrowsLast(M)
    <3>1. \A p \in DOMAIN M : p \in 1..n \/ p = Len(M)
      BY <2>3
    <3> QED
      BY <2>7, <3>1 DEF ThrowsLast, Unthrown
  <2>9. \A s \in Source : ThrowsLast(log'[s])
    BY <1>1, <2>2, <2>8
  <2>10. DealWith(e, n + 1)
    BY <1>5, <2>2, <2>3
  <2> QED
    BY <2>2, <2>3, <2>4, <2>5, <2>6, <2>7, <2>9, <2>10
<1>6. CASE n + 1 = Len(log[source]) + 1 /\ DealWith(log'[source][n + 1], n + 1)
           /\ \E e \in [kind : Kind, table : Table] :
                Legal(e) /\ log' = [log EXCEPT ![source] = Append(@, e)]
  <2>1. PICK e \in Event : Legal(e) /\ log' = [log EXCEPT ![source] = Append(@, e)]
    BY <1>6 DEF Event
  <2>2. n = Len(log[source])
    BY <1>2, <1>6
  <2> QED
    BY <1>5, <1>6, <1>7, <2>1, <2>2
<1> QED
  BY <1>4, <1>6, <1>7 DEF Deal

(* What is to be shown of an event, table by table.                        *)
LEMMA Assembled ==
  ASSUME TypeInv, SplitInv, Deal, LegalInv', NEW n, n = dealt[source],
         NEW L \in Seq(Event), L = log'[source], n + 1 \in 1..Len(L),
         \A s \in Source : ThrowsLast(log'[s]), Unthrown(L, n),
         log' \in [Source -> Seq(Event)], \A s \in Source \ {source} : log'[s] = log[s],
         state' \in [Source -> [Table -> MayBe]], open' \in [Source -> SUBSET Table],
         ddl' \in [Source -> [Table -> Seq(Nat)]], dat' \in [Source -> [Table -> Seq(Seq(Nat))]],
         \A s \in Source \ {source}, t \in Table :
           state'[s][t] = state[s][t] /\ ddl'[s][t] = ddl[s][t] /\ dat'[s][t] = dat[s][t],
         \A s \in Source \ {source} : open'[s] = open[s],
         \A t \in Table : Len(ddl[source][t]) <= Len(ddl'[source][t]),
         \A t \in Table : Well(L, ddl'[source][t], dat'[source][t], t, n + 1,
                               state'[source][t], open'[source])
  PROVE  DiskType' /\ SplitType' /\ SplitInv'
<1>1. /\ source \in Source /\ Source = {0, 1} /\ dealt \in [Source -> Nat]
      /\ cnt \in [Source -> [Table -> MayBe]] /\ counted \in [Source -> SUBSET Table]
      /\ ddl \in [Source -> [Table -> Seq(Nat)]]
      /\ pc = "split" /\ source' = source /\ cnt' = cnt /\ counted' = counted
      /\ dealt' = [dealt EXCEPT ![source] = n + 1] /\ n \in Nat
      /\ pc' = IF L[n + 1].kind \in Throwing THEN "thrown" ELSE "split"
  BY DEF TypeInv, DiskType, MainType, SplitType, Deal, Source
<1>2. dealt' \in [Source -> Nat] /\ dealt'[source] = n + 1 /\ \A s \in Source \ {source} : dealt'[s] = dealt[s]
  BY <1>1
<1>3. DiskType' /\ SplitType'
  BY <1>1, <1>2 DEF DiskType, SplitType
<1>4. pc' = "thrown" => n + 1 = Len(L)
  BY <1>1 DEF ThrowsLast
<1>5. DealtInv'
  <2>1. \A s \in Source : dealt'[s] <= Len(log'[s])
    BY <1>1, <1>2 DEF SplitInv, DealtInv
  <2>2. ASSUME NEW s \in Source, Over(s)' PROVE dealt'[s] = Len(log'[s])
    <3>1. CASE s = source
      BY <1>1, <1>2, <1>4, <2>2, <3>1 DEF Over, Splits
    <3>2. CASE s # source
      <4>1. Over(s)
        BY <1>1, <2>2, <3>2 DEF Over, Splits
      <4> QED
        BY <1>2, <3>2, <4>1 DEF SplitInv, DealtInv
    <3> QED
      BY <3>1, <3>2
  <2>3. source = 0 => dealt'[1] = 0 /\ counted'[1] = {}
    BY <1>1, <1>2 DEF SplitInv, DealtInv, Splits
  <2> QED
    BY <1>1, <2>1, <2>2, <2>3 DEF DealtInv
<1>6. ThrowInv'
  <2>1. pc' = "split" => Unthrown(L, n + 1)
    <3>1. \A p \in 1..(n + 1) : p \in 1..n \/ p = n + 1
      BY <1>1
    <3> QED
      BY <1>1, <3>1 DEF Unthrown
  <2>2. pc' = "thrown" => ~Calm(L)
    BY <1>1 DEF Calm
  <2> QED
    BY <1>1, <1>2, <2>1, <2>2 DEF ThrowInv
<1>7. CountInv'
  <2>1. counted'[source] = {}
    BY <1>1 DEF SplitInv, CountInv
  <2>5. \A s \in Source, t \in Table : cnt[s][t] # 0 /\ cnt[s][t] <= Len(ddl[s][t])
    BY DEF SplitInv, CountInv
  <2>2. ASSUME NEW s \in Source, NEW t \in Table PROVE cnt'[s][t] # 0 /\ cnt'[s][t] <= Len(ddl'[s][t])
    <3>1. cnt'[s][t] # 0 /\ cnt'[s][t] <= Len(ddl[s][t])
      BY <1>1, <2>5
    <3>4. ddl'[s][t] \in Seq(Nat) /\ ddl[s][t] \in Seq(Nat) /\ cnt'[s][t] \in MayBe
      BY <1>1
    <3>5. CASE s = source
      <4>1. Len(ddl[s][t]) <= Len(ddl'[s][t])
        BY <3>5
      <4>2. cnt'[s][t] \in Int /\ Len(ddl[s][t]) \in Nat /\ Len(ddl'[s][t]) \in Nat
        BY <3>4 DEF MayBe, Absent
      <4> QED
        BY <3>1, <4>1, <4>2
    <3>6. CASE s # source
      <4>1. ddl'[s][t] = ddl[s][t]
        BY <3>6
      <4> QED
        BY <3>1, <4>1
    <3> QED
      BY <3>5, <3>6
  <2>3. ASSUME NEW s \in Source, NEW t \in counted'[s]
        PROVE  state'[s][t] # Absent /\ cnt'[s][t] = state'[s][t] + 1
    <3>1. s # source /\ t \in counted[s] /\ t \in Table
      BY <1>1, <2>1, <2>3
    <3>2. state[s][t] # Absent /\ cnt[s][t] = state[s][t] + 1
      BY <3>1 DEF SplitInv, CountInv
    <3>3. state'[s][t] = state[s][t] /\ cnt' = cnt
      BY <1>1, <3>1
    <3> QED
      BY <3>2, <3>3
  <2>4. ASSUME NEW s \in Source, Marked(s)', Calm(log'[s]), NEW t \in Table, state'[s][t] # Absent
        PROVE  t \in counted'[s]
    <3>1. s # source /\ Marked(s)
      BY <1>1, <2>4 DEF Marked, Splits
    <3>2. log'[s] = log[s] /\ state'[s][t] = state[s][t] /\ counted'[s] = counted[s]
      BY <1>1, <3>1
    <3> QED
      BY <2>4, <3>1, <3>2 DEF SplitInv, CountInv
  <2> QED
    BY <1>1, <2>1, <2>2, <2>3, <2>4 DEF CountInv
<1>8. FilesInv'
  <2>1. ASSUME NEW s \in Source, NEW t \in Table
        PROVE  Well(log'[s], ddl'[s][t], dat'[s][t], t, dealt'[s], state'[s][t], open'[s])
    <3>1. CASE s = source
      BY <1>2, <3>1
    <3>2. CASE s # source
      <4>1. Well(log[s], ddl[s][t], dat[s][t], t, dealt[s], state[s][t], open[s])
        BY DEF SplitInv, FilesInv
      <4>2. /\ log'[s] = log[s] /\ ddl'[s][t] = ddl[s][t] /\ dat'[s][t] = dat[s][t]
            /\ dealt'[s] = dealt[s] /\ state'[s][t] = state[s][t] /\ open'[s] = open[s]
        BY <1>2, <3>2
      <4> QED
        BY <4>1, <4>2
    <3> QED
      BY <3>1, <3>2
  <2> QED
    BY <2>1 DEF FilesInv
<1> QED
  BY <1>3, <1>5, <1>6, <1>7, <1>8 DEF SplitInv

LEMMA DealSafe ==
  ASSUME TypeInv, SplitInv, Deal
  PROVE  DiskType' /\ SplitType' /\ SplitInv'
<1>1. PICK e \in Event :
        /\ DealWith(e, dealt[source] + 1) /\ LegalAt(log'[source], e, dealt[source])
        /\ dealt[source] \in 0..Len(log'[source]) /\ dealt[source] + 1 \in 1..Len(log'[source])
        /\ log'[source][dealt[source] + 1] = e
        /\ log' \in [Source -> Seq(Event)] /\ \A s \in Source \ {source} : log'[s] = log[s]
        /\ \A t \in Table : Well(log'[source], ddl[source][t], dat[source][t], t,
                                 dealt[source], state[source][t], open[source])
        /\ LegalInv' /\ (\A s \in Source : ThrowsLast(log'[s]))
        /\ Unthrown(log'[source], dealt[source])
  BY DealFacts
<1>2. PICK L \in Seq(Event) : L = log'[source]
  BY <1>1 DEF TypeInv, MainType
<1>3. /\ source \in Source /\ dealt \in [Source -> Nat] /\ state \in [Source -> [Table -> MayBe]]
      /\ open \in [Source -> SUBSET Table] /\ e.table \in Table
      /\ ddl \in [Source -> [Table -> Seq(Nat)]] /\ dat \in [Source -> [Table -> Seq(Seq(Nat))]]
  BY DEF TypeInv, DiskType, MainType, SplitType, Event
<1>4. PICK n \in 0..Len(L) : n = dealt[source]
  BY <1>1, <1>2
<1>14. PICK W \in SUBSET Table : W = open[source]
  BY <1>3
<1>5. /\ n + 1 \in 1..Len(L) /\ L[n + 1] = e /\ LegalAt(L, e, n) /\ DealWith(e, n + 1)
      /\ \A t \in Table : /\ FilesType(L, ddl[source][t], dat[source][t], t, n)
                          /\ Well(L, ddl[source][t], dat[source][t], t, n, state[source][t], W)
  BY <1>1, <1>2, <1>3, <1>4, <1>14 DEF FilesType
<1>15. \A t \in Table : Len(ddl[source][t]) \in Nat
  BY <1>3
(* A table the event leaves alone.                                         *)
<1>6. ASSUME NEW t \in Table, \/ ~Touches(e, t) \/ e = [kind |-> "dropTable", table |-> t]
                              \/ e.kind = "unread",
             NEW V, t \in V => t \in W, t \in W => t \in V \/ e.kind = "dropDb"
      PROVE  Well(L, ddl[source][t], dat[source][t], t, n + 1, state[source][t], V)
  <2>1. PICK F : F = ddl[source][t]
    OBVIOUS
  <2>2. PICK R : R = dat[source][t]
    OBVIOUS
  <2>3. PICK top : top = state[source][t]
    OBVIOUS
  <2>4. FilesType(L, F, R, t, n) /\ Well(L, F, R, t, n, top, W)
    BY <1>5, <2>1, <2>2, <2>3
  <2>5. Well(L, F, R, t, n + 1, top, V)
    BY <1>5, <1>6, <2>4, WellAside
  <2> QED
    BY <2>1, <2>2, <2>3, <2>5
<1>7. CASE e.kind \in Opening /\ UpdateTableWriter(e.table, n + 1)
  <2>1. PICK t \in Table : t = e.table
    BY <1>3
  <2>2. PICK F \in Seq(Nat) : F = ddl[source][t]
    BY <1>3
  <2>3. PICK R \in Seq(Seq(Nat)) : R = dat[source][t]
    BY <1>3
  <2>4. PICK top : top = state[source][t]
    OBVIOUS
  <2>5. FilesType(L, F, R, t, n) /\ Well(L, F, R, t, n, top, W)
    BY <1>5, <2>2, <2>3, <2>4
  <2>6. Len(F) = Len(R) /\ top \in Nat \cup {Absent} /\ top < Len(F)
    BY <2>5 DEF Well, Files, Fits
  <2>7. top + 1 <= Len(F)
    BY <2>2, <2>6 DEF Absent
  <2>8. n + 1 \in Nat
    BY <1>3, <1>4
  <2>9. /\ state' \in [Source -> [Table -> MayBe]] /\ open' \in [Source -> SUBSET Table]
        /\ ddl' \in [Source -> [Table -> Seq(Nat)]]
        /\ dat' \in [Source -> [Table -> Seq(Seq(Nat))]]
        /\ state'[source][t] = state[source][t] + 1 /\ open'[source] = open[source] \cup {t}
        /\ \A s \in Source, u \in Table : s # source \/ u # t =>
              state'[s][u] = state[s][u] /\ ddl'[s][u] = ddl[s][u] /\ dat'[s][u] = dat[s][u]
        /\ \A s \in Source \ {source} : open'[s] = open[s]
        /\ OneMore(ddl[source][t], dat[source][t], ddl'[source][t], dat'[source][t],
                    state[source][t] + 1, n + 1)
        /\ Longer(ddl[source][t], ddl'[source][t], n + 1)
    BY <1>3, <1>7, <2>1, <2>2, <2>3, <2>4, <2>6, <2>7, <2>8, UpdateType
  <2>10. Well(L, ddl'[source][t], dat'[source][t], t, n + 1, state'[source][t], open'[source])
    <3>1. PICK G : G = ddl'[source][t]
      OBVIOUS
    <3>2. PICK Q : Q = dat'[source][t]
      OBVIOUS
    <3>3. PICK k : k = top + 1
      OBVIOUS
    <3>4. OneMore(F, R, G, Q, k, n + 1) /\ Longer(F, G, n + 1)
      BY <2>2, <2>3, <2>4, <2>9, <3>1, <3>2, <3>3
    <3>5. Opens(L, t, n + 1)
      BY <1>5, <1>7, <2>1 DEF Opens
    <3>6. L[n + 1].kind = "create" <=> ~There(L, t, n)
      BY <1>5, <1>7, <2>1 DEF LegalAt, Opening
    <3>8. PICK V : V = open'[source]
      OBVIOUS
    <3>9. t \in V
      BY <2>9, <3>8
    <3>7. Well(L, G, Q, t, n + 1, k, V)
      BY <1>5, <2>5, <3>3, <3>4, <3>5, <3>6, <3>9, WellOpened
    <3> QED
      BY <2>4, <2>9, <3>1, <3>2, <3>3, <3>7, <3>8
  <2>11. ASSUME NEW u \in Table, u # t
         PROVE  Well(L, ddl'[source][u], dat'[source][u], u, n + 1, state'[source][u], open'[source])
    <3>1. ~Touches(e, u)
      BY <1>7, <2>1, <2>11 DEF Touches, Opening
    <3>2. /\ ddl'[source][u] = ddl[source][u] /\ dat'[source][u] = dat[source][u]
          /\ state'[source][u] = state[source][u]
      BY <1>3, <2>9, <2>11
    <3>3. PICK V : V = open'[source]
      OBVIOUS
    <3>4. u \in V <=> u \in W
      BY <1>14, <2>9, <2>11, <3>3
    <3> QED
      BY <1>6, <3>1, <3>2, <3>3, <3>4
  <2>12. ASSUME NEW u \in Table PROVE Len(ddl[source][u]) <= Len(ddl'[source][u])
    <3>1. CASE u = t
      BY <2>9, <3>1 DEF Longer
    <3>2. CASE u # t
      BY <1>3, <1>15, <2>9, <3>2
    <3> QED
      BY <3>1, <3>2
  <2>13. \A u \in Table :
           Well(L, ddl'[source][u], dat'[source][u], u, n + 1, state'[source][u], open'[source])
    BY <2>10, <2>11
  <2>14. \A s \in Source \ {source} : open'[s] = open[s]
    BY <1>3, <2>9
  <2>15. \A s \in Source \ {source}, u \in Table :
           state'[s][u] = state[s][u] /\ ddl'[s][u] = ddl[s][u] /\ dat'[s][u] = dat[s][u]
    BY <1>3, <2>9
  <2> QED
    BY <1>1, <1>2, <1>4, <1>5, <2>9, <2>12, <2>13, <2>14, <2>15, Assembled
<1>8. CASE e.kind = "dropDb" /\ Forget(DbOf[e.table])
  <2>1. /\ state' = [state EXCEPT ![source] =
                       [t \in Table |-> IF DbOf[t] = DbOf[e.table] THEN Absent ELSE state[source][t]]]
        /\ open' = [open EXCEPT ![source] = {}] /\ ddl' = ddl /\ dat' = dat
    BY <1>8 DEF Forget, StateDropped
  <2>2. /\ state' \in [Source -> [Table -> MayBe]]
        /\ \A t \in Table :
             state'[source][t] = IF DbOf[t] = DbOf[e.table] THEN Absent ELSE state[source][t]
        /\ \A s \in Source \ {source} : state'[s] = state[s]
    <3>1. PICK new : new = [t \in Table |-> IF DbOf[t] = DbOf[e.table] THEN Absent
                                            ELSE state[source][t]]
      OBVIOUS
    <3>2. /\ new \in [Table -> MayBe]
          /\ \A t \in Table : new[t] = IF DbOf[t] = DbOf[e.table] THEN Absent ELSE state[source][t]
      BY <1>3, <3>1 DEF MayBe
    <3>3. state' = [state EXCEPT ![source] = new]
      BY <2>1, <3>1
    <3> QED
      BY <1>3, <3>2, <3>3
  <2>4. /\ open' \in [Source -> SUBSET Table] /\ open'[source] = {}
        /\ \A s \in Source \ {source} : open'[s] = open[s]
    BY <1>3, <2>1
  <2>3. ASSUME NEW t \in Table
        PROVE  Well(L, ddl'[source][t], dat'[source][t], t, n + 1, state'[source][t], open'[source])
    <3>1. CASE DbOf[t] = DbOf[e.table]
      <4>1. Touches(e, t) /\ state'[source][t] = Absent
        BY <1>8, <2>2, <3>1 DEF Touches
      <4>2. PICK F : F = ddl[source][t]
        OBVIOUS
      <4>3. PICK R : R = dat[source][t]
        OBVIOUS
      <4>4. PICK top : top = state[source][t]
        OBVIOUS
      <4>5. FilesType(L, F, R, t, n) /\ Well(L, F, R, t, n, top, W)
        BY <1>5, <4>2, <4>3, <4>4
      <4>6. Well(L, F, R, t, n + 1, Absent, {})
        BY <1>5, <1>8, <4>1, <4>5, WellForgotten
      <4> QED
        BY <2>1, <2>4, <4>1, <4>2, <4>3, <4>6
    <3>2. CASE DbOf[t] # DbOf[e.table]
      <4>1. ~Touches(e, t) /\ state'[source][t] = state[source][t]
        BY <1>8, <2>2, <3>2 DEF Touches
      <4>2. PICK V : V = {}
        OBVIOUS
      <4>3. Well(L, ddl[source][t], dat[source][t], t, n + 1, state[source][t], V)
        BY <1>6, <1>8, <4>1, <4>2
      <4> QED
        BY <2>1, <2>4, <4>1, <4>2, <4>3
    <3> QED
      BY <3>1, <3>2
  <2>5. \A t \in Table : Len(ddl[source][t]) <= Len(ddl'[source][t])
    BY <1>15, <2>1
  <2> QED
    BY <1>1, <1>2, <1>3, <1>4, <1>5, <2>1, <2>2, <2>3, <2>4, <2>5, Assembled
<1>9. CASE e.kind \in {"dropTable", "unread"} /\ UNCHANGED <<state, open, ddl, dat>>
  <2>1. ASSUME NEW t \in Table
        PROVE  Well(L, ddl'[source][t], dat'[source][t], t, n + 1, state'[source][t], open'[source])
    <3>1. e.kind = "dropTable" /\ t # e.table => ~Touches(e, t)
      BY <1>9 DEF Touches
    <3>2. e.kind = "dropTable" /\ t = e.table => e = [kind |-> "dropTable", table |-> t]
      BY <1>9 DEF Event
    <3>3. Well(L, ddl[source][t], dat[source][t], t, n + 1, state[source][t], W)
      BY <1>6, <1>9, <3>1, <3>2
    <3> QED
      BY <1>9, <1>14, <3>3
  <2>2. \A t \in Table : Len(ddl[source][t]) <= Len(ddl'[source][t])
    BY <1>9, <1>15
  <2> QED
    BY <1>1, <1>2, <1>3, <1>4, <1>5, <1>9, <2>1, <2>2, Assembled
<1>10. CASE e.kind = "rows" /\ WriteRow(e.table, n + 1)
  <2>1. PICK t \in Table : t = e.table
    BY <1>3
  <2>2. PICK F \in Seq(Nat) : F = ddl[source][t]
    BY <1>3
  <2>3. PICK R \in Seq(Seq(Nat)) : R = dat[source][t]
    BY <1>3
  <2>4. PICK top : top = state[source][t]
    OBVIOUS
  <2>5. FilesType(L, F, R, t, n) /\ Well(L, F, R, t, n, top, W)
    BY <1>5, <2>2, <2>3, <2>4
  <2>6. There(L, t, n) /\ IsRow(L, t, n + 1)
    BY <1>5, <1>10, <2>1 DEF LegalAt, IsRow, Event
  <2>7. Len(F) = Len(R) /\ top \in Nat /\ top < Len(F)
    BY <2>5, <2>6 DEF Well, Files, Fits
  <2>19. UNCHANGED <<state, open, ddl>>
    BY <1>10 DEF WriteRow
  <2>20. \A u \in Table : Len(ddl[source][u]) <= Len(ddl'[source][u])
    BY <1>15, <2>19
  <2>21. ASSUME NEW u \in Table, u # t
         PROVE  Well(L, ddl[source][u], dat[source][u], u, n + 1, state[source][u], W)
    <3>1. ~Touches(e, u)
      BY <1>10, <2>1, <2>21 DEF Touches
    <3> QED
      BY <1>6, <3>1
  <2>22. CASE t \notin W
    <3>1. dat' = dat
      BY <1>10, <1>14, <2>1, <2>22 DEF WriteRow
    <3>2. Well(L, F, R, t, n + 1, top, W)
      BY <1>5, <2>5, <2>6, <2>22, WellRefused
    <3>3. \A u \in Table :
            Well(L, ddl'[source][u], dat'[source][u], u, n + 1, state'[source][u], open'[source])
      BY <1>14, <2>2, <2>3, <2>4, <2>19, <2>21, <3>1, <3>2
    <3> QED
      BY <1>1, <1>2, <1>3, <1>4, <1>5, <2>19, <2>20, <3>1, <3>3, Assembled
  <2>23. CASE t \in W
    <3>8. PICK k \in 1..Len(R) : k = top + 1
      BY <2>2, <2>7
    <3>9. R[k] \in Seq(Nat) /\ n + 1 \in Nat
      BY <1>3, <1>4, <2>3, <3>8
    <3>10. Append(R[k], n + 1) \in Seq(Nat)
      BY <3>9
    <3>11. PICK new \in Seq(Nat) : new = Append(R[k], n + 1)
      BY <3>10
    <3>12. [R EXCEPT ![k] = new] \in Seq(Seq(Nat))
      BY <2>3, <3>8
    <3>13. PICK Q : Q = [R EXCEPT ![k] = new]
      OBVIOUS
    <3>14. dat' = [dat EXCEPT ![source][t] = Q]
      <4>1. state[source][e.table] + 1 = k
        BY <2>1, <2>4, <3>8
      <4>5. dat' = [dat EXCEPT ![source][e.table][state[source][e.table] + 1] = Append(@, n + 1)]
        BY <1>10, <1>14, <2>1, <2>23 DEF WriteRow
      <4>2. dat' = [dat EXCEPT ![source][t][k] = Append(@, n + 1)]
        BY <2>1, <4>1, <4>5, Zenon
      <4>3. Append(dat[source][t][k], n + 1) = new
        BY <2>3, <3>11
      <4>4. dat' = [dat EXCEPT ![source][t] = [dat[source][t] EXCEPT ![k] = new]]
        BY <4>2, <4>3, Zenon
      <4> QED
        BY <2>3, <3>13, <4>4, Zenon
    <3>18. Q \in Seq(Seq(Nat))
      BY <3>12, <3>13, Zenon
    <3>15. /\ dat' \in [Source -> [Table -> Seq(Seq(Nat))]] /\ dat'[source][t] = Q
           /\ \A u \in Table \ {t} : dat'[source][u] = dat[source][u]
           /\ \A s \in Source \ {source} : dat'[s] = dat[s]
      BY <1>3, <3>14, <3>18
    <3>16. Well(L, F, Q, t, n + 1, top, W)
      <4>1. Len(Q) = Len(R) /\ Q[k] = Append(R[k], n + 1)
        <5>1. Q[k] = new
          BY <2>3, <3>8, <3>13
        <5>2. Len(Q) = Len(R)
          BY <2>3, <3>8, <3>13
        <5> QED
          BY <3>11, <5>1, <5>2
      <4>2. \A i \in 1..k : i # k => Q[i] = R[i]
        BY <2>3, <3>8, <3>13
      <4> QED
        BY <1>5, <2>5, <2>6, <2>23, <3>8, <4>1, <4>2, WellWritten
    <3>17. ASSUME NEW u \in Table
           PROVE  Well(L, ddl'[source][u], dat'[source][u], u, n + 1, state'[source][u], open'[source])
      <4>1. CASE u = t
        BY <1>14, <2>2, <2>4, <2>19, <3>15, <3>16, <4>1
      <4>2. CASE u # t
        BY <1>14, <2>19, <2>21, <3>15, <4>2
      <4> QED
        BY <4>1, <4>2
    <3>19. \A s \in Source \ {source}, u \in Table :
             state'[s][u] = state[s][u] /\ ddl'[s][u] = ddl[s][u] /\ dat'[s][u] = dat[s][u]
      BY <2>19, <3>15
    <3> QED
      BY <1>1, <1>2, <1>3, <1>4, <1>5, <2>19, <2>20, <3>15, <3>17, <3>19, Assembled
  <2> QED
    BY <2>22, <2>23
<1> QED
  BY <1>5, <1>7, <1>8, <1>9, <1>10 DEF DealWith

(* The steps that only change where the splitting is.                      *)
LEMMA MovedOn ==
  ASSUME TypeInv, SplitInv, UNCHANGED splitting
  PROVE  DiskType' /\ SplitType' /\ LegalInv' /\ FilesInv'
BY DEF TypeInv, DiskType, SplitType, SplitInv, LegalInv, FilesInv, splitting, splitter

LEMMA EndOfLogSafe ==
  ASSUME TypeInv, SplitInv, EndOfLog
  PROVE  DiskType' /\ SplitType' /\ SplitInv'
<1>1. /\ pc = "split" /\ pc' = "count" /\ source' = source /\ dealt[source] = Len(log[source])
      /\ UNCHANGED splitting /\ UNCHANGED <<log, dealt, state, open, counted, ddl, dat, cnt>>
  BY DEF EndOfLog, splitting, splitter
<1>2. DealtInv'
  BY <1>1 DEF SplitInv, DealtInv, Over, Splits
<1>3. ThrowInv'
  BY <1>1 DEF SplitInv, ThrowInv
<1>4. CountInv'
  BY <1>1 DEF SplitInv, CountInv, Marked, Splits
<1> QED
  BY <1>1, <1>2, <1>3, <1>4, MovedOn DEF SplitInv

LEMMA CountTableSafe ==
  ASSUME TypeInv, SplitInv, NEW t \in Table, CountTable(t)
  PROVE  DiskType' /\ SplitType' /\ SplitInv'
<1>1. /\ pc = "count" /\ pc' = pc /\ source' = source /\ state[source][t] # Absent
      /\ cnt' = [cnt EXCEPT ![source][t] = state[source][t] + 1]
      /\ counted' = [counted EXCEPT ![source] = @ \cup {t}]
      /\ UNCHANGED <<log, dealt, state, open, ddl, dat>>
  BY DEF CountTable, Kept, Counted
<1>2. /\ cnt \in [Source -> [Table -> MayBe]] /\ counted \in [Source -> SUBSET Table]
      /\ source \in Source /\ state[source][t] \in MayBe /\ Source = {0, 1}
  BY DEF TypeInv, DiskType, SplitType, MainType, Source
<1>3. state[source][t] < Len(ddl[source][t])
  BY <1>2 DEF SplitInv, FilesInv, Well, Files, Fits
<1>4. PICK k \in Nat \ {0} : k = state[source][t] + 1
  <2>1. state[source][t] \in Nat
    BY <1>1, <1>2 DEF MayBe
  <2> QED
    BY <2>1
<1>5. /\ cnt' \in [Source -> [Table -> MayBe]] /\ cnt'[source][t] = k
      /\ \A s \in Source, u \in Table : s # source \/ u # t => cnt'[s][u] = cnt[s][u]
  <2>1. cnt' = [cnt EXCEPT ![source][t] = k]
    BY <1>1, <1>4
  <2> QED
    BY <1>2, <2>1 DEF MayBe
<1>6. /\ counted' \in [Source -> SUBSET Table] /\ counted'[source] = counted[source] \cup {t}
      /\ \A s \in Source \ {source} : counted'[s] = counted[s]
  <2>1. PICK new \in SUBSET Table : new = counted[source] \cup {t}
    BY <1>2
  <2>2. counted' = [counted EXCEPT ![source] = new]
    BY <1>1, <2>1
  <2> QED
    BY <1>2, <2>1, <2>2
<1>7. DiskType' /\ SplitType'
  BY <1>1, <1>5, <1>6 DEF TypeInv, DiskType, SplitType
<1>8. LegalInv' /\ FilesInv' /\ ThrowInv'
  BY <1>1 DEF SplitInv, LegalInv, FilesInv, ThrowInv
<1>9. DealtInv'
  <2>1. source = 0 => counted'[1] = counted[1]
    BY <1>2, <1>6
  <2> QED
    BY <1>1, <2>1 DEF SplitInv, DealtInv, Over
<1>10. CountInv'
  <2>1. ASSUME NEW s \in Source, NEW u \in Table
        PROVE  cnt'[s][u] # 0 /\ cnt'[s][u] <= Len(ddl'[s][u])
    <3>1. CASE s = source /\ u = t
      BY <1>1, <1>2, <1>3, <1>4, <1>5, <3>1 DEF TypeInv, DiskType, MayBe, Absent
    <3>2. CASE s # source \/ u # t
      <4>1. cnt[s][u] # 0 /\ cnt[s][u] <= Len(ddl[s][u])
        BY DEF SplitInv, CountInv
      <4> QED
        BY <1>1, <1>5, <3>2, <4>1
    <3> QED
      BY <3>1, <3>2
  <2>2. ASSUME NEW s \in Source, NEW u \in counted'[s]
        PROVE  state'[s][u] # Absent /\ cnt'[s][u] = state'[s][u] + 1
    <3>1. CASE s = source /\ u = t
      BY <1>1, <1>4, <1>5, <3>1
    <3>2. CASE s # source \/ u # t
      <4>1. u \in counted[s] /\ u \in Table
        BY <1>2, <1>6, <2>2, <3>2
      <4>2. state[s][u] # Absent /\ cnt[s][u] = state[s][u] + 1
        BY <4>1 DEF SplitInv, CountInv
      <4> QED
        BY <1>1, <1>5, <3>2, <4>1, <4>2
    <3> QED
      BY <3>1, <3>2
  <2>3. ASSUME NEW s \in Source, Marked(s)', Calm(log'[s]), NEW u \in Table, state'[s][u] # Absent
        PROVE  u \in counted'[s]
    <3>1. Marked(s) /\ s # source
      BY <1>1, <1>2, <2>3 DEF Marked, Splits
    <3>2. u \in counted[s]
      BY <1>1, <2>3, <3>1 DEF SplitInv, CountInv
    <3> QED
      BY <1>6, <3>1, <3>2
  <2> QED
    BY <1>1, <2>1, <2>2, <2>3 DEF CountInv
<1> QED
  BY <1>7, <1>8, <1>9, <1>10 DEF SplitInv

(* An open file of a splitter that failed is of a log with a DROP TABLE.   *)
LEMMA GoneFacts ==
  ASSUME NEW L, NEW F, NEW R, NEW t, NEW n, NEW top, FilesType(L, F, R, t, n),
         Files(L, F, R, t, n, top), top # Absent, ~There(L, t, n)
  PROVE  Lone(L, t)
<1>1. 1 \in 1..(top + 1)
  BY DEF Files, Fits
<1> QED
  BY <1>1, StatedTwice

LEMMA CloseAllSafe ==
  ASSUME TypeInv, SplitInv, CloseAll
  PROVE  DiskType' /\ SplitType' /\ SplitInv'
<1>1. /\ pc = "count" /\ source' = source /\ Kept \subseteq counted[source]
      /\ pc' = IF \E t \in Kept : Gone(source, t) THEN "thrown" ELSE "mark"
      /\ UNCHANGED splitting /\ UNCHANGED <<log, dealt, state, open, counted, ddl, dat, cnt>>
  BY DEF CloseAll, splitting, splitter
<1>2. source \in Source /\ Source = {0, 1} /\ dealt[source] = Len(log[source])
  BY <1>1 DEF TypeInv, MainType, Source, SplitInv, DealtInv, Over
<1>3. DealtInv'
  BY <1>1 DEF SplitInv, DealtInv, Over, Splits
<1>4. ThrowInv'
  <2>1. ASSUME NEW t \in Kept, Gone(source, t) PROVE ~Calm(log[source])
    <3>1. PICK L : L = log[source]
      OBVIOUS
    <3>2. PICK F : F = ddl[source][t]
      OBVIOUS
    <3>3. PICK R : R = dat[source][t]
      OBVIOUS
    <3>4. PICK top : top = state[source][t]
      OBVIOUS
    <3>5. PICK n : n = dealt[source]
      OBVIOUS
    <3>6. t \in Table /\ top # Absent
      BY <3>4 DEF Kept
    <3>7. FilesType(L, F, R, t, n) /\ Files(L, F, R, t, n, top)
      BY <1>2, <3>1, <3>2, <3>3, <3>4, <3>5, <3>6, SplitTypes DEF SplitInv, FilesInv, Well
    <3>8. ~There(L, t, n)
      BY <1>2, <2>1, <3>1, <3>5, <3>6, OfTheLog DEF Gone
    <3>9. Lone(L, t)
      BY <3>6, <3>7, <3>8, GoneFacts
    <3> QED
      BY <3>1, <3>6, <3>9 DEF Calm
  <2> QED
    BY <1>1, <2>1 DEF SplitInv, ThrowInv
<1>5. CountInv'
  <2>1. ASSUME NEW s \in Source, Marked(s)', Calm(log[s]), NEW t \in Table, state[s][t] # Absent
        PROVE  t \in counted[s]
    <3>1. CASE s = source
      BY <1>1, <2>1, <3>1 DEF Kept
    <3>2. CASE s # source
      <4>1. Marked(s)
        BY <1>1, <1>2, <2>1, <3>2 DEF Marked, Splits
      <4> QED
        BY <2>1, <4>1 DEF SplitInv, CountInv
    <3> QED
      BY <3>1, <3>2
  <2> QED
    BY <1>1, <2>1 DEF SplitInv, CountInv
<1> QED
  BY <1>1, <1>3, <1>4, <1>5, MovedOn DEF SplitInv

(* The files of one source as an exception leaves them.                    *)
LEMMA CutFiles ==
  ASSUME TypeInv, SplitInv, ~Calm(log[source]),
         dat' = [dat EXCEPT ![source] =
                   [t \in Table |-> IF t \in open[source]
                                    THEN [@[t] EXCEPT ![state[source][t] + 1] = <<>>]
                                    ELSE @[t]]]
  PROVE  /\ dat' \in [Source -> [Table -> Seq(Seq(Nat))]]
         /\ \A s \in Source, t \in Table :
              Well(log[s], ddl[s][t], dat'[s][t], t, dealt[s], state[s][t], open[s])
<1>1. /\ dat \in [Source -> [Table -> Seq(Seq(Nat))]] /\ source \in Source
  BY DEF TypeInv, DiskType, MainType
<1> DEFINE D == [t \in Table |-> IF t \in open[source]
                                 THEN [dat[source][t] EXCEPT ![state[source][t] + 1] = <<>>]
                                 ELSE dat[source][t]]
<1>2. dat' = [dat EXCEPT ![source] = D]
  BY <1>1
<1>3. ASSUME NEW t \in Table
      PROVE  D[t] \in Seq(Seq(Nat)) /\ Well(log[source], ddl[source][t], D[t], t, dealt[source],
                                            state[source][t], open[source])
  <2>1. PICK L : L = log[source]
    OBVIOUS
  <2>2. PICK F : F = ddl[source][t]
    OBVIOUS
  <2>3. PICK R : R = dat[source][t]
    OBVIOUS
  <2>4. PICK top : top = state[source][t]
    OBVIOUS
  <2>5. PICK n : n = dealt[source]
    OBVIOUS
  <2>6. PICK W : W = open[source]
    OBVIOUS
  <2>7. PICK Q : Q = [R EXCEPT ![top + 1] = <<>>]
    OBVIOUS
  <2>8. FilesType(L, F, R, t, n) /\ Well(L, F, R, t, n, top, W) /\ ~Calm(L)
    BY <1>1, <2>1, <2>2, <2>3, <2>4, <2>5, <2>6, SplitTypes DEF SplitInv, FilesInv
  <2>9. CASE t \in W
    <3>1. top # Absent /\ Files(L, F, R, t, n, top)
      BY <2>8, <2>9 DEF Well
    <3>2. Q \in Seq(Seq(Nat)) /\ Files(L, F, Q, t, n, top)
      BY <2>7, <2>8, <3>1, FileCut
    <3>3. Well(L, F, Q, t, n, top, W)
      BY <2>8, <3>2 DEF Well
    <3>4. D[t] = Q
      BY <2>3, <2>4, <2>6, <2>7, <2>9, Zenon
    <3> QED
      BY <2>1, <2>2, <2>4, <2>5, <2>6, <3>2, <3>3, <3>4
  <2>10. CASE t \notin W
    BY <1>1, <2>1, <2>2, <2>3, <2>4, <2>5, <2>6, <2>8, <2>10
  <2> QED
    BY <2>9, <2>10
<1>4. D \in [Table -> Seq(Seq(Nat))]
  <2>1. D = [t \in Table |-> D[t]]
    OBVIOUS
  <2> HIDE DEF D
  <2> QED
    BY <1>3, <2>1
<1> HIDE DEF D
<1>5. /\ dat' \in [Source -> [Table -> Seq(Seq(Nat))]] /\ dat'[source] = D
      /\ \A s \in Source \ {source} : dat'[s] = dat[s]
  BY <1>1, <1>2, <1>4
<1>6. ASSUME NEW s \in Source, NEW t \in Table
      PROVE  Well(log[s], ddl[s][t], dat'[s][t], t, dealt[s], state[s][t], open[s])
  <2>1. CASE s = source
    BY <1>3, <1>5, <2>1
  <2>2. CASE s # source
    BY <1>5, <2>2 DEF SplitInv, FilesInv
  <2> QED
    BY <2>1, <2>2
<1> QED
  BY <1>5, <1>6

LEMMA ThrownSafe ==
  ASSUME TypeInv, SplitInv, Thrown
  PROVE  DiskType' /\ SplitType' /\ SplitInv'
<1>1. /\ pc = "thrown" /\ pc' = "mark" /\ source' = source
      /\ UNCHANGED <<log, dealt, state, open, counted, ddl, cnt>>
      /\ \/ UNCHANGED dat
         \/ dat' = [dat EXCEPT ![source] =
                      [t \in Table |-> IF t \in open[source]
                                       THEN [@[t] EXCEPT ![state[source][t] + 1] = <<>>]
                                       ELSE @[t]]]
  BY DEF Thrown, splitter
<1>2. ~Calm(log[source]) /\ source \in Source /\ Source = {0, 1}
  BY <1>1 DEF SplitInv, ThrowInv, TypeInv, MainType, Source
<1>3. /\ dat' \in [Source -> [Table -> Seq(Seq(Nat))]]
      /\ \A s \in Source, t \in Table :
           Well(log[s], ddl[s][t], dat'[s][t], t, dealt[s], state[s][t], open[s])
  <2>1. CASE UNCHANGED dat
    BY <2>1 DEF TypeInv, DiskType, SplitInv, FilesInv
  <2>2. CASE dat' = [dat EXCEPT ![source] =
                       [t \in Table |-> IF t \in open[source]
                                        THEN [@[t] EXCEPT ![state[source][t] + 1] = <<>>]
                                        ELSE @[t]]]
    BY <1>2, <2>2, CutFiles
  <2> QED
    BY <1>1, <2>1, <2>2
<1>4. DiskType' /\ SplitType'
  BY <1>1, <1>3 DEF TypeInv, DiskType, SplitType
<1>5. LegalInv' /\ FilesInv' /\ ThrowInv'
  BY <1>1, <1>3 DEF SplitInv, LegalInv, FilesInv, ThrowInv
<1>6. DealtInv'
  BY <1>1 DEF SplitInv, DealtInv, Over, Splits
<1>7. CountInv'
  <2>1. ASSUME NEW s \in Source, Marked(s)', Calm(log[s]) PROVE Marked(s)
    BY <1>1, <1>2, <2>1 DEF Marked, Splits
  <2> QED
    BY <1>1, <2>1 DEF SplitInv, CountInv
<1> QED
  BY <1>4, <1>5, <1>6, <1>7 DEF SplitInv

LEMMA MarkSafe ==
  ASSUME TypeInv, SplitInv, Mark
  PROVE  DiskType' /\ SplitType' /\ SplitInv'
<1>1. /\ pc = "mark" /\ source \in Source /\ Source = {0, 1}
      /\ \/ source = 0 /\ source' = 1 /\ pc' = "split"
         \/ source = 1 /\ source' = 0 /\ pc' = "load"
      /\ UNCHANGED splitting /\ UNCHANGED <<log, dealt, state, open, counted, ddl, dat, cnt>>
  BY DEF Mark, splitting, splitter, TypeInv, MainType, Source
<1>2. pc \in Splits /\ "load" \notin Splits
  BY <1>1 DEF Splits
<1>3. DealtInv'
  <2>1. ASSUME NEW s \in Source, Over(s)' PROVE Over(s)
    BY <1>1, <2>1 DEF Over, Splits
  <2>2. pc' \in Splits => source' # 0
    BY <1>1, <1>2
  <2> QED
    BY <1>1, <2>1, <2>2 DEF SplitInv, DealtInv
<1>4. ThrowInv'
  <2>1. source = 0 => dealt[1] = 0
    BY <1>2 DEF SplitInv, DealtInv
  <2> QED
    BY <1>1, <2>1 DEF SplitInv, ThrowInv, Unthrown
<1>5. CountInv'
  <2>1. source = 0 => counted[1] = {}
    BY <1>2 DEF SplitInv, DealtInv
  <2>2. ASSUME NEW s \in Source, Marked(s)' PROVE Marked(s)
    BY <1>1, <2>2 DEF Marked, Splits
  <2> QED
    BY <1>1, <2>1, <2>2 DEF SplitInv, CountInv
<1> QED
  BY <1>1, <1>3, <1>4, <1>5, MovedOn DEF SplitInv

LEMMA CrashSafe ==
  ASSUME TypeInv, SplitInv, Crash
  PROVE  DiskType' /\ SplitType' /\ SplitInv'
<1>1. /\ pc \in Splits /\ pc' = "split" /\ source' = source
      /\ dealt' = [dealt EXCEPT ![source] = 0] /\ state' = [state EXCEPT ![source] = Nothing]
      /\ open' = [open EXCEPT ![source] = {}] /\ counted' = [counted EXCEPT ![source] = {}]
      /\ UNCHANGED <<log, ddl, dat>>
      /\ \/ UNCHANGED cnt
         \/ \E t \in Table : cnt' = [cnt EXCEPT ![source][t] = Absent]
  BY DEF Crash, Splits, Kept
<1>2. /\ dealt \in [Source -> Nat] /\ state \in [Source -> [Table -> MayBe]]
      /\ open \in [Source -> SUBSET Table] /\ counted \in [Source -> SUBSET Table]
      /\ cnt \in [Source -> [Table -> MayBe]] /\ source \in Source /\ Source = {0, 1}
      /\ log \in [Source -> Seq(Event)] /\ ddl \in [Source -> [Table -> Seq(Nat)]]
  BY DEF TypeInv, DiskType, SplitType, MainType, Source
<1>3. Nothing \in [Table -> MayBe] /\ \A t \in Table : Nothing[t] = Absent
  BY DEF Nothing, MayBe
<1>4. /\ dealt' \in [Source -> Nat] /\ state' \in [Source -> [Table -> MayBe]]
      /\ open' \in [Source -> SUBSET Table] /\ counted' \in [Source -> SUBSET Table]
      /\ dealt'[source] = 0 /\ state'[source] = Nothing /\ open'[source] = {}
      /\ counted'[source] = {}
  BY <1>1, <1>2, <1>3
<1>5. \A s \in Source \ {source} : /\ dealt'[s] = dealt[s] /\ state'[s] = state[s]
                                   /\ open'[s] = open[s] /\ counted'[s] = counted[s]
  BY <1>1, <1>2
<1>6. /\ cnt' \in [Source -> [Table -> MayBe]] /\ \A s \in Source \ {source} : cnt'[s] = cnt[s]
      /\ \A s \in Source, t \in Table : cnt'[s][t] = cnt[s][t] \/ cnt'[s][t] = Absent
  <2>1. CASE UNCHANGED cnt
    BY <1>2, <2>1
  <2>2. ASSUME NEW t \in Table, cnt' = [cnt EXCEPT ![source][t] = Absent]
        PROVE  /\ cnt' \in [Source -> [Table -> MayBe]] /\ \A s \in Source \ {source} : cnt'[s] = cnt[s]
               /\ \A s \in Source, u \in Table : cnt'[s][u] = cnt[s][u] \/ cnt'[s][u] = Absent
    BY <1>2, <2>2 DEF MayBe
  <2> QED
    BY <1>1, <2>1, <2>2
<1>7. DiskType' /\ SplitType'
  BY <1>1, <1>4, <1>6 DEF TypeInv, DiskType, SplitType
<1>8. LegalInv'
  BY <1>1 DEF SplitInv, LegalInv
<1>9. DealtInv'
  <2>1. ASSUME NEW s \in Source, s # source, Over(s)' PROVE Over(s)
    BY <1>1, <2>1 DEF Over, Splits
  <2>2. ~Over(source)'
    BY <1>1, <1>2 DEF Over, Splits
  <2>3. \A s \in Source : dealt'[s] <= Len(log'[s])
    <3>1. Len(log[source]) \in Nat
      BY <1>2
    <3> QED
      BY <1>1, <1>2, <1>4, <1>5, <3>1 DEF SplitInv, DealtInv
  <2>4. source = 0 => dealt'[1] = 0 /\ counted'[1] = {}
    BY <1>1, <1>2, <1>5 DEF SplitInv, DealtInv
  <2>5. \A s \in Source : Over(s)' => dealt'[s] = Len(log'[s])
    BY <1>1, <1>5, <2>1, <2>2 DEF SplitInv, DealtInv
  <2> QED
    BY <1>1, <2>3, <2>4, <2>5 DEF DealtInv
<1>10. ThrowInv'
  BY <1>1, <1>4 DEF SplitInv, ThrowInv, Unthrown
<1>11. CountInv'
  <2>1. ASSUME NEW s \in Source, NEW t \in Table PROVE cnt'[s][t] # 0 /\ cnt'[s][t] <= Len(ddl'[s][t])
    <3>1. cnt[s][t] # 0 /\ cnt[s][t] <= Len(ddl[s][t])
      BY DEF SplitInv, CountInv
    <3>2. Absent # 0 /\ Absent <= Len(ddl[s][t])
      BY <1>2 DEF Absent
    <3> QED
      BY <1>1, <1>6, <3>1, <3>2
  <2>2. ASSUME NEW s \in Source, NEW t \in counted'[s]
        PROVE  state'[s][t] # Absent /\ cnt'[s][t] = state'[s][t] + 1
    <3>1. s # source /\ t \in counted[s]
      BY <1>4, <1>5, <2>2
    <3>2. state[s][t] # Absent /\ cnt[s][t] = state[s][t] + 1
      BY <3>1 DEF SplitInv, CountInv
    <3> QED
      BY <1>5, <1>6, <3>1, <3>2
  <2>3. ASSUME NEW s \in Source, Marked(s)', Calm(log'[s]), NEW t \in Table, state'[s][t] # Absent
        PROVE  t \in counted'[s]
    <3>1. s # source
      BY <1>3, <1>4, <2>3
    <3>2. Marked(s)
      BY <1>1, <2>3, <3>1 DEF Marked, Splits
    <3>3. t \in counted[s]
      BY <1>1, <1>5, <2>3, <3>1, <3>2 DEF SplitInv, CountInv
    <3> QED
      BY <1>5, <3>1, <3>3
  <2> QED
    BY <1>4, <1>1, <2>1, <2>2, <2>3 DEF CountInv
<1>12. FilesInv'
  <2>1. ASSUME NEW s \in Source, NEW t \in Table
        PROVE  Well(log'[s], ddl'[s][t], dat'[s][t], t, dealt'[s], state'[s][t], open'[s])
    <3>1. CASE s = source
      <4>1. PICK L : L = log[s]
        OBVIOUS
      <4>2. PICK F \in Seq(Nat) : F = ddl[s][t]
        BY <1>2
      <4>3. PICK R : R = dat[s][t]
        OBVIOUS
      <4>4. PICK n : n = dealt[s]
        OBVIOUS
      <4>5. PICK top : top = state[s][t]
        OBVIOUS
      <4>6. PICK W : W = open[s]
        OBVIOUS
      <4>7. Well(L, F, R, t, n, top, W)
        BY <4>1, <4>2, <4>3, <4>4, <4>5, <4>6 DEF SplitInv, FilesInv
      <4>8. Well(L, F, R, t, 0, Absent, {})
        BY <4>7, WellAnew
      <4> QED
        BY <1>1, <1>3, <1>4, <3>1, <4>1, <4>2, <4>3, <4>8
    <3>2. CASE s # source
      BY <1>1, <1>5, <3>2 DEF SplitInv, FilesInv
    <3> QED
      BY <3>1, <3>2
  <2> QED
    BY <2>1 DEF FilesInv
<1> QED
  BY <1>7, <1>8, <1>9, <1>10, <1>11, <1>12 DEF SplitInv

(* of source 0 if there is one, and one of them at most is worked on.      *)

(* A count, be it of a run that died.                                      *)
HasCount(t) == cnt[0][t] # Absent

WorksInv ==
  /\ pc \in Splits \cup {"load"} => DOMAIN works = {} /\ \A n \in Table : read[n] = <<>>
  /\ pc \in Splits \cup {"load", "work", "done"} => current = {}
  /\ pc \in {"state", "rows", "failed"} => \E n \in DOMAIN works : current = {n}
  /\ pc \in {"load", "work", "state"} => source = 0
  /\ \A n \in DOMAIN works :
       stem[Dir(n)] = n /\ (HasCount(Dir(n)) => works[n].count = cnt[0][Dir(n)])
  /\ \A n \in Table : n \in DOMAIN works /\ n \notin current => read[n] = <<>>
  /\ pc = "done" => DOMAIN works = {}

Sound == TypeInv /\ SplitInv /\ WorksInv

Splitting ==
  \/ Deal \/ EndOfLog \/ (\E t \in Table : CountTable(t)) \/ CloseAll \/ Thrown \/ Mark \/ Crash

LEMMA SplittingMoves ==
  ASSUME TypeInv, Splitting
  PROVE  /\ pc \in Splits /\ UNCHANGED <<stem, works, current, at, version, read>>
         /\ source' \in Source
         /\ pc' \in Splits \/ (pc' = "load" /\ source' = 0)
<1>1. source \in Source /\ Source = {0, 1} /\ Splits = {"split", "count", "thrown", "mark"}
  BY DEF TypeInv, MainType, Source, Splits
<1>2. CASE Deal
  BY <1>1, <1>2 DEF Deal, working
<1>3. CASE EndOfLog
  BY <1>1, <1>3 DEF EndOfLog, working
<1>4. CASE \E t \in Table : CountTable(t)
  BY <1>1, <1>4 DEF CountTable, working
<1>5. CASE CloseAll
  BY <1>1, <1>5 DEF CloseAll, working
<1>6. CASE Thrown
  BY <1>1, <1>6 DEF Thrown, working
<1>7. CASE Mark
  BY <1>1, <1>7 DEF Mark, working
<1>8. CASE Crash
  BY <1>1, <1>8 DEF Crash, working
<1> QED
  BY <1>2, <1>3, <1>4, <1>5, <1>6, <1>7, <1>8 DEF Splitting

LEMMA SplittingWorks ==
  ASSUME Sound, Splitting
  PROVE  Sound'
<1>1. DiskType' /\ SplitType' /\ SplitInv'
  BY DealSafe, EndOfLogSafe, CountTableSafe, CloseAllSafe, ThrownSafe, MarkSafe, CrashSafe
     DEF Sound, Splitting
<1>2. /\ pc \in Splits /\ UNCHANGED <<stem, works, current, at, version, read>>
      /\ source' \in Source /\ (pc' \in Splits \/ (pc' = "load" /\ source' = 0))
  BY SplittingMoves DEF Sound
<1>3. MainType' /\ WorkType'
  BY <1>2 DEF Sound, TypeInv, MainType, WorkType, MayBe, Intake
<1>4. WorksInv'
  <2>1. DOMAIN works = {} /\ current = {} /\ \A n \in Table : read[n] = <<>>
    BY <1>2 DEF Sound, WorksInv
  <2> QED
    BY <1>2, <2>1 DEF WorksInv, Splits
<1> QED
  BY <1>1, <1>3, <1>4 DEF Sound, TypeInv

(* What the steps after the splitting leave to show.                       *)
LEMMA WorkingSafe ==
  ASSUME Sound, UNCHANGED <<stem, log, dealt, state, open, counted, ddl, dat, cnt>>,
         \/ pc \notin Splits /\ pc' \notin Splits
         \/ UNCHANGED <<pc, source>>
  PROVE  DiskType' /\ SplitType' /\ SplitInv'
<1>1. DiskType' /\ SplitType'
  BY DEF Sound, TypeInv, DiskType, SplitType
<1>2. SplitInv'
  BY SplitDone DEF Sound
<1> QED
  BY <1>1, <1>2

LEMMA LoadWorksSafe ==
  ASSUME Sound, LoadWorks
  PROVE  Sound'
<1>1. /\ pc = "load" /\ pc' = "work" /\ UNCHANGED <<stem, log, dealt, state, open, counted, ddl, dat, cnt>>
      /\ UNCHANGED <<source, current, at, version, read>>
  BY DEF LoadWorks, splitting, splitter
<1>2. DiskType' /\ SplitType' /\ SplitInv'
  BY <1>1, WorkingSafe DEF Splits
<1>3. PICK last \in [{stem[t] : t \in {u \in Table : Directory(u)}} -> Table], unset \in Garbage :
        /\ \A n \in DOMAIN last : Directory(last[n]) /\ stem[last[n]] = n
        /\ works' = [n \in DOMAIN last |->
                       [dir |-> last[n],
                        count |-> IF CountOf(last[n]) = Absent THEN unset ELSE CountOf(last[n])]]
  BY DEF LoadWorks
<1>4. /\ stem \in [Table -> Table] /\ cnt \in [Source -> [Table -> MayBe]] /\ 0 \in Source
      /\ unset \in Int /\ source = 0 /\ current = {} /\ \A n \in Table : read[n] = <<>>
  BY <1>1, TwoSourcesAssumption
     DEF Sound, TypeInv, MainType, DiskType, WorksInv, TwoSourcesAssumption, Source
<1>5. ASSUME NEW n \in DOMAIN works'
      PROVE  /\ n \in Table /\ works'[n].dir \in Table /\ works'[n].count \in Int
             /\ stem[works'[n].dir] = n
             /\ cnt[0][works'[n].dir] # Absent => works'[n].count = cnt[0][works'[n].dir]
  <2>1. n \in DOMAIN last /\ n \in Table
    BY <1>3, <1>4
  <2>2. /\ works'[n].dir = last[n]
        /\ works'[n].count = IF CountOf(last[n]) = Absent THEN unset ELSE CountOf(last[n])
    BY <1>3, <2>1
  <2>3. last[n] \in Table /\ CountOf(last[n]) \in MayBe
    BY <1>4, <2>1 DEF CountOf
  <2> QED
    BY <1>3, <1>4, <2>1, <2>2, <2>3 DEF CountOf, MayBe, Absent
<1>6. MainType' /\ WorkType'
  <2>1. MainType'
    BY <1>1 DEF Sound, TypeInv, MainType
  <2>2. WorkType'
    BY <1>1, <1>5 DEF Sound, TypeInv, WorkType, MayBe, Intake
  <2> QED
    BY <2>1, <2>2
<1>7. WorksInv'
  BY <1>1, <1>4, <1>5 DEF WorksInv, Dir, HasCount, Splits
<1> QED
  BY <1>2, <1>6, <1>7 DEF Sound, TypeInv

LEMMA BeginWorkSafe ==
  ASSUME Sound, NEW n \in Table, BeginWork(n)
  PROVE  Sound'
<1>1. /\ pc = "work" /\ pc' = "state" /\ UNCHANGED <<stem, log, dealt, state, open, counted, ddl, dat, cnt>>
      /\ UNCHANGED <<source, works, read>> /\ n \in DOMAIN works
      /\ current = {} /\ current' = {n} /\ at' = 0 /\ version' = Absent
  BY DEF BeginWork, splitting, splitter
<1>2. DiskType' /\ SplitType' /\ SplitInv'
  BY <1>1, WorkingSafe DEF Splits
<1>3. MainType' /\ WorkType'
  BY <1>1 DEF Sound, TypeInv, MainType, WorkType, MayBe, Intake
<1>4. WorksInv'
  BY <1>1 DEF Sound, WorksInv, Dir, HasCount, Splits
<1> QED
  BY <1>2, <1>3, <1>4 DEF Sound, TypeInv

LEMMA TraceSafe ==
  ASSUME Sound, NEW n \in Table, Trace(n)
  PROVE  Sound'
<1>1. /\ pc = "state" /\ UNCHANGED <<stem, log, dealt, state, open, counted, ddl, dat, cnt>>
      /\ UNCHANGED <<works, current, at, read>>
      /\ \/ pc' = "failed" /\ source' = source /\ version' = version
         \/ pc' = "rows" /\ source' = 0 /\ version' \in {version + 1, 0, version}
  BY DEF Trace, splitting, splitter
<1>2. DiskType' /\ SplitType' /\ SplitInv'
  BY <1>1, WorkingSafe DEF Splits
<1>3. version' \in MayBe
  BY <1>1 DEF Sound, TypeInv, WorkType, MayBe, Absent
<1>4. MainType' /\ WorkType'
  BY <1>1, <1>3 DEF Sound, TypeInv, MainType, WorkType, Source, MayBe, Intake
<1>5. WorksInv'
  BY <1>1 DEF Sound, WorksInv, Dir, HasCount, Splits
<1> QED
  BY <1>2, <1>4, <1>5 DEF Sound, TypeInv

(* The rows of one state and source, as they are read.                     *)
Places(s, t, i) == IF i < Len(dat[s][t]) THEN dat[s][t][i + 1] ELSE <<>>

TakenIn(s, t, places) ==
  [k \in DOMAIN places |-> [table |-> t, source |-> s, place |-> places[k], version |-> version]]

LEMMA TakenInFacts ==
  ASSUME TypeInv, NEW s \in Source, NEW t \in Table
  PROVE  /\ Places(s, t, at) \in Seq(Nat)
         /\ TakenIn(s, t, Places(s, t, at)) \in Seq(Intake)
         /\ Len(TakenIn(s, t, Places(s, t, at))) = Len(Places(s, t, at))
<1>1. PICK R \in Seq(Seq(Nat)) : R = dat[s][t]
  BY DEF TypeInv, DiskType
<1>2. at \in Nat /\ version \in MayBe
  BY DEF TypeInv, WorkType
<1>3. Places(s, t, at) \in Seq(Nat)
  <2>1. CASE at < Len(R)
    <3>1. at + 1 \in 1..Len(R)
      BY <1>1, <1>2, <2>1
    <3> QED
      BY <1>1, <2>1, <3>1 DEF Places
  <2>2. CASE ~(at < Len(R))
    <3>1. <<>> \in Seq(Nat)
      OBVIOUS
    <3> QED
      BY <1>1, <2>2, <3>1 DEF Places
  <2> QED
    BY <2>1, <2>2
<1>4. PICK places \in Seq(Nat) : places = Places(s, t, at)
  BY <1>3
<1>5. TakenIn(s, t, places) \in [1..Len(places) -> Intake]
  BY <1>2 DEF TakenIn, Intake
<1>6. TakenIn(s, t, places) \in Seq(Intake) /\ Len(TakenIn(s, t, places)) = Len(places)
  <2>1. Len(places) \in Nat
    OBVIOUS
  <2> QED
    BY <1>5, <2>1, FunctionIsSeq
<1> QED
  BY <1>3, <1>4, <1>6

LEMMA InsertRowsFacts ==
  ASSUME Sound, NEW n \in Table, InsertRows(n)
  PROVE  /\ pc = "rows" /\ n \in DOMAIN works /\ current = {n} /\ Dir(n) \in Table
         /\ source \in {0, 1} /\ at \in Nat
         /\ UNCHANGED <<stem, log, dealt, state, open, counted, ddl, dat, cnt>>
         /\ UNCHANGED <<works, current, version>>
         /\ read' = [read EXCEPT ![n] = @ \o TakenIn(source, Dir(n), Places(source, Dir(n), at))]
         /\ \/ source = 0 /\ source' = 1 /\ pc' = "rows" /\ at' = at
            \/ source = 1 /\ source' = 0 /\ pc' = "state" /\ at' = at + 1
<1>1. /\ pc = "rows" /\ n \in current
      /\ UNCHANGED <<stem, log, dealt, state, open, counted, ddl, dat, cnt>> /\ UNCHANGED <<works, current, version>>
      /\ read' = [read EXCEPT ![n] = @ \o TakenIn(source, Dir(n), Places(source, Dir(n), at))]
      /\ IF source = 0 THEN source' = 1 /\ UNCHANGED <<pc, at>>
         ELSE source' = 0 /\ pc' = "state" /\ at' = at + 1
  BY DEF InsertRows, splitting, splitter, TakenIn, Places
<1>2. PICK m \in DOMAIN works : current = {m}
  BY <1>1 DEF Sound, WorksInv
<1>3. current = {n} /\ n \in DOMAIN works /\ Dir(n) \in Table /\ source \in {0, 1} /\ at \in Nat
  BY <1>1, <1>2 DEF Sound, TypeInv, WorkType, MainType, Dir, Source
<1> QED
  BY <1>1, <1>3

LEMMA InsertRowsSafe ==
  ASSUME Sound, NEW n \in Table, InsertRows(n)
  PROVE  Sound'
<1> DEFINE new == TakenIn(source, Dir(n), Places(source, Dir(n), at))
<1>1. /\ pc = "rows" /\ n \in DOMAIN works /\ current = {n} /\ Dir(n) \in Table
      /\ source \in {0, 1} /\ at \in Nat
      /\ UNCHANGED <<stem, log, dealt, state, open, counted, ddl, dat, cnt>>
      /\ UNCHANGED <<works, current, version>>
      /\ read' = [read EXCEPT ![n] = @ \o new]
      /\ \/ source = 0 /\ source' = 1 /\ pc' = "rows" /\ at' = at
         \/ source = 1 /\ source' = 0 /\ pc' = "state" /\ at' = at + 1
  BY InsertRowsFacts
<1>2. new \in Seq(Intake) /\ read \in [Table -> Seq(Intake)]
  BY <1>1, TakenInFacts DEF Sound, TypeInv, WorkType, Source
<1> HIDE DEF new
<1>3. read' \in [Table -> Seq(Intake)] /\ \A m \in Table \ {n} : read'[m] = read[m]
  BY <1>1, <1>2
<1>4. DiskType' /\ SplitType' /\ SplitInv'
  BY <1>1, WorkingSafe DEF Splits
<1>5. MainType' /\ WorkType'
  <2>1. MainType'
    BY <1>1 DEF Sound, TypeInv, MainType, Source
  <2>2. WorkType'
    BY <1>1, <1>3 DEF Sound, TypeInv, WorkType
  <2> QED
    BY <2>1, <2>2
<1>6. WorksInv'
  BY <1>1, <1>3 DEF Sound, WorksInv, Dir, HasCount, Splits
<1> QED
  BY <1>4, <1>5, <1>6 DEF Sound, TypeInv

LEMMA EndWorkSafe ==
  ASSUME Sound, NEW n \in Table, EndWork(n)
  PROVE  Sound'
<1>1. /\ pc = "state" /\ n \in current /\ UNCHANGED <<stem, log, dealt, state, open, counted, ddl, dat, cnt>>
      /\ UNCHANGED <<source, at, version, read>>
      /\ \/ pc' = "failed" /\ UNCHANGED <<works, current>>
         \/ pc' = "work" /\ current' = {} /\ works' = [m \in DOMAIN works \ {n} |-> works[m]]
  BY DEF EndWork, splitting, splitter
<1>2. current = {n}
  BY <1>1 DEF Sound, WorksInv
<1>3. DiskType' /\ SplitType' /\ SplitInv'
  BY <1>1, WorkingSafe DEF Splits
<1>4. \A m \in DOMAIN works' : m \in DOMAIN works /\ works'[m] = works[m]
  BY <1>1
<1>5. MainType' /\ WorkType'
  <2>1. MainType'
    BY <1>1 DEF Sound, TypeInv, MainType
  <2>2. WorkType'
    BY <1>1, <1>4 DEF Sound, TypeInv, WorkType, MayBe, Intake
  <2> QED
    BY <2>1, <2>2
<1>6. WorksInv'
  <2>1. CASE pc' = "failed" /\ UNCHANGED <<works, current>>
    BY <1>1, <2>1 DEF Sound, WorksInv, Dir, HasCount, Splits
  <2>2. CASE pc' = "work" /\ current' = {} /\ works' = [m \in DOMAIN works \ {n} |-> works[m]]
    BY <1>1, <1>2, <1>4, <2>2 DEF Sound, WorksInv, Dir, HasCount, Splits
  <2> QED
    BY <1>1, <2>1, <2>2
<1> QED
  BY <1>3, <1>5, <1>6 DEF Sound, TypeInv

LEMMA DoneSafe ==
  ASSUME Sound, Done
  PROVE  Sound'
<1>1. /\ pc = "work" /\ pc' = "done" /\ UNCHANGED <<stem, log, dealt, state, open, counted, ddl, dat, cnt>>
      /\ UNCHANGED <<source, works, current, at, version, read>> /\ DOMAIN works = {}
  BY DEF Done, splitting, splitter, working
<1>2. DiskType' /\ SplitType' /\ SplitInv'
  BY <1>1, WorkingSafe DEF Splits
<1>3. MainType' /\ WorkType'
  BY <1>1 DEF Sound, TypeInv, MainType, WorkType, MayBe, Intake
<1>4. WorksInv'
  BY <1>1 DEF Sound, WorksInv, Dir, HasCount, Splits
<1> QED
  BY <1>2, <1>3, <1>4 DEF Sound, TypeInv

LEMMA StandsStill ==
  ASSUME Sound, UNCHANGED vars
  PROVE  Sound'
<1>1. /\ UNCHANGED <<stem, log, dealt, state, open, counted, ddl, dat, cnt>>
      /\ UNCHANGED <<pc, source, works, current, at, version, read>>
  BY DEF vars, splitting, splitter, working
<1>2. DiskType' /\ SplitType' /\ SplitInv'
  BY <1>1, WorkingSafe DEF Splits
<1>3. MainType' /\ WorkType'
  BY <1>1 DEF Sound, TypeInv, MainType, WorkType, MayBe, Intake
<1>4. WorksInv'
  BY <1>1 DEF Sound, WorksInv, Dir, HasCount, Splits
<1> QED
  BY <1>2, <1>3, <1>4 DEF Sound, TypeInv

LEMMA InitSound == Init => Sound
<1> SUFFICES ASSUME Init PROVE Sound
  OBVIOUS
<1>1. DOMAIN works = {} /\ \A n \in Table : read[n] = <<>>
  <2>1. DOMAIN <<>> = {}
    OBVIOUS
  <2> QED
    BY <2>1 DEF Init
<1>2. WorksInv
  BY <1>1 DEF Init, WorksInv, Splits
<1> QED
  BY <1>2, InitType, InitSplit DEF Sound

LEMMA NextSound == Sound /\ [Next]_vars => Sound'
BY SplittingWorks, LoadWorksSafe, BeginWorkSafe, TraceSafe, InsertRowsSafe, EndWorkSafe, DoneSafe,
   StandsStill DEF Next, Splitting

(* Whenever the splitter dies and whatever it finds from earlier runs, the *)
(* files up to the state of a table have the statements and the rows of    *)
(* the events dealt with, each row in the file of its statement; once a    *)
(* source is counted, those of its whole log.                              *)
THEOREM FilesAreOfTheLog == Spec => [](TypeInv /\ FilesInv)
BY InitSound, NextSound, PTL DEF Spec, Sound, SplitInv

-----------------------------------------------------------------------------
(* The SubWorkers.  When the splitting is over, the files are those of the *)
(* whole logs, in the states that were counted.                            *)
LEMMA FinalFiles ==
  ASSUME Sound, pc \notin Splits, NEW s \in Source, NEW t \in Table
  PROVE  /\ Files(log[s], ddl[s][t], dat[s][t], t, Len(log[s]), state[s][t])
         /\ FilesType(log[s], ddl[s][t], dat[s][t], t, Len(log[s]))
         /\ cnt[s][t] # Absent => cnt[s][t] \in Nat /\ cnt[s][t] > 0
         /\ cnt[s][t] \in Int /\ cnt[s][t] <= Len(ddl[s][t]) /\ Len(ddl[s][t]) = Len(dat[s][t])
         /\ Count(s, t) # Absent => Count(s, t) = cnt[s][t] /\ cnt[s][t] # Absent
                                    /\ state[s][t] # Absent /\ state[s][t] + 1 = cnt[s][t]
         /\ Count(s, t) \in Int
         /\ Calm(log[s]) /\ state[s][t] # Absent => Count(s, t) # Absent
         /\ \A i \in DOMAIN ddl[s][t] : ddl[s][t][i] \in DOMAIN log[s] /\ Opens(log[s], t, ddl[s][t][i])
<1>1. dealt[s] = Len(log[s]) /\ Marked(s)
  BY DEF Sound, SplitInv, DealtInv, Over, Marked
<1>2. /\ Well(log[s], ddl[s][t], dat[s][t], t, dealt[s], state[s][t], open[s])
      /\ FilesType(log[s], ddl[s][t], dat[s][t], t, dealt[s])
  BY SplitTypes DEF Sound, SplitInv, FilesInv
<1>3. cnt[s][t] \in MayBe /\ state[s][t] \in MayBe /\ cnt[s][t] # 0 /\ cnt[s][t] <= Len(ddl[s][t])
  BY DEF Sound, TypeInv, DiskType, SplitType, SplitInv, CountInv
<1>4. /\ t \in counted[s] => state[s][t] # Absent /\ cnt[s][t] = state[s][t] + 1
      /\ Calm(log[s]) /\ state[s][t] # Absent => t \in counted[s]
  BY <1>1 DEF Sound, SplitInv, CountInv
<1>5. Count(s, t) = IF t \in counted[s] THEN cnt[s][t] ELSE Absent
  BY DEF Count
<1>6. cnt[s][t] # Absent => cnt[s][t] \in Nat /\ cnt[s][t] > 0
  BY <1>3 DEF MayBe, Absent
<1>7. t \in counted[s] => cnt[s][t] # Absent
  BY <1>3, <1>4 DEF MayBe, Absent
<1>8. cnt[s][t] \in Int /\ Count(s, t) \in Int
  BY <1>3, <1>5 DEF MayBe, Absent
<1>9. Len(ddl[s][t]) = Len(dat[s][t])
  BY <1>2 DEF Well, Files, Fits
<1>10. /\ Count(s, t) # Absent => t \in counted[s] /\ Count(s, t) = cnt[s][t]
       /\ t \in counted[s] => Count(s, t) # Absent
  BY <1>5, <1>7
<1> QED
  BY <1>1, <1>2, <1>3, <1>4, <1>6, <1>7, <1>8, <1>9, <1>10 DEF Well

(* How far a SubWorker has come, if there is a count: it has a table once  *)
(* it has carried out a statement, and fails only at one that could not be *)
(* written down.  If source 0 has the table at the end, the version is     *)
(* that of the statement.                                                  *)
Version(t, i) == Counts(t) /\ ~Lone(log[0], t) => version = Vers(log[0], t, ddl[0][t][i])

Progress(t) ==
  /\ pc \in {"state", "rows"} /\ at <= cnt[0][t] /\ (pc = "rows" => at < cnt[0][t])
  /\ pc = "state" => (at = 0 <=> version = Absent)
  /\ pc = "state" /\ at > 0 => Version(t, at)
  /\ pc = "rows" => version # Absent /\ Version(t, at + 1)

Fails(t) == [kind |-> "fails", table |-> t] \in Range(log[0])

ProgressInv ==
  \A n \in current :
    HasCount(Dir(n)) => IF pc = "failed" THEN Fails(Dir(n)) ELSE Progress(Dir(n))

(* A SubWorker with a count.                                               *)
LEMMA CountedWork ==
  ASSUME Sound, ProgressInv, NEW n \in current, HasCount(Dir(n)), pc # "failed"
  PROVE  /\ n \in DOMAIN works /\ current = {n} /\ Dir(n) \in Table /\ at \in Nat
         /\ works[n].count = cnt[0][Dir(n)] /\ cnt[0][Dir(n)] \in Nat /\ cnt[0][Dir(n)] > 0
         /\ Progress(Dir(n)) /\ pc \notin Splits
         /\ version \in MayBe /\ stem[Dir(n)] = n
         /\ Counts(Dir(n)) => state[0][Dir(n)] + 1 = cnt[0][Dir(n)]
<1>1. Progress(Dir(n)) /\ pc \in {"state", "rows"}
  BY DEF ProgressInv, Progress
<1>2. PICK m \in DOMAIN works : current = {m}
  BY <1>1 DEF Sound, WorksInv
<1>3. n \in DOMAIN works /\ current = {n} /\ Dir(n) \in Table /\ at \in Nat /\ version \in MayBe
  BY <1>2 DEF Sound, TypeInv, WorkType, Dir
<1>4. works[n].count = cnt[0][Dir(n)] /\ cnt[0][Dir(n)] # Absent /\ stem[Dir(n)] = n
  BY <1>3 DEF Sound, WorksInv, HasCount
<1>5. 0 \in Source /\ pc \notin Splits
  BY <1>1 DEF Source, Splits
<1>6. /\ cnt[0][Dir(n)] \in Nat /\ cnt[0][Dir(n)] > 0
      /\ Counts(Dir(n)) => state[0][Dir(n)] + 1 = cnt[0][Dir(n)]
  BY <1>3, <1>4, <1>5, FinalFiles DEF Counts
<1> QED
  BY <1>1, <1>3, <1>4, <1>5, <1>6

LEMMA TraceProgress ==
  ASSUME Sound, ProgressInv, NEW n \in Table, Trace(n)
  PROVE  ProgressInv'
<1>1. /\ pc = "state" /\ n \in current /\ at < works[n].count
      /\ UNCHANGED <<log, ddl, cnt, counted, works, current, at>>
  BY DEF Trace, splitting, splitter
<1> SUFFICES ASSUME NEW m \in current, HasCount(Dir(m))
             PROVE  IF pc' = "failed" THEN Fails(Dir(m))' ELSE Progress(Dir(m))'
  BY <1>1 DEF ProgressInv, HasCount, Dir
<1>2. /\ current = {m} /\ Dir(m) \in Table /\ at \in Nat /\ works[m].count = cnt[0][Dir(m)]
      /\ cnt[0][Dir(m)] \in Nat /\ Progress(Dir(m))
      /\ (Counts(Dir(m)) => state[0][Dir(m)] + 1 = cnt[0][Dir(m)])
      /\ pc \notin Splits /\ version \in MayBe
  BY <1>1, CountedWork
<1>3. n = m
  BY <1>1, <1>2
<1>4. PICK t \in Table : t = Dir(n)
  BY <1>2, <1>3
<1>5. PICK L : L = log[0]
  OBVIOUS
<1>6. PICK F : F = ddl[0][t]
  OBVIOUS
<1>7. PICK R : R = dat[0][t]
  OBVIOUS
<1>8. PICK top : top = state[0][t]
  OBVIOUS
<1>9. PICK k : k = Len(L)
  OBVIOUS
<1>10. /\ Files(L, F, R, t, k, top) /\ FilesType(L, F, R, t, k) /\ cnt[0][t] <= Len(F)
       /\ F \in Seq(Nat) /\ Len(F) \in Nat
       /\ \A i \in DOMAIN F : F[i] \in DOMAIN L /\ Opens(L, t, F[i])
  <2>1. 0 \in Source
    BY DEF Source
  <2>2. F \in Seq(Nat)
    BY <1>6, <2>1 DEF Sound, TypeInv, DiskType
  <2> QED
    BY <1>2, <1>5, <1>6, <1>7, <1>8, <1>9, <2>1, <2>2, FinalFiles
<1>11. /\ at < cnt[0][t] /\ cnt[0][t] \in Nat /\ at < Len(F) /\ at + 1 \in DOMAIN F
       /\ Counts(t) => at + 1 \in 1..(top + 1) /\ top + 1 = cnt[0][t]
  BY <1>1, <1>2, <1>3, <1>4, <1>8, <1>10
<1>16. /\ Dir(n)' = t /\ Dir(m)' = t /\ log' = log /\ ddl' = ddl /\ cnt' = cnt
       /\ counted' = counted /\ at' = at
  BY <1>1, <1>3, <1>4 DEF Dir
<1>18. PICK kind : kind = L[F[at + 1]].kind
  OBVIOUS
<1>12. \/ pc' = "failed" /\ kind = "fails"
       \/ /\ pc' = "rows"
          /\ version' = CASE kind = "alter" -> version + 1
                          [] kind # "alter" /\ at = 0 -> 0
                          [] OTHER -> version
  <2>1. at < Len(ddl[0][Dir(n)])
    BY <1>4, <1>6, <1>11
  <2>3. LET kd == log[0][ddl[0][Dir(n)][at + 1]].kind
        IN  \/ pc' = "failed" /\ kd = "fails"
            \/ /\ pc' = "rows"
               /\ version' = CASE kd = "alter" -> version + 1
                               [] kd # "alter" /\ at = 0 -> 0
                               [] OTHER -> version
    BY <2>1 DEF Trace
  <2>4. log[0][ddl[0][Dir(n)][at + 1]].kind = kind
    BY <1>4, <1>5, <1>6, <1>18
  <2> QED
    BY <2>3, <2>4
<1>19. CASE pc' = "failed" /\ kind = "fails"
  <2>1. PICK p \in DOMAIN L : p = F[at + 1] /\ L[p].table = t /\ L[p].kind = "fails"
    BY <1>10, <1>11, <1>18, <1>19 DEF Opens
  <2>2. L[p] \in Event
    BY <1>10 DEF FilesType
  <2>3. L[p] = [kind |-> "fails", table |-> t]
    BY <2>1, <2>2 DEF Event
  <2>4. Fails(t)
    BY <1>5, <2>3 DEF Fails, Range
  <2>5. Fails(t)'
    BY <1>16, <2>4 DEF Fails
  <2> QED
    BY <1>3, <1>4, <1>16, <1>19, <2>5
<1>20. CASE pc' = "rows" /\ version' = CASE kind = "alter" -> version + 1
                                        [] kind # "alter" /\ at = 0 -> 0
                                        [] OTHER -> version
  <2>13. /\ at = 0 <=> version = Absent
         /\ at > 0 /\ Counts(t) /\ ~Lone(L, t) => version = Vers(L, t, F[at])
    BY <1>1, <1>2, <1>3, <1>4, <1>5, <1>6 DEF Progress, Version
  <2>14. version' # Absent
    <3>1. version \in Nat \/ version = -1
      BY <1>2 DEF MayBe, Absent
    <3>2. CASE kind = "alter"
      BY <1>20, <3>1, <3>2 DEF Absent
    <3>3. CASE kind # "alter" /\ at = 0
      BY <1>20, <3>3 DEF Absent
    <3>4. CASE kind # "alter" /\ at # 0
      BY <1>20, <2>13, <3>4
    <3> QED
      BY <3>2, <3>3, <3>4
  <2>15. ASSUME Counts(t), ~Lone(L, t) PROVE version' = Vers(L, t, F[at + 1])
    <3>1. CASE at = 0
      <4>1. top # Absent
        BY <1>10, <1>11, <2>15, StatedTwice
      <4>2. L[F[1]].kind = "create" /\ Vers(L, t, F[1]) = 0
        BY <1>10, <2>15, <4>1, FirstVersion
      <4>3. at + 1 = 1
        BY <3>1
      <4> QED
        BY <1>18, <1>20, <3>1, <4>2, <4>3
    <3>2. CASE at # 0
      <4>1. PICK i \in 1..(top + 1) : i = at
        BY <1>2, <1>11, <2>15, <3>2
      <4>2. i + 1 \in 1..(top + 1)
        BY <1>11, <2>15, <4>1
      <4>3. /\ L[F[i + 1]].kind = "alter" => Vers(L, t, F[i + 1]) = Vers(L, t, F[i]) + 1
            /\ L[F[i + 1]].kind # "alter" => Vers(L, t, F[i + 1]) = Vers(L, t, F[i])
        BY <1>10, <2>15, <4>2, NextVersion
      <4>4. version = Vers(L, t, F[i])
        BY <1>2, <2>13, <2>15, <3>2, <4>1
      <4>5. CASE kind = "alter"
        BY <1>18, <1>20, <4>1, <4>3, <4>4, <4>5
      <4>6. CASE kind # "alter"
        BY <1>18, <1>20, <3>2, <4>1, <4>3, <4>4, <4>6
      <4> QED
        BY <4>5, <4>6
    <3> QED
      BY <3>1, <3>2
  <2>17. Progress(t)'
    <3>1. pc' = "rows" /\ at' <= cnt'[0][t] /\ at' < cnt'[0][t]
      BY <1>2, <1>11, <1>16, <1>20
    <3>2. Counts(t)' <=> Counts(t)
      BY <1>16 DEF Counts, Count
    <3>3. Version(t, at + 1)'
      BY <1>5, <1>6, <2>15, <1>16, <3>2 DEF Version
    <3> QED
      BY <2>14, <3>1, <3>3 DEF Progress
  <2> QED
    BY <1>3, <1>4, <1>16, <1>20, <2>17
<1> QED
  BY <1>12, <1>19, <1>20

LEMMA InsertRowsProgress ==
  ASSUME Sound, ProgressInv, NEW n \in Table, InsertRows(n)
  PROVE  ProgressInv'
<1>1. /\ pc = "rows" /\ UNCHANGED <<log, ddl, cnt, counted, works, current, version>>
      /\ \/ source' = 1 /\ pc' = "rows" /\ at' = at
         \/ source' = 0 /\ pc' = "state" /\ at' = at + 1
  BY InsertRowsFacts
<1> SUFFICES ASSUME NEW m \in current, HasCount(Dir(m)) PROVE Progress(Dir(m))'
  BY <1>1 DEF ProgressInv, HasCount, Dir
<1>2. at \in Nat /\ cnt[0][Dir(m)] \in Nat /\ Progress(Dir(m))
  BY <1>1, CountedWork
<1>3. PICK t : t = Dir(m)
  OBVIOUS
<1>4. at < cnt[0][t] /\ version # Absent /\ Version(t, at + 1) /\ at + 1 > 0 /\ at + 1 # 0
  BY <1>1, <1>2, <1>3 DEF Progress
<1>5. Dir(m)' = t
  BY <1>1, <1>3 DEF Dir
<1>6. CASE source' = 1 /\ pc' = "rows" /\ at' = at
  BY <1>1, <1>2, <1>3, <1>4, <1>5, <1>6 DEF Progress, Version, Counts, Count
<1>7. CASE source' = 0 /\ pc' = "state" /\ at' = at + 1
  <2>1. at + 1 <= cnt[0][t]
    BY <1>2, <1>3, <1>4
  <2>2. Version(t, at)'
    BY <1>1, <1>4, <1>7 DEF Version, Counts, Count
  <2> QED
    BY <1>1, <1>4, <1>5, <1>7, <2>1, <2>2 DEF Progress
<1> QED
  BY <1>1, <1>6, <1>7

LEMMA EndWorkProgress ==
  ASSUME Sound, ProgressInv, NEW n \in Table, EndWork(n)
  PROVE  ProgressInv'
<1>1. /\ pc = "state" /\ n \in current /\ at >= works[n].count
      /\ UNCHANGED <<log, ddl, cnt, counted, at, version>>
      /\ \/ version = Absent /\ UNCHANGED <<works, current>>
         \/ current' = {}
  BY DEF EndWork, splitting, splitter
<1>2. CASE current' = {}
  BY <1>2 DEF ProgressInv
<1>3. CASE version = Absent /\ UNCHANGED <<works, current>>
  <2> SUFFICES ASSUME NEW m \in current, HasCount(Dir(m)) PROVE FALSE
    BY <1>1, <1>3 DEF ProgressInv, HasCount, Dir
  <2>1. /\ current = {m} /\ at \in Nat /\ works[m].count = cnt[0][Dir(m)]
        /\ cnt[0][Dir(m)] \in Nat /\ cnt[0][Dir(m)] > 0 /\ Progress(Dir(m))
    BY <1>1, CountedWork
  <2>2. at = 0
    BY <1>1, <1>3, <2>1 DEF Progress
  <2> QED
    BY <1>1, <2>1, <2>2
<1> QED
  BY <1>1, <1>2, <1>3

LEMMA NextProgress == Sound /\ ProgressInv /\ [Next]_vars => ProgressInv'
<1> SUFFICES ASSUME Sound, ProgressInv, [Next]_vars PROVE ProgressInv'
  OBVIOUS
<1>1. CASE Splitting \/ LoadWorks
  <2>1. CASE Splitting
    <3>1. pc \in Splits /\ UNCHANGED current
      BY <2>1, SplittingMoves DEF Sound
    <3>2. current' = {}
      BY <3>1 DEF Sound, WorksInv
    <3> QED
      BY <3>2 DEF ProgressInv
  <2>2. CASE LoadWorks
    <3>1. pc = "load" /\ UNCHANGED current
      BY <2>2 DEF LoadWorks
    <3>2. current' = {}
      BY <3>1 DEF Sound, WorksInv
    <3> QED
      BY <3>2 DEF ProgressInv
  <2> QED
    BY <1>1, <2>1, <2>2
<1>2. ASSUME NEW n \in Table, BeginWork(n) PROVE ProgressInv'
  <2>1. /\ pc = "work" /\ pc' = "state" /\ current' = {n} /\ at' = 0 /\ version' = Absent
        /\ UNCHANGED <<cnt, works>> /\ n \in DOMAIN works
    BY <1>2 DEF BeginWork, splitting
  <2>2. Dir(n) \in Table /\ 0 \in Source /\ pc \notin Splits
    BY <2>1 DEF Sound, TypeInv, WorkType, Dir, Source, Splits
  <2>3. cnt[0][Dir(n)] # Absent => cnt[0][Dir(n)] \in Nat
    BY <2>2, FinalFiles
  <2> SUFFICES ASSUME cnt[0][Dir(n)] # Absent PROVE Progress(Dir(n))'
    BY <2>1 DEF ProgressInv, HasCount, Dir, Absent
  <2>4. cnt'[0][Dir(n)'] \in Nat /\ at' <= cnt'[0][Dir(n)']
    BY <2>1, <2>3 DEF Dir
  <2> QED
    BY <2>1, <2>4 DEF Progress
<1>3. CASE Done
  BY <1>3 DEF Done, working, Sound, WorksInv, ProgressInv
<1>4. CASE UNCHANGED vars
  <2>1. UNCHANGED <<pc, log, ddl, cnt, counted, works, current, at, version>>
    BY <1>4 DEF vars, splitting, splitter, working
  <2> QED
    BY <2>1 DEF ProgressInv, HasCount, Dir, Fails, Progress, Version, Counts, Count
<1> QED
  BY <1>1, <1>2, <1>3, <1>4, TraceProgress, InsertRowsProgress, EndWorkProgress DEF Next, Splitting

(* A SubWorker that finds a count finds each statement, and has a table    *)
(* when it is done: whatever lies about from other runs or from databases  *)
(* that were dropped, whatever source 1 has, and whether or not the count  *)
(* is of the run that came to its end.  It fails only at a statement that  *)
(* the splitter could not write down.                                      *)
THEOREM CountedWorksSucceed == Spec => []FailsUncounted
<1>1. Init => Sound /\ ProgressInv
  BY InitSound DEF Init, ProgressInv
<1>2. Sound /\ ProgressInv /\ [Next]_vars => (Sound /\ ProgressInv)'
  BY NextSound, NextProgress
<1>3. Sound /\ ProgressInv => FailsUncounted
  BY DEF ProgressInv, HasCount, Fails, FailsUncounted
<1> QED
  BY <1>1, <1>2, <1>3, PTL DEF Spec

-----------------------------------------------------------------------------
(* What was read.  Each row a work took in is in a file that was counted,  *)
(* if any was, and came with the version of that file's statement; it was  *)
(* read before the files the SubWorker has yet to read.                    *)

Taken(s, i) == i <= at \/ (pc = "rows" /\ source = 1 /\ s = 0 /\ i = at + 1)

FromFile(r, i) ==
  /\ i \in DOMAIN dat[r.source][r.table] /\ r.place \in Range(dat[r.source][r.table][i])
  /\ HasCount(r.table) => i <= cnt[0][r.table]
  /\ Counts(r.table) /\ ~Lone(log[0], r.table) =>
       r.version = Vers(log[0], r.table, ddl[0][r.table][i])

ReadFrom(n, r) ==
  \E i \in Nat : FromFile(r, i) /\ (n \in current => r.table = Dir(n) /\ Taken(r.source, i))

ReadInv == \A n \in Table : \A k \in DOMAIN read[n] : ReadFrom(n, read[n][k])

LEMMA ReadFromKept ==
  ASSUME NEW n, NEW r, ReadFrom(n, r), UNCHANGED <<log, ddl, dat, cnt, counted>>,
         n \in current' => n \in current /\ works'[n] = works[n],
         n \in current' => \A i \in Nat : Taken(r.source, i) => Taken(r.source, i)'
  PROVE  ReadFrom(n, r)'
<1>1. PICK i \in Nat :
        FromFile(r, i) /\ (n \in current => r.table = Dir(n) /\ Taken(r.source, i))
  BY DEF ReadFrom
<1>2. FromFile(r, i)'
  BY <1>1 DEF FromFile, HasCount, Counts, Count
<1>3. n \in current' => r.table = Dir(n)' /\ Taken(r.source, i)'
  BY <1>1 DEF Dir
<1> QED
  BY <1>2, <1>3 DEF ReadFrom

(* What InsertRows adds to what was read.                                  *)
NewRead(s, t, j) ==
  [table |-> t, source |-> s, place |-> dat[s][t][at + 1][j], version |-> version]

LEMMA ReadGrows ==
  ASSUME Sound, NEW n \in Table, InsertRows(n)
  PROVE  /\ \A m \in Table \ {n} : read'[m] = read[m]
         /\ \A k \in DOMAIN read[n] : k \in DOMAIN read'[n] /\ read'[n][k] = read[n][k]
         /\ \A k \in DOMAIN read'[n] : k \in DOMAIN read[n] \/
              /\ at + 1 \in DOMAIN dat[source][Dir(n)]
              /\ \E j \in DOMAIN dat[source][Dir(n)][at + 1] :
                   k = Len(read[n]) + j /\ read'[n][k] = NewRead(source, Dir(n), j)
         /\ at + 1 \in DOMAIN dat[source][Dir(n)] =>
              \A j \in DOMAIN dat[source][Dir(n)][at + 1] :
                \E k \in DOMAIN read'[n] : read'[n][k] = NewRead(source, Dir(n), j)
         /\ DOMAIN read[n] = 1..Len(read[n]) /\ Len(read[n]) \in Nat
<1>1. /\ Dir(n) \in Table /\ source \in Source /\ at \in Nat
      /\ read' = [read EXCEPT ![n] = @ \o TakenIn(source, Dir(n), Places(source, Dir(n), at))]
  BY InsertRowsFacts DEF Source
<1>2. PICK t \in Table : t = Dir(n)
  BY <1>1
<1>3. PICK R \in Seq(Seq(Nat)) : R = dat[source][t]
  BY <1>1 DEF Sound, TypeInv, DiskType
<1>4. PICK old \in Seq(Intake) : old = read[n]
  BY DEF Sound, TypeInv, WorkType
<1>5. /\ Places(source, t, at) \in Seq(Nat) /\ TakenIn(source, t, Places(source, t, at)) \in Seq(Intake)
      /\ Len(TakenIn(source, t, Places(source, t, at))) = Len(Places(source, t, at))
  BY <1>1, TakenInFacts DEF Sound
<1>6. PICK places \in Seq(Nat) : places = Places(source, t, at)
  BY <1>5
<1>7. PICK new \in Seq(Intake) : new = TakenIn(source, t, places)
  BY <1>5, <1>6
<1>8. /\ read' = [read EXCEPT ![n] = old \o new] /\ Len(new) = Len(places)
      /\ read \in [Table -> Seq(Intake)]
  BY <1>1, <1>2, <1>4, <1>5, <1>6, <1>7 DEF Sound, TypeInv, WorkType
<1>9. /\ \A m \in Table \ {n} : read'[m] = read[m]
      /\ read'[n] = old \o new
  BY <1>8
<1>10. /\ Len(old) \in Nat /\ Len(new) \in Nat /\ DOMAIN (old \o new) = 1..(Len(old) + Len(new))
       /\ DOMAIN old = 1..Len(old) /\ DOMAIN new = 1..Len(new)
       /\ \A k \in 1..Len(old) : (old \o new)[k] = old[k]
       /\ \A j \in 1..Len(new) : (old \o new)[Len(old) + j] = new[j]
  OBVIOUS
<1>11. /\ at + 1 \in DOMAIN R => places = R[at + 1]
       /\ at + 1 \notin DOMAIN R => Len(places) = 0
  <2>1. at + 1 \in DOMAIN R <=> at < Len(R)
    BY <1>1
  <2>2. CASE at < Len(R)
    BY <1>3, <1>6, <2>1, <2>2 DEF Places
  <2>3. CASE ~(at < Len(R))
    <3>1. places = <<>>
      BY <1>3, <1>6, <2>3 DEF Places
    <3> QED
      BY <2>1, <2>3, <3>1
  <2> QED
    BY <2>2, <2>3
<1>12. /\ DOMAIN places = 1..Len(places)
       /\ \A j \in DOMAIN places :
            new[j] = [table |-> t, source |-> source, place |-> places[j], version |-> version]
  BY <1>7 DEF TakenIn
<1>13. ASSUME at + 1 \in DOMAIN R, NEW j \in DOMAIN R[at + 1]
       PROVE  new[j] = NewRead(source, t, j) /\ j \in 1..Len(new)
  BY <1>3, <1>8, <1>11, <1>12, <1>13 DEF NewRead
<1>14. ASSUME NEW k \in DOMAIN (old \o new), k \notin DOMAIN old
       PROVE  /\ at + 1 \in DOMAIN R
              /\ \E j \in DOMAIN R[at + 1] :
                   k = Len(old) + j /\ (old \o new)[k] = NewRead(source, t, j)
  <2>1. PICK j \in 1..Len(new) : k = Len(old) + j
    <3>1. k - Len(old) \in 1..Len(new) /\ k = Len(old) + (k - Len(old))
      BY <1>10, <1>14
    <3> QED
      BY <3>1
  <2>2. at + 1 \in DOMAIN R
    BY <1>8, <1>11, <2>1
  <2>3. j \in DOMAIN R[at + 1]
    BY <1>8, <1>11, <1>12, <2>1, <2>2
  <2> QED
    BY <1>10, <1>13, <2>1, <2>2, <2>3
<1>15. ASSUME at + 1 \in DOMAIN R, NEW j \in DOMAIN R[at + 1]
       PROVE  \E k \in DOMAIN (old \o new) : (old \o new)[k] = NewRead(source, t, j)
  <2>1. j \in 1..Len(new) /\ new[j] = NewRead(source, t, j)
    BY <1>13, <1>15
  <2>2. Len(old) + j \in DOMAIN (old \o new) /\ (old \o new)[Len(old) + j] = new[j]
    BY <1>10, <2>1
  <2> QED
    BY <2>1, <2>2
<1>16. \A k \in DOMAIN old : k \in DOMAIN (old \o new) /\ (old \o new)[k] = old[k]
  BY <1>10
<1>17. PICK both : both = old \o new
  OBVIOUS
<1>18. read'[n] = both /\ read[n] = old /\ dat[source][Dir(n)] = R
  BY <1>2, <1>3, <1>4, <1>9, <1>17
<1>19. \A k \in DOMAIN read[n] : k \in DOMAIN read'[n] /\ read'[n][k] = read[n][k]
  BY <1>16, <1>17, <1>18
<1>20. ASSUME NEW k \in DOMAIN read'[n], k \notin DOMAIN read[n]
       PROVE  /\ at + 1 \in DOMAIN dat[source][Dir(n)]
              /\ \E j \in DOMAIN dat[source][Dir(n)][at + 1] :
                   k = Len(read[n]) + j /\ read'[n][k] = NewRead(source, Dir(n), j)
  BY <1>2, <1>14, <1>17, <1>18, <1>20
<1>21. ASSUME at + 1 \in DOMAIN dat[source][Dir(n)], NEW j \in DOMAIN dat[source][Dir(n)][at + 1]
       PROVE  \E k \in DOMAIN read'[n] : read'[n][k] = NewRead(source, Dir(n), j)
  BY <1>2, <1>15, <1>17, <1>18, <1>21
<1>22. DOMAIN read[n] = 1..Len(read[n]) /\ Len(read[n]) \in Nat
  BY <1>10, <1>18
<1> QED
  BY <1>9, <1>19, <1>20, <1>21, <1>22

LEMMA TakenKept ==
  ASSUME Sound, NEW n \in Table, InsertRows(n), NEW s, NEW i \in Nat, Taken(s, i)
  PROVE  Taken(s, i)'
<1>1. /\ pc = "rows" /\ at \in Nat
      /\ \/ source = 0 /\ source' = 1 /\ pc' = "rows" /\ at' = at
         \/ source = 1 /\ source' = 0 /\ pc' = "state" /\ at' = at + 1
  BY InsertRowsFacts
<1> QED
  BY <1>1 DEF Taken

(* Only a count that was written counts.                                   *)
LEMMA CountsHas ==
  ASSUME Sound, pc \notin Splits, NEW t \in Table, Counts(t)
  PROVE  HasCount(t) /\ cnt[0][t] \in Nat /\ state[0][t] + 1 = cnt[0][t]
<1>1. 0 \in Source
  BY DEF Source
<1> QED
  BY <1>1, FinalFiles DEF Counts, HasCount

LEMMA InsertRowsRead ==
  ASSUME Sound, ProgressInv, ReadInv, NEW n \in Table, InsertRows(n)
  PROVE  ReadInv'
<1>1. /\ pc = "rows" /\ current = {n} /\ Dir(n) \in Table /\ at \in Nat /\ source \in {0, 1}
      /\ UNCHANGED <<log, ddl, dat, cnt, counted>> /\ UNCHANGED <<works, current, version>>
      /\ \/ source = 0 /\ source' = 1 /\ pc' = "rows" /\ at' = at
         \/ source = 1 /\ source' = 0 /\ pc' = "state" /\ at' = at + 1
  BY InsertRowsFacts
<1>2. ASSUME NEW m \in Table, NEW r, ReadFrom(m, r) PROVE ReadFrom(m, r)'
  <2>1. \A i \in Nat : Taken(r.source, i) => Taken(r.source, i)'
    BY TakenKept
  <2> QED
    BY <1>1, <1>2, <2>1, ReadFromKept
<1>3. ASSUME at + 1 \in DOMAIN dat[source][Dir(n)], NEW j \in DOMAIN dat[source][Dir(n)][at + 1],
             NEW r, r = NewRead(source, Dir(n), j)
      PROVE  ReadFrom(n, r)'
  <2>1. PICK t \in Table : t = Dir(n)
    BY <1>1
  <2>2. PICK i \in Nat : i = at + 1
    BY <1>1
  <2>3. r.table = t /\ r.source = source /\ r.place = dat[source][t][i][j] /\ r.version = version
    BY <1>3, <2>1, <2>2 DEF NewRead
  <2>4. r.place \in Range(dat[source][t][i])
    BY <1>3, <2>1, <2>2, <2>3 DEF Range
  <2>5. HasCount(t) => i <= cnt[0][t] /\ Version(t, i)
    <3> SUFFICES ASSUME HasCount(t) PROVE i <= cnt[0][t] /\ Version(t, i)
      OBVIOUS
    <3>1. n \in current /\ HasCount(Dir(n))
      BY <1>1, <2>1
    <3>2. cnt[0][t] \in Nat /\ Progress(t)
      BY <1>1, <2>1, <3>1, CountedWork
    <3>3. at < cnt[0][t] /\ Version(t, at + 1)
      BY <1>1, <3>2 DEF Progress
    <3> QED
      BY <1>1, <2>2, <3>2, <3>3
  <2>10. Counts(t) => HasCount(t)
    BY <1>1, <2>1, CountsHas DEF Splits
  <2>6. FromFile(r, i)
    BY <1>3, <2>1, <2>2, <2>3, <2>4, <2>5, <2>10 DEF FromFile, Version
  <2>7. FromFile(r, i)'
    BY <1>1, <2>6 DEF FromFile, HasCount, Counts, Count
  <2>8. Dir(n)' = t
    BY <1>1, <2>1 DEF Dir
  <2>9. Taken(r.source, i)'
    BY <1>1, <2>2, <2>3 DEF Taken
  <2> QED
    BY <2>2, <2>3, <2>7, <2>8, <2>9 DEF ReadFrom
<1>4. ASSUME NEW m \in Table, NEW k, k \in DOMAIN read'[m], NEW r, r = read'[m][k]
      PROVE  ReadFrom(m, r)'
  <2>1. CASE m # n
    <3>1. k \in DOMAIN read[m] /\ r = read[m][k]
      BY <1>4, <2>1, ReadGrows
    <3>2. ReadFrom(m, r)
      BY <3>1 DEF ReadInv
    <3> QED
      BY <1>2, <3>2
  <2>2. CASE m = n /\ k \in DOMAIN read[n]
    <3>1. r = read[m][k]
      BY <1>4, <2>2, ReadGrows
    <3>2. ReadFrom(m, r)
      BY <2>2, <3>1 DEF ReadInv
    <3> QED
      BY <1>2, <3>2
  <2>3. CASE m = n /\ k \notin DOMAIN read[n]
    <3>1. /\ at + 1 \in DOMAIN dat[source][Dir(n)]
          /\ \E j \in DOMAIN dat[source][Dir(n)][at + 1] : r = NewRead(source, Dir(n), j)
      BY <1>4, <2>3, ReadGrows
    <3> QED
      BY <1>3, <2>3, <3>1
  <2> QED
    BY <2>1, <2>2, <2>3
<1> QED
  <2> SUFFICES ASSUME NEW m \in Table, NEW k, k \in DOMAIN read'[m] PROVE ReadFrom(m, read[m][k])'
    BY DEF ReadInv
  <2>1. PICK r : r = read'[m][k]
    OBVIOUS
  <2>2. ReadFrom(m, r)'
    BY <1>4, <2>1
  <2> QED
    BY <2>1, <2>2 DEF ReadFrom, FromFile, Taken, HasCount, Counts, Count, Dir

LEMMA NextRead == Sound /\ ProgressInv /\ ReadInv /\ [Next]_vars => ReadInv'
<1> SUFFICES ASSUME Sound, ProgressInv, ReadInv, [Next]_vars PROVE ReadInv'
  OBVIOUS
<1>1. ASSUME UNCHANGED read, pc \in Splits \cup {"load"} PROVE ReadInv'
  BY <1>1 DEF Sound, WorksInv, ReadInv
<1>2. ASSUME UNCHANGED <<log, ddl, dat, cnt, counted, read>>,
             \A n \in current' : /\ n \in current /\ works'[n] = works[n]
                                /\ \A s \in Source, i \in Nat : Taken(s, i) => Taken(s, i)'
      PROVE  ReadInv'
  <2>1. ASSUME NEW n \in Table, NEW k \in DOMAIN read[n], NEW r, r = read[n][k]
        PROVE  ReadFrom(n, r)'
    <3>1. ReadFrom(n, r)
      BY <2>1 DEF ReadInv
    <3>2. r.source \in Source
      <4>1. PICK rows \in Seq(Intake) : rows = read[n]
        BY DEF Sound, TypeInv, WorkType
      <4>2. r \in Intake
        BY <2>1, <4>1
      <4> QED
        BY <4>2 DEF Intake
    <3>3. n \in current' => \A i \in Nat : Taken(r.source, i) => Taken(r.source, i)'
      BY <1>2, <3>2
    <3> QED
      BY <1>2, <3>1, <3>3, ReadFromKept
  <2> SUFFICES ASSUME NEW n \in Table, NEW k, k \in DOMAIN read'[n] PROVE ReadFrom(n, read[n][k])'
    BY DEF ReadInv
  <2>2. PICK r : r = read[n][k]
    OBVIOUS
  <2>3. ReadFrom(n, r)'
    BY <1>2, <2>1, <2>2
  <2>4. read'[n][k] = r
    BY <1>2, <2>2
  <2> QED
    BY <2>3, <2>4 DEF ReadFrom, FromFile, Taken, HasCount, Counts, Count, Dir
<1>3. CASE Splitting \/ LoadWorks
  <2>1. CASE Splitting
    <3>1. pc \in Splits /\ UNCHANGED read
      BY <2>1, SplittingMoves DEF Sound
    <3> QED
      BY <1>1, <3>1
  <2>2. CASE LoadWorks
    BY <1>1, <2>2 DEF LoadWorks
  <2> QED
    BY <1>3, <2>1, <2>2
<1>4. ASSUME NEW n \in Table, BeginWork(n) PROVE ReadInv'
  <2>1. /\ pc = "work" /\ current' = {n} /\ n \in DOMAIN works /\ read' = read
        /\ UNCHANGED <<log, ddl, dat, cnt, counted>>
    BY <1>4 DEF BeginWork, splitting, splitter
  <2>2. read[n] = <<>>
    BY <2>1 DEF Sound, WorksInv
  <2> SUFFICES ASSUME NEW m \in Table, NEW k, k \in DOMAIN read'[m] PROVE ReadFrom(m, read[m][k])'
    BY DEF ReadInv
  <2>3. m # n
    BY <2>1, <2>2
  <2>4. PICK r : r = read[m][k]
    OBVIOUS
  <2>5. ReadFrom(m, r)
    BY <2>1, <2>4 DEF ReadInv
  <2>6. ReadFrom(m, r)'
    BY <2>1, <2>3, <2>5, ReadFromKept
  <2>7. read'[m][k] = r
    BY <2>1, <2>4
  <2> QED
    BY <2>6, <2>7 DEF ReadFrom, FromFile, Taken, HasCount, Counts, Count, Dir
<1>5. ASSUME NEW n \in Table, Trace(n) PROVE ReadInv'
  BY <1>2, <1>5 DEF Trace, splitting, splitter, Taken
<1>6. ASSUME NEW n \in Table, EndWork(n) PROVE ReadInv'
  BY <1>2, <1>6 DEF EndWork, splitting, splitter, Taken
<1>7. CASE Done
  BY <1>2, <1>7 DEF Done, splitting, splitter, working, Sound, WorksInv
<1>8. CASE UNCHANGED vars
  BY <1>2, <1>8 DEF vars, splitting, splitter, working, Taken
<1> QED
  BY <1>3, <1>4, <1>5, <1>6, <1>7, <1>8, InsertRowsRead DEF Next, Splitting

LEMMA InitRead == Init => ReadInv
<1>1. DOMAIN <<>> = {}
  OBVIOUS
<1> QED
  BY <1>1 DEF Init, ReadInv

Reading == Sound /\ ProgressInv /\ ReadInv

LEMMA NextReading == Reading /\ [Next]_vars => Reading'
BY NextSound, NextProgress, NextRead DEF Reading

LEMMA InitReading == Init => Reading
BY InitSound, InitRead DEF Init, ProgressInv, Reading

(* A row that was read is in one of the counted files of its source, if    *)
(* that source counted as many states as source 0.                         *)
LEMMA ReadFacts ==
  ASSUME Reading, NEW n \in Table, NEW k \in DOMAIN read[n], NEW r, r = read[n][k],
         Counts(r.table)
  PROVE  /\ r.table \in Table /\ r.source \in Source /\ 0 \in Source /\ pc \notin Splits
         /\ \E i \in 1..cnt[0][r.table] :
              /\ FromFile(r, i) /\ cnt[0][r.table] \in Nat
              /\ r.place \in Range(dat[r.source][r.table][i])
<1>1. /\ r.table \in Table /\ r.source \in Source /\ 0 \in Source
  <2>1. PICK rows \in Seq(Intake) : rows = read[n]
    BY DEF Reading, Sound, TypeInv, WorkType
  <2>2. r \in Intake
    BY <2>1
  <2> QED
    BY <2>2 DEF Intake, Source
<1>2. pc \notin Splits
  <2>1. DOMAIN <<>> = {}
    OBVIOUS
  <2> QED
    BY <2>1 DEF Reading, Sound, WorksInv
<1>3. PICK i \in Nat : FromFile(r, i)
  BY DEF Reading, ReadInv, ReadFrom
<1>4. cnt[0][r.table] \in Nat /\ HasCount(r.table)
  BY <1>1, <1>2, CountsHas DEF Reading
<1>5. i >= 1
  <2>1. PICK R \in Seq(Seq(Nat)) : R = dat[r.source][r.table]
    BY <1>1 DEF Reading, Sound, TypeInv, DiskType
  <2>2. i \in DOMAIN R
    BY <1>3, <2>1 DEF FromFile
  <2> QED
    BY <2>2
<1>6. i <= cnt[0][r.table] /\ r.place \in Range(dat[r.source][r.table][i])
  BY <1>3, <1>4 DEF FromFile
<1>7. i \in 1..cnt[0][r.table]
  BY <1>4, <1>5, <1>6
<1> QED
  BY <1>1, <1>2, <1>3, <1>4, <1>6, <1>7

(* A row and the statements of its file and of the next.                   *)
LEMMA RowOfFile ==
  ASSUME NEW L, NEW F, NEW R, NEW t, NEW n, NEW top, FilesType(L, F, R, t, n),
         Files(L, F, R, t, n, top), NEW i \in 1..(top + 1), NEW p \in Range(R[i])
  PROVE  /\ p \in 1..n /\ IsRow(L, t, p) /\ F[i] < p /\ F[i] <= p /\ F[i] \in 1..n
         /\ \A j \in 1..(top + 1) : i < j => p < F[j]
<1>1. PICK k \in DOMAIN R[i] : p = R[i][k]
  BY DEF Range
<1>2. /\ p \in 1..n /\ IsRow(L, t, p) /\ F[i] < p
      /\ \A j \in 1..(top + 1) : i < j => p < F[j]
  BY <1>1 DEF Files, RowsInPlace
<1>3. F[i] \in 1..n
  BY DEF Files, StatedInOrder
<1>4. F[i] <= p
  BY <1>2, <1>3
<1> QED
  BY <1>2, <1>3, <1>4

-----------------------------------------------------------------------------
LEMMA AtItsVersion ==
  ASSUME Reading, NEW n \in Table, NEW k \in DOMAIN read[n], NEW r, r = read[n][k],
         Counts(r.table), ~DroppedAlone(0, r.table), r.source = 1 => Same(r.table)
  PROVE  r.version = VersionAt(r.source, r.table, r.place)
<1>1. PICK t \in Table : t = r.table
  BY ReadFacts
<1>2. PICK s \in Source : s = r.source
  BY ReadFacts
<1>3. PICK i \in 1..cnt[0][t] :
        /\ FromFile(r, i) /\ cnt[0][t] \in Nat /\ r.place \in Range(dat[s][t][i])
  BY <1>1, <1>2, ReadFacts
<1>4. PICK p : p = r.place
  OBVIOUS
<1>5. PICK L : L = log[s]
  OBVIOUS
<1>6. PICK F : F = ddl[s][t]
  OBVIOUS
<1>7. PICK R : R = dat[s][t]
  OBVIOUS
<1>8. PICK top : top = state[s][t]
  OBVIOUS
<1>9. PICK M : M = log[0]
  OBVIOUS
<1>10. PICK G : G = ddl[0][t]
  OBVIOUS
<1>11. PICK Q : Q = dat[0][t]
  OBVIOUS
<1>12. PICK up : up = state[0][t]
  OBVIOUS
<1>13. /\ Files(L, F, R, t, Len(L), top) /\ FilesType(L, F, R, t, Len(L))
       /\ Files(M, G, Q, t, Len(M), up) /\ FilesType(M, G, Q, t, Len(M))
       /\ up + 1 = cnt[0][t]
  <2>1. pc \notin Splits /\ 0 \in Source
    BY <1>1, ReadFacts
  <2>2. state[0][t] + 1 = cnt[0][t]
    BY <1>1, <2>1, CountsHas DEF Reading
  <2> QED
    BY <2>2, <1>5, <1>6, <1>7, <1>8, <1>9, <1>10, <1>11, <1>12, <2>1, FinalFiles DEF Reading
<1>14. ~Lone(M, t) /\ i \in 1..(up + 1)
  <2>1. 0 \in Source
    BY DEF Source
  <2> QED
    BY <1>1, <1>3, <1>9, <1>13, <2>1, OfTheLog
<1>15. r.version = Vers(M, t, G[i])
  BY <1>1, <1>3, <1>9, <1>10, <1>14 DEF FromFile
<1>16. i \in 1..(top + 1) /\ ~Lone(L, t) /\ Vers(L, t, F[i]) = Vers(M, t, G[i])
  <2>1. CASE s = 0
    BY <1>5, <1>6, <1>8, <1>9, <1>10, <1>12, <1>14, <2>1
  <2>2. CASE s = 1
    <3>1. PICK h : Alike(h, L, M, t)
      <4>1. /\ Statements(1, t) = Bearing(L, t) /\ Statements(0, t) = Bearing(M, t)
        BY <1>5, <1>9, <2>2 DEF Statements, Bearing
      <4>2. Same(t)
        BY <1>1, <1>2, <2>2
      <4>3. PICK h \in Bijection(Statements(1, t), Statements(0, t)) :
              \A x, y \in Statements(1, t) : /\ log[0][h[x]].kind = log[1][x].kind
                                             /\ x < y => h[x] < h[y]
        BY <4>2 DEF Same
      <4>4. Alike(h, L, M, t)
        BY <1>5, <1>9, <2>2, <4>1, <4>3 DEF Alike
      <4> QED
        BY <4>4
    <3>2. i \in 1..(top + 1) /\ Vers(L, t, F[i]) = Vers(M, t, G[i])
      BY <1>13, <1>14, <3>1, AlikeVersions
    <3>3. L \in Seq(Event) /\ M \in Seq(Event)
      BY <1>13 DEF FilesType
    <3>4. ~Lone(L, t)
      BY <1>14, <3>1, <3>3, AlikeLone
    <3> QED
      BY <3>2, <3>4
  <2> QED
    BY <2>1, <2>2 DEF Source
<1>17. Vers(L, t, p) = Vers(L, t, F[i])
  <2>1. p \in Range(R[i])
    BY <1>3, <1>4, <1>7
  <2>2. p \in 1..Len(L) /\ F[i] <= p
    BY <1>13, <1>16, <2>1, RowOfFile
  <2>3. \A j \in 1..(top + 1) : i < j => p < F[j]
    BY <1>13, <1>16, <2>1, RowOfFile
  <2> QED
    BY <1>13, <1>16, <2>2, <2>3, VersionInFile
<1>18. VersionAt(s, t, p) = Vers(L, t, p)
  BY <1>5, OfTheLog
<1> QED
  BY <1>1, <1>2, <1>4, <1>15, <1>16, <1>17, <1>18

(* A row is taken in by a table that went through the ALTERs its own had   *)
(* gone through when it was logged, whatever files of other runs and of    *)
(* dropped databases lie about, and however often the splitter died; the   *)
(* rows of source 1 too, if it had the same statements on the table.       *)
THEOREM RowsMeetTheirVersion == Spec => []ReadAtItsVersion
<1>1. Reading => ReadAtItsVersion
  <2> SUFFICES ASSUME Reading, NEW n \in Table, NEW k \in DOMAIN read[n]
               PROVE  LET r == read[n][k]
                      IN  \/ r.version = VersionAt(r.source, r.table, r.place)
                          \/ ~Counts(r.table) \/ DroppedAlone(0, r.table)
                          \/ r.source = 1 /\ ~Same(r.table)
    BY DEF ReadAtItsVersion
  <2>1. PICK r : r = read[n][k]
    OBVIOUS
  <2>2. Counts(r.table) /\ ~DroppedAlone(0, r.table) /\ (r.source = 1 => Same(r.table)) =>
          r.version = VersionAt(r.source, r.table, r.place)
    BY <2>1, AtItsVersion
  <2> QED
    BY <2>1, <2>2
<1> QED
  BY <1>1, InitReading, NextReading, PTL DEF Spec

-----------------------------------------------------------------------------
(* A source that came to the states source 0 came to.                      *)
LEMMA AsFar ==
  ASSUME Sound, pc \notin Splits, NEW s \in Source, NEW t \in Table,
         Counts(t), ~(Count(s, t) < Count(0, t)), NEW i \in 1..cnt[0][t]
  PROVE  i \in 1..(state[s][t] + 1)
<1>1. 0 \in Source
  BY DEF Source
<1>2. cnt[0][t] \in Nat /\ cnt[0][t] > 0 /\ Count(0, t) = cnt[0][t]
  BY <1>1, FinalFiles DEF Counts
<1>3. Count(s, t) \in Int
  BY FinalFiles
<1>4. Count(s, t) # Absent
  BY <1>2, <1>3 DEF Absent
<1>5. state[s][t] + 1 = cnt[s][t] /\ Count(s, t) = cnt[s][t]
  BY <1>4, FinalFiles
<1> QED
  BY <1>2, <1>3, <1>5

LEMMA LivesYet ==
  ASSUME Reading, NEW n \in Table, NEW k \in DOMAIN read[n], NEW r, r = read[n][k],
         Counts(r.table), ~DroppedAlone(r.source, r.table),
         ~(Count(r.source, r.table) < Count(0, r.table))
  PROVE  r.place \in Living(r.source, r.table)
<1>1. PICK t \in Table : t = r.table
  BY ReadFacts
<1>2. PICK s \in Source : s = r.source
  BY ReadFacts
<1>3. PICK i \in 1..cnt[0][t] : r.place \in Range(dat[s][t][i])
  BY <1>1, <1>2, ReadFacts
<1>4. pc \notin Splits
  BY ReadFacts
<1>5. PICK top : top = state[s][t]
  OBVIOUS
<1>6. i \in 1..(top + 1)
  BY <1>1, <1>2, <1>4, <1>5, AsFar DEF Reading
<1>7. PICK L : L = log[s]
  OBVIOUS
<1>8. PICK F : F = ddl[s][t]
  OBVIOUS
<1>9. PICK R : R = dat[s][t]
  OBVIOUS
<1>10. PICK p : p = r.place
  OBVIOUS
<1>11. Files(L, F, R, t, Len(L), top) /\ FilesType(L, F, R, t, Len(L))
  BY <1>4, <1>5, <1>7, <1>8, <1>9, FinalFiles DEF Reading
<1>12. p \in Range(R[i])
  BY <1>3, <1>9, <1>10
<1>13. p \in 1..Len(L) /\ IsRow(L, t, p) /\ F[i] < p /\ F[i] \in 1..Len(L)
  BY <1>6, <1>11, <1>12, RowOfFile
<1>14. ~Lone(L, t)
  BY <1>1, <1>2, <1>7, OfTheLog
<1>15. F[1] = Start(L, t, Len(L)) /\ F[1] <= F[i]
  BY <1>6, <1>11, <1>14, StatedTwice
<1>16. Start(L, t, Len(L)) \in Nat /\ Len(L) \in Nat
  BY <1>11, StartFacts DEF FilesType
<1>17. p \in Start(L, t, Len(L)) + 1 .. Len(L)
  BY <1>13, <1>15, <1>16
<1>18. Begun(s, t, Len(L)) = Start(L, t, Len(L))
  BY <1>7, OfTheLog
<1>19. L[p].table = t /\ L[p].kind = "rows"
  BY <1>13 DEF IsRow
<1> QED
  BY <1>1, <1>2, <1>7, <1>10, <1>17, <1>18, <1>19 DEF Living

(* No row of a table that was dropped by DROP DATABASE, or created anew,   *)
(* comes back to a table that source 0 has at the end, whatever states and *)
(* files the table had before: but the rows of a source that did not come  *)
(* to all states of source 0 again.                                        *)
THEOREM DroppedRowsStayDropped == Spec => []NoneComesBack
<1>1. Reading => NoneComesBack
  <2> SUFFICES ASSUME Reading, NEW n \in Table, NEW k \in DOMAIN read[n]
               PROVE  LET r == read[n][k]
                      IN  \/ r.place \in Living(r.source, r.table)
                          \/ ~Counts(r.table) \/ DroppedAlone(r.source, r.table)
                          \/ Count(r.source, r.table) < Count(0, r.table)
    BY DEF NoneComesBack
  <2>1. PICK r : r = read[n][k]
    OBVIOUS
  <2>2. Counts(r.table) /\ ~DroppedAlone(r.source, r.table)
          /\ ~(Count(r.source, r.table) < Count(0, r.table)) =>
            r.place \in Living(r.source, r.table)
    BY <2>1, LivesYet
  <2> QED
    BY <2>1, <2>2
<1> QED
  BY <1>1, InitReading, NextReading, PTL DEF Spec

-----------------------------------------------------------------------------
(* The rows of a source are read file by file.                             *)
LEMMA FileByFile ==
  ASSUME NEW L, NEW F, NEW R, NEW t, NEW n, NEW top, FilesType(L, F, R, t, n),
         Files(L, F, R, t, n, top), NEW i \in 1..(top + 1), NEW j \in 1..(top + 1), i < j,
         NEW p \in Range(R[i]), NEW q \in Range(R[j])
  PROVE  p < q
<1>1. p \in 1..n /\ p < F[j]
  BY RowOfFile
<1>2. q \in 1..n /\ F[j] < q /\ F[j] \in 1..n
  BY RowOfFile
<1> QED
  BY <1>1, <1>2

LEMMA InsertRowsOrder ==
  ASSUME Reading, ReadInOrder, NEW n \in Table, InsertRows(n)
  PROVE  ReadInOrder'
<1>1. /\ pc = "rows" /\ current = {n} /\ Dir(n) \in Table /\ at \in Nat /\ source \in {0, 1}
      /\ source \in Source /\ UNCHANGED <<cnt, counted>> /\ pc # "failed" /\ pc \notin Splits
  BY InsertRowsFacts DEF Reading, Source, Splits
<1>2. PICK t \in Table : t = Dir(n)
  BY <1>1
<1>3. PICK s \in Source : s = source
  BY <1>1
<1>4. PICK R \in Seq(Seq(Nat)) : R = dat[s][t]
  BY DEF Reading, Sound, TypeInv, DiskType
<1>5. PICK old : old = read[n]
  OBVIOUS
<1>6. PICK all : all = read'[n]
  OBVIOUS
<1>7. /\ DOMAIN old = 1..Len(old) /\ Len(old) \in Nat
      /\ \A k \in DOMAIN old : k \in DOMAIN all /\ all[k] = old[k]
      /\ \A m \in Table \ {n} : read'[m] = read[m]
  BY <1>5, <1>6, ReadGrows DEF Reading
<1>8. ASSUME NEW k \in DOMAIN all, k \notin DOMAIN old
      PROVE  /\ at + 1 \in DOMAIN R
             /\ \E b \in DOMAIN R[at + 1] :
                  k = Len(old) + b /\ all[k].source = s /\ all[k].table = t
                  /\ all[k].place = R[at + 1][b]
  <2>1. /\ at + 1 \in DOMAIN R
        /\ \E b \in DOMAIN R[at + 1] : k = Len(old) + b /\ all[k] = NewRead(s, t, b)
    BY <1>2, <1>3, <1>4, <1>5, <1>6, <1>8, ReadGrows DEF Reading
  <2> QED
    BY <1>4, <2>1 DEF NewRead
<1>9. ASSUME Counts(t), ~(Count(s, t) < Count(0, t))
      PROVE  /\ at + 1 \in 1..(state[s][t] + 1)
             /\ \A i \in 1..at : i \in 1..(state[s][t] + 1)
             /\ FilesType(log[s], ddl[s][t], R, t, Len(log[s]))
             /\ Files(log[s], ddl[s][t], R, t, Len(log[s]), state[s][t])
  <2>1. n \in current /\ HasCount(Dir(n))
    BY <1>1, <1>2, <1>9, CountsHas DEF Reading
  <2>2. at < cnt[0][t] /\ cnt[0][t] \in Nat
    BY <1>1, <1>2, <2>1, CountedWork DEF Reading, Progress
  <2>3. at + 1 \in 1..cnt[0][t] /\ \A i \in 1..at : i \in 1..cnt[0][t]
    BY <1>1, <2>2
  <2>4. pc \notin Splits /\ Sound
    BY <1>1 DEF Reading
  <2>5. \A i \in 1..cnt[0][t] : i \in 1..(state[s][t] + 1)
    BY <1>9, <2>4, AsFar
  <2> QED
    BY <1>4, <2>3, <2>4, <2>5, FinalFiles
<1>10. ASSUME NEW j \in DOMAIN all, NEW k \in DOMAIN all, j < k, NEW q, NEW r,
              q = all[j], r = all[k], q.source = r.source, Counts(r.table),
              ~(Count(r.source, r.table) < Count(0, r.table))
       PROVE  q.place < r.place
  <2>1. CASE k \in DOMAIN old
    <3>1. j \in DOMAIN old
      <4>1. j \in DOMAIN old \/ j \in Int
        BY <1>4, <1>7, <1>8, <1>10
      <4>2. j \in DOMAIN old \/ j > Len(old)
        BY <1>4, <1>7, <1>8, <1>10
      <4> QED
        BY <1>7, <1>10, <2>1, <4>1, <4>2
    <3>2. q = old[j] /\ r = old[k]
      BY <1>7, <1>10, <2>1, <3>1
    <3> QED
      BY <1>5, <1>10, <2>1, <3>1, <3>2 DEF ReadInOrder
  <2>2. CASE k \notin DOMAIN old
    <3>1. /\ at + 1 \in DOMAIN R /\ r.source = s /\ r.table = t
          /\ \E b \in DOMAIN R[at + 1] : k = Len(old) + b /\ r.place = R[at + 1][b]
      BY <1>8, <1>10, <2>2
    <3>2. PICK b \in DOMAIN R[at + 1] : k = Len(old) + b /\ r.place = R[at + 1][b]
      BY <3>1
    <3>3. PICK L : L = log[s]
      OBVIOUS
    <3>4. PICK F : F = ddl[s][t]
      OBVIOUS
    <3>5. PICK top : top = state[s][t]
      OBVIOUS
    <3>6. /\ at + 1 \in 1..(top + 1) /\ \A i \in 1..at : i \in 1..(top + 1)
          /\ FilesType(L, F, R, t, Len(L)) /\ Files(L, F, R, t, Len(L), top)
      BY <1>9, <1>10, <3>1, <3>3, <3>4, <3>5
    <3>7. CASE j \in DOMAIN old
      <4>1. q = read[n][j]
        BY <1>5, <1>7, <1>10, <3>7
      <4>2. PICK i \in Nat : FromFile(q, i) /\ q.table = t /\ Taken(s, i)
        <5>1. ReadFrom(n, q)
          BY <1>5, <3>7, <4>1 DEF Reading, ReadInv
        <5>2. n \in current /\ q.source = s
          BY <1>1, <1>10, <3>1
        <5> QED
          BY <1>2, <5>1, <5>2 DEF ReadFrom
      <4>3. i \in DOMAIN R /\ q.place \in Range(R[i])
        BY <1>4, <1>10, <3>1, <4>2 DEF FromFile
      <4>4. i <= at
        BY <1>1, <1>3, <4>2 DEF Taken
      <4>5. i \in 1..at /\ i < at + 1
        <5>1. i \in 1..Len(R) /\ Len(R) \in Nat
          BY <1>4, <4>3
        <5> QED
          BY <1>1, <4>4, <5>1
      <4>6. i \in 1..(top + 1) /\ r.place \in Range(R[at + 1])
        BY <3>2, <3>6, <4>5 DEF Range
      <4> QED
        BY <3>6, <4>3, <4>5, <4>6, FileByFile
    <3>8. CASE j \notin DOMAIN old
      <4>1. PICK a \in DOMAIN R[at + 1] : j = Len(old) + a /\ q.place = R[at + 1][a]
        BY <1>8, <1>10, <3>8
      <4>2. R[at + 1] \in Seq(Nat)
        BY <1>4, <3>1
      <4>3. a < b
        BY <1>7, <1>10, <3>2, <4>1, <4>2
      <4>4. RowsInOrder(R, top)
        BY <3>6 DEF Files
      <4> QED
        BY <3>2, <3>6, <4>1, <4>3, <4>4 DEF RowsInOrder
    <3> QED
      BY <3>7, <3>8
  <2> QED
    BY <2>1, <2>2
<1>11. ASSUME NEW m \in Table, NEW j \in DOMAIN read'[m], NEW k \in DOMAIN read'[m], j < k,
              NEW q, NEW r, q = read'[m][j], r = read'[m][k], q.source = r.source,
              Counts(r.table), ~(Count(r.source, r.table) < Count(0, r.table))
       PROVE  q.place < r.place
  <2>1. CASE m = n
    BY <1>6, <1>10, <1>11, <2>1
  <2>2. CASE m # n
    BY <1>7, <1>11, <2>2 DEF ReadInOrder
  <2> QED
    BY <2>1, <2>2
<1>12. ASSUME NEW m \in Table, NEW j \in DOMAIN read'[m], NEW k \in DOMAIN read'[m], j < k
       PROVE  LET q == read'[m][j] r == read'[m][k]
              IN  \/ q.source # r.source \/ q.place < r.place
                  \/ ~Counts(r.table) \/ Count(r.source, r.table) < Count(0, r.table)
  <2>1. PICK q : q = read'[m][j]
    OBVIOUS
  <2>2. PICK r : r = read'[m][k]
    OBVIOUS
  <2>3. \/ q.source # r.source \/ q.place < r.place
        \/ ~Counts(r.table) \/ Count(r.source, r.table) < Count(0, r.table)
    BY <1>11, <1>12, <2>1, <2>2
  <2> QED
    BY <2>1, <2>2, <2>3
<1> QED
  BY <1>1, <1>12 DEF ReadInOrder, Counts, Count

LEMMA NextOrder == Reading /\ ReadInOrder /\ [Next]_vars => ReadInOrder'
<1> SUFFICES ASSUME Reading, ReadInOrder, [Next]_vars PROVE ReadInOrder'
  OBVIOUS
<1>1. ASSUME UNCHANGED <<read, cnt, counted>> PROVE ReadInOrder'
  BY <1>1 DEF ReadInOrder, Counts, Count
<1>2. CASE Splitting
  <2>1. pc \in Splits /\ UNCHANGED read
    BY <1>2, SplittingMoves DEF Reading, Sound
  <2>2. \A n \in Table : DOMAIN read'[n] = {}
    BY <2>1 DEF Reading, Sound, WorksInv
  <2> QED
    BY <2>2 DEF ReadInOrder
<1>3. CASE LoadWorks \/ Done
  BY <1>1, <1>3 DEF LoadWorks, Done, working, splitting, splitter
<1>4. ASSUME NEW n \in Table, BeginWork(n) \/ Trace(n) \/ EndWork(n) PROVE ReadInOrder'
  BY <1>1, <1>4 DEF BeginWork, Trace, EndWork, splitting, splitter
<1>5. CASE UNCHANGED vars
  BY <1>1, <1>5 DEF vars, working, splitting, splitter
<1> QED
  BY <1>2, <1>3, <1>4, <1>5, InsertRowsOrder DEF Next, Splitting

(* A work takes in the rows of a source in the order of its log, and none  *)
(* twice, also if the splitter died and dealt with the log again: the      *)
(* stamps that SubWorker counts tell the newer row.                        *)
THEOREM RowsComeInOrder == Spec => []ReadInOrder
<1>1. Init => ReadInOrder
  <2>1. DOMAIN <<>> = {}
    OBVIOUS
  <2> QED
    BY <2>1 DEF Init, ReadInOrder
<1> QED
  BY <1>1, InitReading, NextReading, NextOrder, PTL DEF Spec

-----------------------------------------------------------------------------
(* Nothing is left unread: the works have read the files they are past, in *)
(* whatever states source 0 did not count, and a work that is done those   *)
(* that source 0 counts, if no other directory made its name.              *)

HasRead(n, t, s, p) ==
  \E k \in DOMAIN read[n] :
    read[n][k].table = t /\ read[n][k].source = s /\ read[n][k].place = p

FileRead(n, t, s, i) == \A p \in Range(dat[s][t][i]) : HasRead(n, t, s, p)

TakenRead ==
  \A n \in current, s \in Source, i \in Nat :
    i \in DOMAIN dat[s][Dir(n)] /\ Taken(s, i) => FileRead(n, Dir(n), s, i)

Alone(t) == \A u \in Table : stem[u] = stem[t] /\ Directory(u) => u = t

DoneWith(t) ==
  IF stem[t] \in DOMAIN works THEN Dir(stem[t]) = t
  ELSE \A s \in Source, i \in Nat :
         i \in DOMAIN dat[s][t] /\ i <= cnt[0][t] => FileRead(stem[t], t, s, i)

WholeInv ==
  /\ TakenRead
  /\ pc \notin Splits \cup {"load"} => \A t \in Table : Directory(t) /\ Alone(t) => DoneWith(t)

LEMMA FileReadKept ==
  ASSUME NEW n, NEW t, NEW s, NEW i, FileRead(n, t, s, i), UNCHANGED dat,
         \A k \in DOMAIN read[n] : k \in DOMAIN read'[n] /\ read'[n][k] = read[n][k]
  PROVE  FileRead(n, t, s, i)'
BY DEF FileRead, HasRead

LEMMA DoneWithKept ==
  ASSUME NEW t, DoneWith(t), UNCHANGED <<dat, cnt, stem, works>>, NEW n, n = stem[t],
         \A k \in DOMAIN read[n] : k \in DOMAIN read'[n] /\ read'[n][k] = read[n][k]
  PROVE  DoneWith(t)'
<1>1. CASE n \in DOMAIN works
  BY <1>1 DEF DoneWith, Dir
<1>2. CASE n \notin DOMAIN works
  <2>1. ASSUME NEW s \in Source, NEW i \in Nat, i \in DOMAIN dat[s][t], i <= cnt[0][t]
        PROVE  FileRead(n, t, s, i)'
    <3>1. FileRead(n, t, s, i)
      BY <1>2, <2>1 DEF DoneWith
    <3> QED
      BY <3>1, FileReadKept
  <2> QED
    BY <1>2, <2>1 DEF DoneWith, FileRead, HasRead
<1> QED
  BY <1>1, <1>2

(* A step that goes no further through the files.                          *)
LEMMA WholeKept ==
  ASSUME WholeInv, UNCHANGED <<ddl, dat, cnt, stem, works, read>>, current' \subseteq current,
         pc \notin Splits \cup {"load"},
         current' # {} => \A s \in Source, i \in Nat : Taken(s, i)' => Taken(s, i)
  PROVE  WholeInv'
<1>1. TakenRead'
  BY DEF WholeInv, TakenRead, FileRead, HasRead, Dir
<1>2. ASSUME NEW t \in Table, (Directory(t) /\ Alone(t))' PROVE DoneWith(t)'
  <2>1. Directory(t) /\ Alone(t)
    BY <1>2 DEF Directory, Alone
  <2> QED
    BY <2>1 DEF WholeInv, DoneWith, FileRead, HasRead, Dir
<1> QED
  BY <1>1, <1>2 DEF WholeInv

LEMMA LoadWorksWhole ==
  ASSUME Sound, LoadWorks
  PROVE  WholeInv'
<1>1. /\ pc = "load" /\ UNCHANGED <<stem, ddl, current>>
  BY DEF LoadWorks, splitting, splitter
<1>2. PICK last \in [{stem[t] : t \in {u \in Table : Directory(u)}} -> Table], unset \in Garbage :
        /\ \A n \in DOMAIN last : Directory(last[n]) /\ stem[last[n]] = n
        /\ works' = [n \in DOMAIN last |->
                       [dir |-> last[n],
                        count |-> IF CountOf(last[n]) = Absent THEN unset ELSE CountOf(last[n])]]
  BY DEF LoadWorks
<1>3. ASSUME NEW t \in Table, (Directory(t) /\ Alone(t))' PROVE DoneWith(t)'
  <2>1. Directory(t) /\ Alone(t)
    BY <1>1, <1>3 DEF Directory, Alone
  <2>2. PICK n : n = stem[t]
    OBVIOUS
  <2>3. n \in DOMAIN last
    BY <2>1, <2>2
  <2>4. last[n] \in Table /\ Directory(last[n]) /\ stem[last[n]] = n
    BY <1>2, <2>3
  <2>5. last[n] = t
    BY <2>1, <2>2, <2>4 DEF Alone
  <2>6. n \in DOMAIN works' /\ works'[n].dir = t
    BY <1>2, <2>3, <2>5
  <2>7. stem'[t] = n
    BY <1>1, <2>2
  <2> QED
    BY <2>6, <2>7 DEF DoneWith, Dir
<1>4. current' = {}
  BY <1>1 DEF Sound, WorksInv
<1> QED
  BY <1>3, <1>4 DEF WholeInv, TakenRead

LEMMA BeginWorkWhole ==
  ASSUME Sound, WholeInv, NEW n \in Table, BeginWork(n)
  PROVE  WholeInv'
<1>1. /\ pc = "work" /\ UNCHANGED <<stem, ddl, dat, cnt, works, read>>
      /\ current' = {n} /\ at' = 0 /\ pc' = "state"
      /\ n \in DOMAIN works
  BY DEF BeginWork, splitting, splitter
<1>2. ASSUME NEW s \in Source, NEW i \in Nat, i \in DOMAIN dat[s][Dir(n)] PROVE ~Taken(s, i)'
  <2>1. PICK R \in Seq(Seq(Nat)) : R = dat[s][Dir(n)]
    BY <1>1 DEF Sound, TypeInv, DiskType, WorkType, Dir
  <2>2. i >= 1
    BY <1>2, <2>1
  <2> QED
    BY <1>1, <2>2 DEF Taken
<1>3. TakenRead'
  <2> SUFFICES ASSUME NEW s \in Source, NEW i \in Nat, i \in DOMAIN dat'[s][Dir(n)'], Taken(s, i)'
               PROVE  FALSE
    BY <1>1 DEF TakenRead
  <2>1. Dir(n)' = Dir(n)
    BY <1>1 DEF Dir
  <2> QED
    BY <1>1, <1>2, <2>1
<1>4. ASSUME NEW t \in Table, (Directory(t) /\ Alone(t))' PROVE DoneWith(t)'
  <2>1. Directory(t) /\ Alone(t)
    BY <1>1, <1>4 DEF Directory, Alone
  <2>2. DoneWith(t)
    BY <1>1, <2>1 DEF WholeInv, Splits
  <2> QED
    BY <1>1, <2>2, DoneWithKept
<1> QED
  BY <1>3, <1>4 DEF WholeInv

LEMMA InsertRowsWhole ==
  ASSUME Sound, WholeInv, NEW n \in Table, InsertRows(n)
  PROVE  WholeInv'
<1>1. /\ pc = "rows" /\ current = {n} /\ Dir(n) \in Table /\ at \in Nat /\ source \in {0, 1}
      /\ UNCHANGED <<stem, ddl, dat, cnt>> /\ UNCHANGED <<works, current>>
      /\ \/ source = 0 /\ source' = 1 /\ pc' = "rows" /\ at' = at
         \/ source = 1 /\ source' = 0 /\ pc' = "state" /\ at' = at + 1
  BY InsertRowsFacts
<1>2. ASSUME NEW m \in Table
      PROVE  \A k \in DOMAIN read[m] : k \in DOMAIN read'[m] /\ read'[m][k] = read[m][k]
  BY ReadGrows
<1>3. PICK t \in Table : t = Dir(n)
  BY <1>1
<1>4. ASSUME NEW s \in Source, NEW i \in Nat, i \in DOMAIN dat[s][t], Taken(s, i)'
      PROVE  FileRead(n, t, s, i)'
  <2>1. CASE Taken(s, i)
    <3>1. FileRead(n, t, s, i)
      BY <1>1, <1>3, <1>4, <2>1 DEF WholeInv, TakenRead
    <3> QED
      BY <1>1, <1>2, <3>1, FileReadKept
  <2>2. CASE ~Taken(s, i)
    <3>1. s = source /\ i = at + 1
      BY <1>1, <1>4, <2>2 DEF Taken, Source
    <3>2. ASSUME NEW p \in Range(dat[s][t][i]) PROVE HasRead(n, t, s, p)'
      <4>1. PICK j \in DOMAIN dat[s][t][i] : p = dat[s][t][i][j]
        BY DEF Range
      <4>2. \E k \in DOMAIN read'[n] : read'[n][k] = NewRead(s, t, j)
        BY <1>3, <1>4, <3>1, <4>1, ReadGrows
      <4> QED
        BY <3>1, <4>1, <4>2 DEF HasRead, NewRead
    <3> QED
      BY <1>1, <3>2 DEF FileRead, HasRead
  <2> QED
    BY <2>1, <2>2
<1>5. TakenRead'
  <2>1. Dir(n)' = t
    BY <1>1, <1>3 DEF Dir
  <2> SUFFICES ASSUME NEW s \in Source, NEW i \in Nat, i \in DOMAIN dat'[s][Dir(n)'], Taken(s, i)'
               PROVE  FileRead(n, Dir(n), s, i)'
    BY <1>1 DEF TakenRead
  <2>2. FileRead(n, t, s, i)'
    BY <1>1, <1>4, <2>1
  <2> QED
    BY <2>1, <2>2 DEF FileRead, HasRead
<1>6. ASSUME NEW u \in Table, (Directory(u) /\ Alone(u))' PROVE DoneWith(u)'
  <2>1. Directory(u) /\ Alone(u)
    BY <1>1, <1>6 DEF Directory, Alone
  <2>2. DoneWith(u)
    BY <1>1, <2>1 DEF WholeInv, Splits
  <2>3. stem[u] \in Table
    BY DEF Sound, TypeInv, MainType
  <2> QED
    BY <1>1, <1>2, <2>2, <2>3, DoneWithKept
<1> QED
  BY <1>5, <1>6 DEF WholeInv

LEMMA EndWorkWhole ==
  ASSUME Sound, WholeInv, NEW n \in Table, EndWork(n)
  PROVE  WholeInv'
<1>1. /\ pc = "state" /\ n \in current /\ at >= works[n].count
      /\ UNCHANGED <<stem, ddl, dat, cnt, read, at>>
      /\ \/ pc' = "failed" /\ UNCHANGED <<works, current>>
         \/ pc' = "work" /\ current' = {} /\ works' = [m \in DOMAIN works \ {n} |-> works[m]]
  BY DEF EndWork, splitting, splitter
<1>2. CASE pc' = "failed" /\ UNCHANGED <<works, current>>
  <2>1. pc \notin Splits \cup {"load"}
    BY <1>1 DEF Splits
  <2>2. \A s \in Source, i \in Nat : Taken(s, i)' => Taken(s, i)
    BY <1>1, <1>2 DEF Taken
  <2> QED
    BY <1>1, <1>2, <2>1, <2>2, WholeKept
<1>3. CASE pc' = "work" /\ current' = {} /\ works' = [m \in DOMAIN works \ {n} |-> works[m]]
  <2>1. PICK d \in Table : d = Dir(n)
    BY <1>1 DEF Sound, TypeInv, WorkType, WorksInv, Dir
  <2>2. n \in DOMAIN works /\ (HasCount(d) => works[n].count = cnt[0][d]) /\ at \in Nat
    BY <1>1, <2>1 DEF Sound, TypeInv, WorkType, WorksInv
  <2>3. ASSUME NEW s \in Source, NEW i \in Nat, i \in DOMAIN dat[s][d], i <= cnt[0][d]
        PROVE  FileRead(n, d, s, i)
    <3>1. HasCount(d)
      BY <2>3 DEF HasCount, Absent
    <3>2. 0 \in Source /\ pc \notin Splits
      BY <1>1 DEF Source, Splits
    <3>3. cnt[0][d] \in Nat
      BY <3>1, <3>2, FinalFiles DEF HasCount
    <3>4. i <= at
      BY <1>1, <2>2, <2>3, <3>1, <3>3
    <3> QED
      BY <1>1, <2>1, <2>3, <3>4 DEF WholeInv, TakenRead, Taken
  <2>4. ASSUME NEW t \in Table, (Directory(t) /\ Alone(t))' PROVE DoneWith(t)'
    <3>1. Directory(t) /\ Alone(t)
      BY <1>1, <2>4 DEF Directory, Alone
    <3>2. DoneWith(t)
      BY <1>1, <3>1 DEF WholeInv, Splits
    <3>3. CASE stem[t] = n
      <4>1. d = t
        BY <2>1, <2>2, <3>2, <3>3 DEF DoneWith
      <4>2. \A s \in Source, i \in Nat :
              i \in DOMAIN dat[s][t] /\ i <= cnt[0][t] => FileRead(n, t, s, i)
        BY <2>3, <4>1
      <4>3. stem'[t] = n /\ n \notin DOMAIN works'
        BY <1>1, <1>3, <3>3
      <4> QED
        BY <1>1, <4>2, <4>3 DEF DoneWith, FileRead, HasRead
    <3>4. CASE stem[t] # n /\ stem[t] \in DOMAIN works
      BY <1>1, <1>3, <3>2, <3>4 DEF DoneWith, Dir
    <3>5. CASE stem[t] # n /\ stem[t] \notin DOMAIN works
      BY <1>1, <1>3, <3>2, <3>5 DEF DoneWith, FileRead, HasRead
    <3> QED
      BY <3>3, <3>4, <3>5
  <2>5. TakenRead'
    BY <1>3 DEF TakenRead
  <2> QED
    BY <2>4, <2>5 DEF WholeInv
<1> QED
  BY <1>1, <1>2, <1>3

LEMMA NextWhole == Sound /\ WholeInv /\ [Next]_vars => WholeInv'
<1> SUFFICES ASSUME Sound, WholeInv, [Next]_vars PROVE WholeInv'
  OBVIOUS
<1>1. CASE Splitting
  <2>1. pc' \in Splits \cup {"load"} /\ pc \in Splits /\ UNCHANGED current
    BY <1>1, SplittingMoves DEF Sound
  <2>2. current' = {}
    BY <2>1 DEF Sound, WorksInv
  <2> QED
    BY <2>1, <2>2 DEF WholeInv, TakenRead
<1>2. ASSUME NEW n \in Table, Trace(n) PROVE WholeInv'
  <2>1. /\ pc = "state" /\ UNCHANGED <<ddl, dat, cnt, stem, works, read, current, at>>
        /\ \/ pc' = "failed"
           \/ pc' = "rows" /\ source' = 0
    BY <1>2 DEF Trace, splitting, splitter
  <2>2. pc \notin Splits \cup {"load"}
    BY <2>1 DEF Splits
  <2>3. \A s \in Source, i \in Nat : Taken(s, i)' => Taken(s, i)
    BY <2>1 DEF Taken
  <2> QED
    BY <2>1, <2>2, <2>3, WholeKept
<1>3. CASE Done
  <2>1. pc = "work" /\ UNCHANGED <<ddl, dat, cnt, stem, works, read, current>>
    BY <1>3 DEF Done, splitting, splitter, working
  <2>2. pc \notin Splits \cup {"load"}
    BY <2>1 DEF Splits
  <2>3. current' = {}
    BY <2>1 DEF Sound, WorksInv
  <2> QED
    BY <2>1, <2>2, <2>3, WholeKept
<1>4. CASE UNCHANGED vars
  <2>1. UNCHANGED <<pc, source, ddl, dat, cnt, stem, works, read, current, at>>
    BY <1>4 DEF vars, splitting, splitter, working
  <2>2. TakenRead'
    BY <2>1 DEF WholeInv, TakenRead, Taken, FileRead, HasRead, Dir
  <2>3. ASSUME NEW t \in Table, (Directory(t) /\ Alone(t))', pc \notin Splits \cup {"load"}
        PROVE  DoneWith(t)'
    <3>1. Directory(t) /\ Alone(t)
      BY <2>1, <2>3 DEF Directory, Alone
    <3>2. DoneWith(t)
      BY <2>3, <3>1 DEF WholeInv
    <3> QED
      BY <2>1, <3>2, DoneWithKept
  <2> QED
    BY <2>1, <2>2, <2>3 DEF WholeInv
<1> QED
  BY <1>1, <1>2, <1>3, <1>4, LoadWorksWhole, BeginWorkWhole, InsertRowsWhole, EndWorkWhole
     DEF Next, Splitting

LEMMA RowsWereRead ==
  ASSUME Sound, WholeInv, pc = "done", NEW s \in Source, NEW t \in Table,
         ~(Count(s, t) > Count(0, t)), Alone(t), \A u \in Table : ~DroppedAlone(s, u),
         \A q \in DOMAIN log[s] : ~ThrewAt(s, q),
         NEW p \in Living(s, t)
  PROVE  Refused(s, t, p) \/ HasRead(stem[t], t, s, p)
<1>1. PICK L : L = log[s]
  OBVIOUS
<1>2. PICK R : R = dat[s][t]
  OBVIOUS
<1>3. PICK F : F = ddl[s][t]
  OBVIOUS
<1>4. PICK top : top = state[s][t]
  OBVIOUS
<1>17. pc \notin Splits
  BY DEF Splits
<1>5. Files(L, F, R, t, Len(L), top) /\ FilesType(L, F, R, t, Len(L))
  BY <1>1, <1>2, <1>3, <1>4, <1>17, FinalFiles
<1>6. p \in 1..Len(L) /\ p > Start(L, t, Len(L)) /\ IsRow(L, t, p)
  <2>1. /\ Begun(s, t, Len(L)) = Start(L, t, Len(L)) /\ Start(L, t, Len(L)) \in Nat
        /\ L \in Seq(Event) /\ Len(L) \in Nat
    BY <1>1, <1>5, OfTheLog, StartFacts DEF FilesType
  <2>2. p \in Start(L, t, Len(L)) + 1 .. Len(L) /\ L[p].table = t /\ L[p].kind = "rows"
    BY <1>1, <2>1 DEF Living
  <2>3. p \in 1..Len(L) /\ p > Start(L, t, Len(L))
    BY <2>1, <2>2
  <2>4. L[p] \in Event
    BY <2>1, <2>3
  <2> QED
    BY <2>2, <2>3, <2>4 DEF IsRow, Event
<1>7. Calm(L)
  <2>1. \A u \in Table : ~Lone(L, u)
    BY <1>1, OfTheLog
  <2> QED
    BY <1>1, <2>1 DEF Calm, ThrewAt
<1>18. Refused(s, t, p) <=> Refusal(L, t, p)
  BY <1>1, OfTheLog
<1> SUFFICES ASSUME ~Refusal(L, t, p) PROVE HasRead(stem[t], t, s, p)
  BY <1>18
<1>8. PICK i \in 1..(top + 1) : p \in Range(R[i])
  BY <1>5, <1>6, <1>7 DEF Files, AllWritten
<1>9. top # Absent /\ top \in Nat /\ top < Len(R) /\ Len(R) = Len(F)
  BY <1>5, <1>8, StatedTwice DEF Files, Fits
<1>10. i \in Nat /\ i \in DOMAIN R /\ Len(F) # 0
  BY <1>5, <1>8, <1>9 DEF FilesType
<1>11. Count(s, t) # Absent
  BY <1>1, <1>4, <1>7, <1>9, <1>17, FinalFiles
<1>12. top + 1 = Count(s, t)
  BY <1>4, <1>11, <1>17, FinalFiles
<1>13. i <= cnt[0][t]
  <2>1. 0 \in Source
    BY DEF Source
  <2>2. Count(0, t) \in Int /\ Count(s, t) \in Int
    BY <1>17, <2>1, FinalFiles
  <2>3. i <= Count(0, t)
    BY <1>8, <1>9, <1>12, <2>2
  <2>4. Count(0, t) # Absent
    BY <1>8, <1>9, <2>2, <2>3 DEF Absent
  <2>5. Count(0, t) = cnt[0][t]
    BY <1>17, <2>1, <2>4, FinalFiles
  <2> QED
    BY <2>3, <2>5
<1>14. Directory(t)
  <2>1. F # <<>>
    BY <1>10
  <2> QED
    BY <1>3, <2>1 DEF Directory
<1>15. DoneWith(t) /\ DOMAIN works = {}
  BY <1>14, <1>17 DEF WholeInv, Sound, WorksInv
<1>16. FileRead(stem[t], t, s, i)
  BY <1>2, <1>10, <1>13, <1>15 DEF DoneWith
<1> QED
  BY <1>2, <1>8, <1>16 DEF FileRead

(* When all works are done, every row that a table of a source has at the  *)
(* end has been read for it, however often the splitter died: but the rows *)
(* that were refused after DROP DATABASE of another database, those of a   *)
(* table with states that source 0 did not come to, of one of two          *)
(* directories of a name, and of a splitter that threw an exception.       *)
THEOREM AllRowsAreRead == Spec => []EveryRowRead
<1>1. Init => Sound /\ WholeInv
  BY InitSound DEF Init, WholeInv, TakenRead, Splits
<1>2. Sound /\ WholeInv /\ [Next]_vars => (Sound /\ WholeInv)'
  BY NextSound, NextWhole
<1>3. Sound /\ WholeInv => EveryRowRead
  <2> SUFFICES ASSUME Sound, WholeInv, pc = "done", NEW s \in Source, NEW t \in Table,
                      ~(Count(s, t) > Count(0, t)),
                      ~\E u \in Table \ {t} : stem[u] = stem[t] /\ Directory(u),
                      \A u \in Table : ~DroppedAlone(s, u), \A q \in DOMAIN log[s] : ~ThrewAt(s, q),
                      NEW p \in Living(s, t)
               PROVE  \/ Refused(s, t, p)
                      \/ \E k \in DOMAIN read[stem[t]] :
                           LET r == read[stem[t]][k]
                           IN  r.table = t /\ r.source = s /\ r.place = p
    BY DEF EveryRowRead
  <2>1. Alone(t)
    BY DEF Alone
  <2>2. Refused(s, t, p) \/ HasRead(stem[t], t, s, p)
    BY <2>1, RowsWereRead
  <2> QED
    BY <2>2 DEF HasRead
<1> QED
  BY <1>1, <1>2, <1>3, PTL DEF Spec
=============================================================================
