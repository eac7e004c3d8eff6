----------------------------- MODULE GtidProofs -----------------------------
(***************************************************************************)
(* Proofs about GtidIntervals, for any servers, any texts and any number   *)
(* of transactions.                                                        *)
(***************************************************************************)
EXTENDS GtidIntervals, SequenceFacts

List == Seq(Interval)

LEMMA ListFacts ==
  ASSUME NEW list \in List
  PROVE  /\ Len(list) \in Nat /\ DOMAIN list = 1..Len(list)
         /\ \A k \in DOMAIN list :
              list[k] \in Interval /\ list[k].start \in Nat \ {0} /\ list[k].end \in Nat \ {0}
<1>1. \A i \in Interval : i.start \in Nat \ {0} /\ i.end \in Nat \ {0}
  BY DEF Interval
<1>2. list \in Seq(Interval) /\ Len(list) \in Nat /\ DOMAIN list = 1..Len(list)
  BY DEF List
<1>3. \A k \in DOMAIN list : list[k] \in Interval
  BY <1>2
<1> QED
  BY <1>1, <1>2, <1>3

LEMMA MembersOf ==
  ASSUME NEW list \in List, NEW x
  PROVE  x \in Members(list) <=>
           x \in Int /\ \E k \in DOMAIN list : list[k].start <= x /\ x <= list[k].end
BY ListFacts DEF Members, Numbers

LEMMA MembersAreNumbers ==
  ASSUME NEW list \in List
  PROVE  Members(list) \subseteq Nat \ {0}
BY ListFacts, MembersOf

-----------------------------------------------------------------------------
(* Joining two intervals.                                                  *)

Touch(list, k) ==
  k - 1 \in DOMAIN list /\ k \in DOMAIN list /\ list[k - 1].end + 1 = list[k].start

(* The list in which interval k has become a part of the one before it.    *)
LEMMA JoinedFacts ==
  ASSUME NEW list \in List, NEW k \in Int, Touch(list, k)
  PROVE  /\ JoinedAt(list, k) \in List /\ Len(JoinedAt(list, k)) = Len(list) - 1
         /\ \A j \in 1..(Len(list) - 1) :
              JoinedAt(list, k)[j] =
                IF j < k - 1 THEN list[j]
                ELSE IF j = k - 1 THEN [start |-> list[k - 1].start, end |-> list[k].end]
                ELSE list[j + 1]
<1> DEFINE grown == [list EXCEPT ![k - 1].end = list[k].end]
<1>1. /\ Len(list) \in Nat /\ DOMAIN list = 1..Len(list) /\ k \in 2..Len(list)
      /\ list[k - 1] \in Interval /\ list[k] \in Interval
  BY ListFacts DEF Touch
<1>2. /\ grown \in List /\ Len(grown) = Len(list)
      /\ \A j \in 1..Len(list) :
           grown[j] = IF j = k - 1 THEN [start |-> list[k - 1].start, end |-> list[k].end] ELSE list[j]
  <2>1. [list[k - 1] EXCEPT !.end = list[k].end] = [start |-> list[k - 1].start, end |-> list[k].end]
    BY <1>1 DEF Interval
  <2>2. [start |-> list[k - 1].start, end |-> list[k].end] \in Interval
    BY <1>1 DEF Interval
  <2> QED
    BY <1>1, <2>1, <2>2 DEF List
<1>3. JoinedAt(list, k) = RemoveAt(grown, k)
  BY DEF JoinedAt, Touch
<1>6. k \in 1..Len(grown) /\ grown \in Seq(Interval)
  BY <1>1, <1>2 DEF List
<1> HIDE DEF grown
<1>4. /\ RemoveAt(grown, k) \in List /\ Len(RemoveAt(grown, k)) = Len(list) - 1
      /\ \A j \in 1..(Len(list) - 1) :
           RemoveAt(grown, k)[j] = IF j < k THEN grown[j] ELSE grown[j + 1]
  BY <1>2, <1>6, RemoveAtFacts DEF List
<1>5. ASSUME NEW j \in 1..(Len(list) - 1)
      PROVE  JoinedAt(list, k)[j] =
                IF j < k - 1 THEN list[j]
                ELSE IF j = k - 1 THEN [start |-> list[k - 1].start, end |-> list[k].end]
                ELSE list[j + 1]
  BY <1>1, <1>2, <1>3, <1>4
<1> QED
  BY <1>3, <1>4, <1>5

LEMMA NotJoined ==
  ASSUME NEW list, NEW k, ~Touch(list, k)
  PROVE  JoinedAt(list, k) = list
BY DEF JoinedAt, Touch

LEMMA JoinedKeeps ==
  ASSUME NEW list \in List, Ordered(list), NEW k \in Int
  PROVE  /\ JoinedAt(list, k) \in List /\ Ordered(JoinedAt(list, k))
         /\ Members(JoinedAt(list, k)) = Members(list)
<1>1. CASE ~Touch(list, k)
  BY <1>1, NotJoined
<1>2. CASE Touch(list, k)
  <2> DEFINE res == JoinedAt(list, k)
  <2>1. /\ res \in List /\ Len(res) = Len(list) - 1
        /\ \A j \in 1..(Len(list) - 1) :
              res[j] =
                IF j < k - 1 THEN list[j]
                ELSE IF j = k - 1 THEN [start |-> list[k - 1].start, end |-> list[k].end]
                ELSE list[j + 1]
    BY <1>2, JoinedFacts
  <2>2. /\ Len(list) \in Nat /\ DOMAIN list = 1..Len(list) /\ k \in 2..Len(list)
        /\ list[k - 1].end + 1 = list[k].start
        /\ \A j \in 1..Len(list) : list[j].start \in Nat \ {0} /\ list[j].end \in Nat \ {0}
    BY <1>2, ListFacts DEF Touch
  <2>3. DOMAIN res = 1..(Len(list) - 1)
    BY <2>1, ListFacts
  <2> HIDE DEF res
  <2>4. /\ \A j \in 1..Len(list) : list[j].start <= list[j].end
        /\ \A i, j \in 1..Len(list) : i < j => list[i].end < list[j].start
    BY <2>2 DEF Ordered
  <2>5. /\ \A j \in 1..(Len(list) - 1) :
             /\ j < k - 1 => res[j].start = list[j].start /\ res[j].end = list[j].end
             /\ j = k - 1 => res[j].start = list[k - 1].start /\ res[j].end = list[k].end
             /\ j > k - 1 => res[j].start = list[j + 1].start /\ res[j].end = list[j + 1].end
    <3>1. ASSUME NEW j \in 1..(Len(list) - 1), j < k - 1 PROVE res[j] = list[j]
      BY <2>1, <3>1
    <3>2. ASSUME NEW j \in 1..(Len(list) - 1), j = k - 1
          PROVE  res[j] = [start |-> list[k - 1].start, end |-> list[k].end]
      BY <2>1, <2>2, <3>2
    <3>3. ASSUME NEW j \in 1..(Len(list) - 1), j > k - 1 PROVE res[j] = list[j + 1]
      BY <2>1, <2>2, <3>3
    <3> QED
      BY <3>1, <3>2, <3>3
  <2>6. Ordered(res)
    <3>1. ASSUME NEW j \in DOMAIN res PROVE res[j].start <= res[j].end
      <4>1. CASE j < k - 1
        BY <4>1, <2>2, <2>3, <2>4, <2>5
      <4>2. CASE j = k - 1
        <5>1. /\ res[j].start = list[k - 1].start /\ res[j].end = list[k].end
              /\ list[k - 1].start <= list[k - 1].end /\ list[k].start <= list[k].end
          BY <4>2, <2>2, <2>3, <2>4, <2>5
        <5> QED
          BY <5>1, <2>2
      <4>3. CASE j > k - 1
        <5>1. j + 1 \in 1..Len(list) /\ res[j].start = list[j + 1].start /\ res[j].end = list[j + 1].end
          BY <4>3, <2>2, <2>3, <2>5, SMTT(30)
        <5> QED
          BY <5>1, <2>4
      <4> QED
        BY <4>1, <4>2, <4>3, <2>2, <2>3
    <3>2. ASSUME NEW i \in DOMAIN res, NEW j \in DOMAIN res, i < j
          PROVE  res[i].end < res[j].start
      BY <3>2, <2>2, <2>3, <2>4, <2>5, SMTT(30)
    <3> QED
      BY <3>1, <3>2 DEF Ordered
  <2>7. ASSUME NEW x \in Int
        PROVE  (\E j \in DOMAIN res : res[j].start <= x /\ x <= res[j].end) <=>
                 (\E j \in DOMAIN list : list[j].start <= x /\ x <= list[j].end)
    <3>1. ASSUME NEW j \in DOMAIN res, res[j].start <= x, x <= res[j].end
          PROVE  \E i \in DOMAIN list : list[i].start <= x /\ x <= list[i].end
      <4>1. CASE j < k - 1
        <5>1. j \in DOMAIN list
          BY <2>2, <2>3
        <5>2. res[j].start = list[j].start /\ res[j].end = list[j].end
          BY <4>1, <2>3, <2>5
        <5> QED
          BY <5>1, <5>2, <3>1
      <4>2. CASE j = k - 1
        <5>1. k - 1 \in DOMAIN list /\ k \in DOMAIN list
          BY <2>2
        <5>2. list[k - 1].start <= x /\ x <= list[k].end
          BY <4>2, <3>1, <2>3, <2>5
        <5>3. x <= list[k - 1].end \/ list[k].start <= x
          BY <5>1, <2>2
        <5> QED
          BY <5>1, <5>2, <5>3
      <4>3. CASE j > k - 1
        <5>1. j + 1 \in DOMAIN list
          BY <2>2, <2>3
        <5> QED
          BY <4>3, <5>1, <3>1, <2>2, <2>3, <2>5
      <4> QED
        BY <4>1, <4>2, <4>3, <2>2, <2>3
    <3>2. ASSUME NEW i \in DOMAIN list, list[i].start <= x, x <= list[i].end
          PROVE  \E j \in DOMAIN res : res[j].start <= x /\ x <= res[j].end
      <4>1. CASE i < k - 1
        <5>1. i \in DOMAIN res
          BY <4>1, <2>2, <2>3
        <5> QED
          BY <4>1, <5>1, <3>2, <2>2, <2>3, <2>5
      <4>2. CASE i \in {k - 1, k}
        <5>1. k - 1 \in DOMAIN res /\ res[k - 1].start = list[k - 1].start /\ res[k - 1].end = list[k].end
          BY <2>2, <2>3, <2>5
        <5>2. list[k - 1].start <= x /\ x <= list[k].end
          BY <4>2, <3>2, <2>2, <2>4
        <5> QED
          BY <5>1, <5>2
      <4>3. CASE i > k
        <5>1. i - 1 \in DOMAIN res /\ i - 1 > k - 1 /\ (i - 1) + 1 = i
          BY <4>3, <2>2, <2>3
        <5> QED
          BY <5>1, <3>2, <2>2, <2>3, <2>5, SMTT(30)
      <4> QED
        BY <4>1, <4>2, <4>3, <2>2
    <3> QED
      BY <3>1, <3>2
  <2>8. Members(res) = Members(list)
    <3>1. \A x : x \in Members(res) <=> x \in Members(list)
      BY <2>1, <2>7, MembersOf
    <3> QED
      BY <3>1
  <2> QED
    BY <2>1, <2>6, <2>8 DEF res
<1> QED
  BY <1>1, <1>2

(* Only the intervals at the positions in places may touch the one before. *)
ApartBut(list, places) ==
  \A i, j \in DOMAIN list :
    i < j => list[i].end + 1 < list[j].start \/ (i + 1 = j /\ j \in places)

(* JoinAdjacent leaves no two intervals that touch, if there were none but *)
(* around k.                                                               *)
LEMMA JoinedApart ==
  ASSUME NEW list \in List, Ordered(list), NEW k \in Int, NEW places \in SUBSET Int,
         ApartBut(list, places \cup {k}), \A m \in places : m < k
  PROVE  ApartBut(JoinedAt(list, k), places)
<1>1. /\ Len(list) \in Nat /\ DOMAIN list = 1..Len(list)
      /\ \A j \in 1..Len(list) : list[j].start \in Nat \ {0} /\ list[j].end \in Nat \ {0}
  BY ListFacts
<1>2. /\ \A j \in 1..Len(list) : list[j].start <= list[j].end
      /\ \A i, j \in 1..Len(list) : i < j => list[i].end < list[j].start
  BY <1>1 DEF Ordered
<1>3. CASE ~Touch(list, k)
  <2>1. ASSUME NEW i \in DOMAIN list, NEW j \in DOMAIN list, i < j
        PROVE  list[i].end + 1 < list[j].start \/ (i + 1 = j /\ j \in places)
    <3>1. CASE i + 1 = j /\ j = k
      <4>1. k - 1 = i /\ list[i].end + 1 # list[j].start /\ list[i].end < list[j].start
        BY <3>1, <2>1, <1>1, <1>2, <1>3 DEF Touch
      <4> QED
        BY <4>1, <1>1
    <3>2. CASE ~(i + 1 = j /\ j = k)
      BY <3>2, <2>1 DEF ApartBut
    <3> QED
      BY <3>1, <3>2
  <2> QED
    BY <2>1, <1>3, NotJoined DEF ApartBut
<1>4. CASE Touch(list, k)
  <2> DEFINE res == JoinedAt(list, k)
  <2>1. /\ res \in List /\ Len(res) = Len(list) - 1
        /\ \A j \in 1..(Len(list) - 1) :
              res[j] =
                IF j < k - 1 THEN list[j]
                ELSE IF j = k - 1 THEN [start |-> list[k - 1].start, end |-> list[k].end]
                ELSE list[j + 1]
    BY <1>4, JoinedFacts
  <2>2. k \in 2..Len(list) /\ DOMAIN res = 1..(Len(list) - 1)
    BY <1>1, <1>4, <2>1, ListFacts DEF Touch
  <2> HIDE DEF res
  <2>3. ASSUME NEW i \in DOMAIN res, NEW j \in DOMAIN res, i < j
        PROVE  res[i].end + 1 < res[j].start \/ (i + 1 = j /\ j \in places)
    <3>1. CASE j <= k - 1
      <4>1. res[i] = list[i] /\ res[j].start = list[j].start
        <5>1. res[i] = list[i]
          BY <3>1, <2>1, <2>2, <2>3
        <5>2. CASE j < k - 1
          BY <5>1, <5>2, <2>1, <2>2
        <5>3. CASE j = k - 1
          BY <5>1, <5>3, <2>1, <2>2
        <5> QED
          BY <5>2, <5>3, <3>1, <2>2
      <4>2. i \in DOMAIN list /\ j \in DOMAIN list /\ j # k
        BY <3>1, <1>1, <2>2
      <4>3. list[i].end + 1 < list[j].start \/ (i + 1 = j /\ j \in places \cup {k})
        BY <4>2, <2>3 DEF ApartBut
      <4> QED
        BY <4>1, <4>2, <4>3
    <3>2. CASE j > k - 1
      <4> DEFINE m == IF i < k - 1 THEN i ELSE i + 1
      <4>1. m \in DOMAIN list /\ j + 1 \in DOMAIN list /\ m < j + 1 /\ j + 1 > k
        BY <3>2, <2>2, <2>3, <1>1
      <4>2. res[j] = list[j + 1]
        BY <3>2, <2>1, <2>2
      <4>3. res[i].end = list[m].end
        <5>1. CASE i < k - 1
          BY <5>1, <2>1, <2>2
        <5>2. CASE i = k - 1
          BY <5>2, <2>1, <2>2
        <5>3. CASE i > k - 1
          BY <5>3, <2>1, <2>2
        <5> QED
          BY <5>1, <5>2, <5>3, <2>2
      <4> HIDE DEF m
      <4>4. list[m].end + 1 < list[j + 1].start \/ (m + 1 = j + 1 /\ j + 1 \in places \cup {k})
        BY <4>1 DEF ApartBut
      <4>5. j + 1 \notin places \cup {k}
        BY <4>1, <1>1
      <4> QED
        BY <4>2, <4>3, <4>4, <4>5
    <3> QED
      BY <3>1, <3>2, <2>2
  <2> QED
    BY <2>3 DEF ApartBut, res
<1> QED
  BY <1>3, <1>4

(* What JoinAdjacent keeps, and what it makes of a list that is apart but  *)
(* around k.                                                               *)
LEMMA AdjacentKeeps ==
  ASSUME NEW list \in List, Ordered(list), NEW k \in Nat \ {0}
  PROVE  /\ JoinAdjacent(list, k) \in List /\ Ordered(JoinAdjacent(list, k))
         /\ Members(JoinAdjacent(list, k)) = Members(list)
         /\ ApartBut(list, {k, k + 1}) => Apart(JoinAdjacent(list, k))
<1> DEFINE mid == JoinedAt(list, k + 1)
<1>1. mid \in List /\ Ordered(mid) /\ Members(mid) = Members(list)
  BY JoinedKeeps
<1>2. ApartBut(list, {k, k + 1}) => ApartBut(mid, {k})
  <2>1. {k, k + 1} = {k} \cup {k + 1} /\ {k} \in SUBSET Int /\ \A m \in {k} : m < k + 1
    OBVIOUS
  <2> QED
    BY <2>1, JoinedApart
<1>3. JoinAdjacent(list, k) = JoinedAt(mid, k)
  BY DEF JoinAdjacent
<1> HIDE DEF mid
<1>4. /\ JoinedAt(mid, k) \in List /\ Ordered(JoinedAt(mid, k))
      /\ Members(JoinedAt(mid, k)) = Members(mid)
  BY <1>1, JoinedKeeps
<1>5. ApartBut(mid, {k}) => ApartBut(JoinedAt(mid, k), {})
  <2>1. {k} = {} \cup {k} /\ {} \in SUBSET Int /\ \A m \in {} : m < k
    OBVIOUS
  <2> QED
    BY <1>1, <2>1, JoinedApart
<1>6. ApartBut(JoinedAt(mid, k), {}) => Apart(JoinedAt(mid, k))
  BY DEF ApartBut, Apart
<1> QED
  BY <1>1, <1>2, <1>3, <1>4, <1>5, <1>6

LEMMA ApartIsApartBut ==
  ASSUME NEW list, NEW places, Apart(list)
  PROVE  ApartBut(list, places)
BY DEF Apart, ApartBut

-----------------------------------------------------------------------------
(* Giving a new transaction its place.                                     *)

(* v comes after the intervals before p and before the others.             *)
Belongs(list) ==
  /\ p \in 1..(Len(list) + 1) /\ v \in Nat \ {0}
  /\ \A k \in DOMAIN list : (k < p => list[k].end < v) /\ (k >= p => v < list[k].start)

LEMMA GrownFacts ==
  ASSUME NEW list \in List, Ordered(list), Belongs(list),
         p \in DOMAIN list, list[p].start = v + 1
  PROVE  /\ Inserted(list) \in List /\ Ordered(Inserted(list))
         /\ Members(Inserted(list)) = Members(list) \cup {v}
         /\ Apart(list) => ApartBut(Inserted(list), {p, p + 1})
<1> DEFINE res == Inserted(list)
<1>1. /\ Len(list) \in Nat /\ DOMAIN list = 1..Len(list) /\ p \in 1..Len(list) /\ v \in Nat \ {0}
      /\ \A k \in 1..Len(list) : list[k].start \in Nat \ {0} /\ list[k].end \in Nat \ {0}
      /\ list[p] \in Interval
  BY ListFacts DEF Belongs
<1>2. res = [list EXCEPT ![p].start = v]
  BY DEF Inserted
<1>3. [list[p] EXCEPT !.start = v] = [start |-> v, end |-> list[p].end]
      /\ [start |-> v, end |-> list[p].end] \in Interval
  BY <1>1 DEF Interval
<1>4. /\ res \in List /\ DOMAIN res = 1..Len(list)
      /\ \A k \in 1..Len(list) : res[k] = IF k = p THEN [start |-> v, end |-> list[p].end] ELSE list[k]
  BY <1>1, <1>2, <1>3 DEF List
<1>5. \A k \in 1..Len(list) :
        /\ res[k].end = list[k].end
        /\ res[k].start = IF k = p THEN v ELSE list[k].start
  BY <1>1, <1>4
<1> HIDE DEF res
<1>6. /\ \A k \in 1..Len(list) : list[k].start <= list[k].end
      /\ \A i, j \in 1..Len(list) : i < j => list[i].end < list[j].start
      /\ \A k \in 1..Len(list) : (k < p => list[k].end < v) /\ (k >= p => v < list[k].start)
  BY <1>1 DEF Ordered, Belongs
<1>7. Ordered(res)
  <2>1. ASSUME NEW k \in 1..Len(list) PROVE res[k].start <= res[k].end
    BY <1>1, <1>5, <1>6
  <2>2. ASSUME NEW i \in 1..Len(list), NEW j \in 1..Len(list), i < j
        PROVE  res[i].end < res[j].start
    BY <2>2, <1>1, <1>5, <1>6
  <2> QED
    BY <1>4, <2>1, <2>2 DEF Ordered
<1>8. \A x \in Int :
        (\E k \in 1..Len(list) : res[k].start <= x /\ x <= res[k].end)
          <=> x = v \/ \E k \in 1..Len(list) : list[k].start <= x /\ x <= list[k].end
  <2> SUFFICES ASSUME NEW x \in Int
               PROVE  (\E k \in 1..Len(list) : res[k].start <= x /\ x <= res[k].end)
                        <=> x = v \/ \E k \in 1..Len(list) : list[k].start <= x /\ x <= list[k].end
    OBVIOUS
  <2>1. ASSUME NEW k \in 1..Len(list), res[k].start <= x, x <= res[k].end
        PROVE  x = v \/ (list[k].start <= x /\ x <= list[k].end)
    BY <2>1, <1>1, <1>5
  <2>2. ASSUME NEW k \in 1..Len(list), list[k].start <= x, x <= list[k].end
        PROVE  res[k].start <= x /\ x <= res[k].end
    BY <2>2, <1>1, <1>5
  <2>3. res[p].start <= v /\ v <= res[p].end
    BY <1>1, <1>5, <1>6
  <2> QED
    BY <2>1, <2>2, <2>3, <1>1
<1>9. Members(res) = Members(list) \cup {v}
  <2>1. ASSUME NEW x PROVE x \in Members(res) <=> x \in Members(list) \/ x = v
    <3>1. x \in Members(res) <=> x \in Int /\ \E k \in 1..Len(list) : res[k].start <= x /\ x <= res[k].end
      BY <1>4, MembersOf
    <3>2. x \in Members(list) <=> x \in Int /\ \E k \in 1..Len(list) : list[k].start <= x /\ x <= list[k].end
      BY <1>1, MembersOf
    <3>3. v \in Int
      BY <1>1
    <3> QED
      BY <1>8, <3>1, <3>2, <3>3
  <2> QED
    BY <2>1
<1>10. ASSUME Apart(list)
       PROVE  ApartBut(res, {p, p + 1})
  <2>1. ASSUME NEW i \in 1..Len(list), NEW j \in 1..Len(list), i < j
        PROVE  res[i].end + 1 < res[j].start \/ (i + 1 = j /\ j \in {p, p + 1})
    <3>1. list[i].end + 1 < list[j].start
      BY <1>1, <1>10, <2>1 DEF Apart
    <3>2. CASE j # p
      BY <3>1, <3>2, <1>5
    <3>3. CASE j = p /\ i + 1 < j
      <4>1. i + 1 \in 1..Len(list) /\ i < i + 1 /\ i + 1 < p
        BY <3>3, <2>1, <1>1
      <4>2. list[i].end + 1 < list[i + 1].start
        BY <4>1, <1>1, <1>10 DEF Apart
      <4>3. list[i + 1].start <= list[i + 1].end /\ list[i + 1].end < v
        BY <4>1, <1>6
      <4> QED
        BY <4>1, <4>2, <4>3, <3>3, <1>1, <1>5
    <3> QED
      BY <3>2, <3>3, <2>1
  <2> QED
    BY <2>1, <1>4 DEF ApartBut
<1> QED
  BY <1>4, <1>7, <1>9, <1>10 DEF res

LEMMA PlacedFacts ==
  ASSUME NEW list \in List, Ordered(list), Belongs(list),
         ~(p \in DOMAIN list /\ list[p].start = v + 1)
  PROVE  /\ Inserted(list) \in List /\ Ordered(Inserted(list))
         /\ Members(Inserted(list)) = Members(list) \cup {v}
         /\ Apart(list) => ApartBut(Inserted(list), {p, p + 1})
<1> DEFINE res == Inserted(list)
           one == [start |-> v, end |-> v]
<1>1. /\ Len(list) \in Nat /\ DOMAIN list = 1..Len(list) /\ p \in 1..(Len(list) + 1) /\ v \in Nat \ {0}
      /\ \A k \in 1..Len(list) : list[k].start \in Nat \ {0} /\ list[k].end \in Nat \ {0}
  BY ListFacts DEF Belongs
<1>2. /\ \A k \in 1..Len(list) : list[k].start <= list[k].end
      /\ \A i, j \in 1..Len(list) : i < j => list[i].end < list[j].start
      /\ \A k \in 1..Len(list) : (k < p => list[k].end < v) /\ (k >= p => v < list[k].start)
  BY <1>1 DEF Ordered, Belongs
<1>3. ~(p \in DOMAIN list /\ list[p].end + 1 = v)
  BY <1>1, <1>2
<1>4. one \in Interval /\ one.start = v /\ one.end = v
  BY <1>1 DEF Interval
<1>5. res = InsertAt(list, p, one)
  BY <1>3 DEF Inserted
<1> HIDE DEF res, one
<1>6. /\ res \in List /\ DOMAIN res = 1..(Len(list) + 1)
      /\ \A j \in 1..(Len(list) + 1) :
           res[j] = IF j < p THEN list[j] ELSE IF j = p THEN one ELSE list[j - 1]
  <2>1. /\ res \in Seq(Interval) /\ Len(res) = Len(list) + 1
        /\ \A j \in 1..(Len(list) + 1) :
             res[j] = IF j < p THEN list[j] ELSE IF j = p THEN one ELSE list[j - 1]
    <3>1. list \in Seq(Interval)
      BY DEF List
    <3>2. p \in 1..(Len(list) + 1) /\ one \in Interval
      BY <1>1, <1>4
    <3>3. /\ InsertAt(list, p, one) \in Seq(Interval)
          /\ Len(InsertAt(list, p, one)) = Len(list) + 1
          /\ \A j \in 1..(Len(list) + 1) :
               InsertAt(list, p, one)[j]
                 = IF j < p THEN list[j] ELSE IF j = p THEN one ELSE list[j - 1]
      <4> HIDE DEF List, Interval
      <4> QED
        BY <3>1, <3>2, InsertAtFacts
    <3> QED
      BY <3>3, <1>5
  <2>2. res \in List /\ DOMAIN res = 1..Len(res)
    BY <2>1, ListFacts DEF List
  <2> QED
    BY <2>1, <2>2
<1>7. /\ \A j \in 1..(p - 1) : j \in 1..Len(list) /\ res[j].start = list[j].start /\ res[j].end = list[j].end
      /\ res[p].start = v /\ res[p].end = v
      /\ \A j \in (p + 1)..(Len(list) + 1) :
           j - 1 \in p..Len(list) /\ res[j].start = list[j - 1].start /\ res[j].end = list[j - 1].end
  <2>1. ASSUME NEW j \in 1..(p - 1) PROVE j \in 1..Len(list) /\ res[j] = list[j]
    BY <1>1, <1>6
  <2>2. res[p] = one
    BY <1>1, <1>6
  <2>3. ASSUME NEW j \in (p + 1)..(Len(list) + 1)
        PROVE  j - 1 \in p..Len(list) /\ res[j] = list[j - 1]
    BY <1>1, <1>6
  <2> QED
    BY <1>4, <2>1, <2>2, <2>3
<1>8. Ordered(res)
  <2>1. ASSUME NEW j \in 1..(Len(list) + 1) PROVE res[j].start <= res[j].end
    <3>1. CASE j < p
      BY <3>1, <1>1, <1>2, <1>7
    <3>2. CASE j = p
      BY <3>2, <1>1, <1>7
    <3>3. CASE j > p
      <4>1. j \in (p + 1)..(Len(list) + 1) /\ j - 1 \in 1..Len(list)
        BY <3>3, <1>1
      <4> QED
        BY <4>1, <1>2, <1>7
    <3> QED
      BY <3>1, <3>2, <3>3, <1>1
  <2>2. ASSUME NEW i \in 1..(Len(list) + 1), NEW j \in 1..(Len(list) + 1), i < j
        PROVE  res[i].end < res[j].start
    <3>1. CASE j < p
      BY <3>1, <2>2, <1>1, <1>2, <1>7
    <3>2. CASE j = p
      BY <3>2, <2>2, <1>1, <1>2, <1>7
    <3>3. CASE j > p /\ i < p
      <4>1. /\ res[i].end = list[i].end /\ res[j].start = list[j - 1].start
            /\ i \in 1..Len(list) /\ j - 1 \in 1..Len(list) /\ i < j - 1
        BY <3>3, <1>1, <1>7
      <4> QED
        BY <4>1, <1>2
    <3>4. CASE i = p
      <4>1. res[i].end = v /\ res[j].start = list[j - 1].start /\ j - 1 \in 1..Len(list) /\ j - 1 >= p
        BY <3>4, <2>2, <1>1, <1>7
      <4> QED
        BY <4>1, <1>2
    <3>5. CASE i > p
      <4>1. /\ res[i].end = list[i - 1].end /\ res[j].start = list[j - 1].start
            /\ i - 1 \in 1..Len(list) /\ j - 1 \in 1..Len(list) /\ i - 1 < j - 1
        BY <3>5, <2>2, <1>1, <1>7
      <4> QED
        BY <4>1, <1>2
    <3> QED
      BY <3>1, <3>2, <3>3, <3>4, <3>5, <1>1
  <2> QED
    BY <2>1, <2>2, <1>6 DEF Ordered
<1>9. ASSUME NEW x \in Int
      PROVE  (\E j \in 1..(Len(list) + 1) : res[j].start <= x /\ x <= res[j].end)
               <=> x = v \/ \E k \in 1..Len(list) : list[k].start <= x /\ x <= list[k].end
  <2>1. ASSUME NEW j \in 1..(Len(list) + 1), res[j].start <= x, x <= res[j].end
        PROVE  x = v \/ \E k \in 1..Len(list) : list[k].start <= x /\ x <= list[k].end
    <3>1. CASE j < p
      BY <3>1, <2>1, <1>1, <1>7
    <3>2. CASE j = p
      BY <3>2, <2>1, <1>1, <1>7
    <3>3. CASE j > p
      <4>1. j - 1 \in 1..Len(list) /\ list[j - 1].start <= x /\ x <= list[j - 1].end
        BY <3>3, <2>1, <1>1, <1>7
      <4> QED
        BY <4>1
    <3> QED
      BY <3>1, <3>2, <3>3, <1>1
  <2>2. ASSUME NEW k \in 1..Len(list), list[k].start <= x, x <= list[k].end
        PROVE  \E j \in 1..(Len(list) + 1) : res[j].start <= x /\ x <= res[j].end
    <3>1. CASE k < p
      <4>1. k \in 1..(Len(list) + 1) /\ res[k].start <= x /\ x <= res[k].end
        BY <3>1, <2>2, <1>1, <1>7
      <4> QED
        BY <4>1
    <3>2. CASE k >= p
      <4>1. k + 1 \in (p + 1)..(Len(list) + 1) /\ (k + 1) - 1 = k /\ k + 1 \in 1..(Len(list) + 1)
        BY <3>2, <1>1
      <4>2. res[k + 1].start <= x /\ x <= res[k + 1].end
        BY <4>1, <2>2, <1>7
      <4> QED
        BY <4>1, <4>2
    <3> QED
      BY <3>1, <3>2, <1>1
  <2>3. res[p].start <= v /\ v <= res[p].end
    BY <1>1, <1>7
  <2> QED
    BY <2>1, <2>2, <2>3, <1>1
<1>10. Members(res) = Members(list) \cup {v}
  <2>1. ASSUME NEW x PROVE x \in Members(res) <=> x \in Members(list) \/ x = v
    <3>1. x \in Members(res) <=> x \in Int /\ \E j \in 1..(Len(list) + 1) : res[j].start <= x /\ x <= res[j].end
      BY <1>6, MembersOf
    <3>2. x \in Members(list) <=> x \in Int /\ \E k \in 1..Len(list) : list[k].start <= x /\ x <= list[k].end
      BY <1>1, MembersOf
    <3>3. v \in Int
      BY <1>1
    <3> QED
      BY <1>9, <3>1, <3>2, <3>3
  <2> QED
    BY <2>1
<1>11. ASSUME Apart(list)
       PROVE  ApartBut(res, {p, p + 1})
  <2>1. \A i, j \in 1..Len(list) : i < j => list[i].end + 1 < list[j].start
    BY <1>1, <1>11 DEF Apart
  <2>2. ASSUME NEW i \in 1..(Len(list) + 1), NEW j \in 1..(Len(list) + 1), i < j,
               ~(i + 1 = j /\ j \in {p, p + 1})
        PROVE  res[i].end + 1 < res[j].start
    <3>1. CASE j < p
      BY <3>1, <2>1, <2>2, <1>1, <1>7
    <3>2. CASE j = p
      <4>1. i + 1 \in 1..Len(list) /\ i \in 1..Len(list) /\ i < i + 1 /\ i + 1 < p /\ i \in 1..(p - 1)
        BY <3>2, <2>2, <1>1
      <4>2. res[i].end = list[i].end /\ res[j].start = v
        BY <4>1, <3>2, <1>7
      <4>3. list[i].end + 1 < list[i + 1].start /\ list[i + 1].start <= list[i + 1].end /\ list[i + 1].end < v
        BY <4>1, <2>1, <1>2
      <4> QED
        BY <4>1, <4>2, <4>3, <1>1
    <3>3. CASE j > p /\ i < p
      <4>1. /\ res[i].end = list[i].end /\ res[j].start = list[j - 1].start
            /\ i \in 1..Len(list) /\ j - 1 \in 1..Len(list) /\ i < j - 1
        BY <3>3, <1>1, <1>7
      <4> QED
        BY <4>1, <2>1
    <3>4. CASE i = p
      <4>1. /\ res[i].end = v /\ res[j].start = list[j - 1].start
            /\ p \in 1..Len(list) /\ j - 1 \in 1..Len(list) /\ p < j - 1
        BY <3>4, <2>2, <1>1, <1>7
      <4>2. v < list[p].start /\ list[p].start <= list[p].end /\ list[p].end + 1 < list[j - 1].start
        BY <4>1, <2>1, <1>2
      <4> QED
        BY <4>1, <4>2, <1>1
    <3>5. CASE i > p
      <4>1. /\ res[i].end = list[i - 1].end /\ res[j].start = list[j - 1].start
            /\ i - 1 \in 1..Len(list) /\ j - 1 \in 1..Len(list) /\ i - 1 < j - 1
        BY <3>5, <2>2, <1>1, <1>7
      <4> QED
        BY <4>1, <2>1
    <3> QED
      BY <3>1, <3>2, <3>3, <3>4, <3>5, <1>1
  <2> QED
    BY <2>2, <1>6 DEF ApartBut
<1> QED
  BY <1>6, <1>8, <1>10, <1>11 DEF res

LEMMA InsertedFacts ==
  ASSUME NEW list \in List, Ordered(list), Belongs(list)
  PROVE  /\ Inserted(list) \in List /\ Ordered(Inserted(list))
         /\ Members(Inserted(list)) = Members(list) \cup {v}
         /\ Apart(list) => ApartBut(Inserted(list), {p, p + 1})
BY GrownFacts, PlacedFacts

-----------------------------------------------------------------------------
(* The invariant.                                                          *)

LEMMA ToldIsMembers ==
  ASSUME NEW list \in List
  PROVE  Told(Package(list)) = Members(list)
<1>1. \A k \in DOMAIN list :
        /\ Package(list)[k][1] = list[k].start
        /\ Package(list)[k][2] - 1 = list[k].end
  BY ListFacts DEF Package
<1>2. DOMAIN Package(list) = DOMAIN list
  BY DEF Package
<1>3. \A k \in DOMAIN list : Package(list)[k][1] .. (Package(list)[k][2] - 1) = Numbers(list[k])
  BY <1>1 DEF Numbers
<1> QED
  BY <1>2, <1>3 DEF Told, Members

(* Between calls the search's variables are at rest.                       *)
AtRest == pc \in {"text", "idle"} => l = 1 /\ p = 1 /\ r = 1

(* What the search has excluded, and where it looked last.                 *)
Searching ==
  pc = "search" =>
    LET list == sets[uuid]
    IN  /\ l <= r
        /\ \A k \in DOMAIN list : (k < l => list[k].end < v) /\ (k >= r => v < list[k].start)
        /\ \/ l > 1 /\ p = l - 1
           \/ p = r /\ p \in DOMAIN list
           \/ l = 1 /\ r = Len(list) + 1 /\ p = 1

IndInv == TypeOK /\ AtRest /\ Searching /\ PlaceIsRight /\ ListInOrder /\ TellsWhatWasGiven

LEMMA EmptyList == <<>> \in List /\ Ordered(<<>>) /\ Apart(<<>>) /\ Members(<<>>) = {} /\ Len(<<>>) = 0
BY DEF List, Ordered, Apart, Members

LEMMA InvInit == Init => IndInv
<1> SUFFICES ASSUME Init PROVE IndInv
  OBVIOUS
<1>1. \A u \in Uuid : sets[u] = <<>> /\ given[u] = {}
  BY DEF Init
<1>2. TypeOK
  <2>1. sets \in [Uuid -> Seq(Interval)] /\ given \in [Uuid -> SUBSET (Nat \ {0})]
    BY EmptyList DEF Init, List
  <2>2. {l, p, r} \subseteq 1..(Len(sets[uuid]) + 1)
    BY EmptyList DEF Init
  <2> QED
    <3>1. v \in Nat \ {0} /\ calls \in 0..MaxCalls
      BY GtidAssumption DEF Init
    <3> QED
      BY <2>1, <2>2, <3>1 DEF Init, TypeOK
<1>3. ListInOrder
  BY <1>1, EmptyList DEF ListInOrder
<1>4. TellsWhatWasGiven
  BY <1>1, EmptyList, ToldIsMembers DEF TellsWhatWasGiven
<1>5. AtRest /\ Searching /\ PlaceIsRight
  BY DEF Init, AtRest, Searching, PlaceIsRight
<1> QED
  BY <1>2, <1>3, <1>4, <1>5 DEF IndInv

LEMMA ReadKeeps ==
  ASSUME IndInv, NEW u \in Uuid, NEW text \in Texts, ReadText(u, text)
  PROVE  IndInv'
<1> DEFINE new == JoinAdjacent(text, 1)
<1>1. text \in List /\ Ordered(text)
  BY GtidAssumption DEF List
<1>2. /\ new \in List /\ Ordered(new) /\ Members(new) = Members(text)
      /\ Apart(text) => Apart(new)
  <2>1. 1 \in Nat \ {0}
    OBVIOUS
  <2>2. Apart(text) => ApartBut(text, {1, 1 + 1})
    BY ApartIsApartBut
  <2> QED
    BY <1>1, <2>1, <2>2, AdjacentKeeps
<1>3. /\ sets' = [sets EXCEPT ![u] = new]
      /\ given' = [given EXCEPT ![u] = @ \cup Members(text)]
      /\ pc' = "text" /\ pc = "text" /\ UNCHANGED <<uuid, v, l, p, r, added>>
      /\ calls < MaxCalls /\ calls' = calls + 1
      /\ repeated' = IF sets[u] = <<>> THEN repeated ELSE repeated \cup {u}
      /\ touching' = IF Apart(text) THEN touching \ {u} ELSE touching \cup {u}
  BY DEF ReadText, search
<1> HIDE DEF new
<1>4. /\ sets \in [Uuid -> List] /\ given \in [Uuid -> SUBSET (Nat \ {0})]
      /\ sets' \in [Uuid -> List] /\ sets'[u] = new
      /\ given'[u] = given[u] \cup Members(text)
      /\ \A w \in Uuid \ {u} : sets'[w] = sets[w] /\ given'[w] = given[w]
  BY <1>2, <1>3 DEF IndInv, TypeOK, List
<1>5. TypeOK'
  <2>1. given' \in [Uuid -> SUBSET (Nat \ {0})]
    BY <1>1, <1>3, <1>4, MembersAreNumbers
  <2>2. {l, p, r}' \subseteq 1..(Len(sets'[uuid']) + 1)
    <3>1. Len(sets'[uuid']) \in Nat
      BY <1>3, <1>4, ListFacts DEF IndInv, TypeOK
    <3> QED
      BY <3>1, <1>3 DEF IndInv, AtRest
  <2>3. calls' \in 0..MaxCalls
    BY <1>3, GtidAssumption DEF IndInv, TypeOK
  <2> QED
    BY <1>3, <1>4, <2>1, <2>2, <2>3 DEF IndInv, TypeOK, List
<1>6. AtRest' /\ Searching' /\ PlaceIsRight'
  BY <1>3 DEF IndInv, AtRest, Searching, PlaceIsRight
<1>7. ListInOrder'
  BY <1>2, <1>3, <1>4 DEF IndInv, ListInOrder
<1>8. TellsWhatWasGiven'
  <2>1. Told(Package(new)) = Members(text)
    BY <1>2, ToldIsMembers
  <2>2. CASE u \in repeated'
    BY <2>1, <2>2, <1>3, <1>4 DEF IndInv, TellsWhatWasGiven
  <2>3. CASE u \notin repeated'
    <3>1. sets[u] = <<>> /\ u \notin repeated /\ repeated' = repeated
      BY <2>3, <1>3
    <3>2. given[u] = {}
      BY <3>1, EmptyList, ToldIsMembers DEF IndInv, TellsWhatWasGiven
    <3> QED
      BY <2>1, <2>3, <3>1, <3>2, <1>3, <1>4 DEF IndInv, TellsWhatWasGiven
  <2> QED
    BY <2>2, <2>3
<1> QED
  BY <1>5, <1>6, <1>7, <1>8 DEF IndInv

(* A step that leaves the lists and the history as they are.               *)
LEMMA ListsStay ==
  ASSUME IndInv, UNCHANGED <<sets, given, repeated, touching>>
  PROVE  ListInOrder' /\ TellsWhatWasGiven'
BY DEF IndInv, ListInOrder, TellsWhatWasGiven

LEMMA BeginKeeps ==
  ASSUME IndInv, NEW u \in Uuid, NEW n \in 1..Top, BeginAdd(u, n)
  PROVE  IndInv'
<1>1. sets[u] \in List /\ Len(sets[u]) \in Nat /\ DOMAIN sets[u] = 1..Len(sets[u])
  BY ListFacts DEF IndInv, TypeOK, List
<1>2. n \in Nat \ {0}
  BY GtidAssumption
<1>3. /\ pc' = "search" /\ uuid' = u /\ v' = n
      /\ l' = 1 /\ p' = 1 /\ r' = Len(sets[u]) + 1 /\ calls < MaxCalls /\ calls' = calls + 1
      /\ UNCHANGED <<sets, added, given, repeated, touching>>
  BY DEF BeginAdd
<1>4. TypeOK'
  <2>1. {l, p, r}' \subseteq 1..(Len(sets'[uuid']) + 1)
    BY <1>1, <1>3
  <2>2. calls' \in 0..MaxCalls
    BY <1>3, GtidAssumption DEF IndInv, TypeOK
  <2> QED
    BY <1>2, <1>3, <2>1, <2>2 DEF IndInv, TypeOK
<1>5. Searching'
  BY <1>1, <1>3 DEF Searching
<1>6. AtRest' /\ PlaceIsRight'
  BY <1>3 DEF AtRest, PlaceIsRight
<1> QED
  BY <1>3, <1>4, <1>5, <1>6, ListsStay DEF IndInv

LEMMA ProbeKeeps ==
  ASSUME IndInv, Probe
  PROVE  IndInv'
<1> DEFINE list == sets[uuid]
<1>1. /\ pc = "search" /\ l < r /\ p' = (l + r) \div 2
      /\ UNCHANGED <<sets, uuid, v, added, given, repeated, touching, calls>>
      /\ \/ list[p'].end < v /\ l' = p' + 1 /\ UNCHANGED <<r, pc>>
         \/ v < list[p'].start /\ r' = p' /\ UNCHANGED <<l, pc>>
         \/ v \in Numbers(list[p']) /\ pc' = "insert" /\ UNCHANGED <<l, r>>
  BY DEF Probe, After
<1>2. list' = list
  BY <1>1
<1>3. /\ list \in List /\ Len(list) \in Nat /\ DOMAIN list = 1..Len(list)
      /\ \A k \in 1..Len(list) : list[k].start \in Nat \ {0} /\ list[k].end \in Nat \ {0}
      /\ v \in Nat \ {0} /\ l \in 1..(Len(list) + 1) /\ r \in 1..(Len(list) + 1)
  BY ListFacts DEF IndInv, TypeOK, List
<1>4. /\ \A k \in 1..Len(list) : (k < l => list[k].end < v) /\ (k >= r => v < list[k].start)
      /\ \A k \in 1..Len(list) : list[k].start <= list[k].end
      /\ \A i, j \in 1..Len(list) : i < j => list[i].end < list[j].start
  <2>1. Ordered(list) /\ uuid \in Uuid
    BY DEF IndInv, TypeOK, ListInOrder
  <2>2. \A k \in DOMAIN list : (k < l => list[k].end < v) /\ (k >= r => v < list[k].start)
    BY <1>1 DEF IndInv, Searching
  <2> QED
    BY <2>1, <2>2, <1>3 DEF Ordered
<1> HIDE DEF list
<1>5. p' \in 1..Len(list) /\ l <= p' /\ p' < r
  BY <1>1, <1>3
<1>6. CASE list[p'].end < v /\ l' = p' + 1 /\ UNCHANGED <<r, pc>>
  <2>1. ASSUME NEW k \in 1..Len(list), k < p'
        PROVE  list[k].end < v
    <3>1. list[k].end < list[p'].start /\ list[p'].start <= list[p'].end
      BY <2>1, <1>4, <1>5
    <3>2. list[k].end \in Nat /\ list[p'].start \in Nat /\ list[p'].end \in Nat /\ v \in Nat
      BY <1>3, <1>5
    <3> QED
      BY <3>1, <3>2, <1>6
  <2>2. \A k \in 1..Len(list) : k < l' => list[k].end < v
    <3>1. p' \in Nat /\ l' = p' + 1
      BY <1>3, <1>5, <1>6
    <3>2. ASSUME NEW k \in 1..Len(list), k < l'
          PROVE  k = p' \/ k < p'
      <4> DEFINE n == p'
                 m == l'
      <4>1. n \in Nat /\ m = n + 1
        BY <3>1
      <4>2. k < m
        BY <3>2
      <4>3. k \in Nat
        BY <1>3
      <4> HIDE DEF n, m
      <4>4. k = n \/ k < n
        BY <4>1, <4>2, <4>3
      <4> QED
        BY <4>4 DEF n
    <3> QED
      BY <3>2, <2>1, <1>6
  <2>3. TypeOK'
    BY <1>1, <1>2, <1>3, <1>5, <1>6 DEF IndInv, TypeOK, list
  <2>4. Searching'
    BY <2>2, <1>1, <1>2, <1>3, <1>4, <1>5, <1>6 DEF Searching, list
  <2>5. AtRest' /\ PlaceIsRight'
    BY <1>1, <1>6 DEF AtRest, PlaceIsRight
  <2> QED
    BY <2>3, <2>4, <2>5, <1>1, ListsStay DEF IndInv
<1>7. CASE v < list[p'].start /\ r' = p' /\ UNCHANGED <<l, pc>>
  <2>1. \A k \in 1..Len(list) : k >= r' => v < list[k].start
    BY <1>3, <1>4, <1>5, <1>7
  <2>2. TypeOK'
    BY <1>1, <1>2, <1>3, <1>5, <1>7 DEF IndInv, TypeOK, list
  <2>3. Searching'
    BY <2>1, <1>1, <1>2, <1>3, <1>4, <1>5, <1>7 DEF Searching, list
  <2>4. AtRest' /\ PlaceIsRight'
    BY <1>1, <1>7 DEF AtRest, PlaceIsRight
  <2> QED
    BY <2>2, <2>3, <2>4, <1>1, ListsStay DEF IndInv
<1>8. CASE v \in Numbers(list[p']) /\ pc' = "insert" /\ UNCHANGED <<l, r>>
  <2>1. list[p'].start <= v /\ v <= list[p'].end
    BY <1>3, <1>5, <1>8 DEF Numbers
  <2>2. /\ \A k \in 1..(p' - 1) : list[k].end < v
        /\ \A k \in 1..Len(list) : k > p' => v < list[k].start
    <3>1. ASSUME NEW k \in 1..(p' - 1) PROVE list[k].end < v
      <4> DEFINE n == p'
      <4>1. Len(list) \in Nat /\ n \in 1..Len(list) /\ k \in 1..(n - 1)
        BY <1>3, <1>5
      <4> HIDE DEF n
      <4>2. k \in 1..Len(list) /\ k < n
        BY <4>1
      <4> USE DEF n
      <4>3. list[k].end < list[p'].start
        BY <4>2, <1>4, <1>5
      <4> QED
        BY <4>2, <4>3, <2>1, <1>3, <1>5
    <3>2. ASSUME NEW k \in 1..Len(list), k > p' PROVE v < list[k].start
      <4>1. list[p'].end < list[k].start
        BY <3>2, <1>4, <1>5
      <4> QED
        BY <4>1, <2>1, <1>3, <1>5
    <3> QED
      BY <3>1, <3>2
  <2>3. TypeOK'
    BY <1>1, <1>2, <1>3, <1>5, <1>8 DEF IndInv, TypeOK, list
  <2>4. PlaceIsRight'
    BY <2>2, <1>1, <1>2, <1>3, <1>8 DEF PlaceIsRight, list
  <2>5. AtRest' /\ Searching'
    BY <1>8 DEF AtRest, Searching
  <2> QED
    BY <2>3, <2>4, <2>5, <1>1, ListsStay DEF IndInv
<1> QED
  BY <1>1, <1>6, <1>7, <1>8 DEF list

LEMMA EndSearchKeeps ==
  ASSUME IndInv, EndSearch
  PROVE  IndInv'
<1> DEFINE list == sets[uuid]
<1>1. /\ pc = "search" /\ l >= r /\ p' = Place(list) /\ pc' = "insert"
      /\ UNCHANGED <<sets, uuid, v, l, r, added, given, repeated, touching, calls>>
  BY DEF EndSearch
<1>2. list' = list
  BY <1>1
<1>3. /\ Len(list) \in Nat /\ DOMAIN list = 1..Len(list) /\ list \in List
      /\ \A k \in 1..Len(list) : list[k].start \in Nat \ {0} /\ list[k].end \in Nat \ {0}
      /\ v \in Nat \ {0} /\ l \in 1..(Len(list) + 1) /\ r \in 1..(Len(list) + 1)
      /\ p \in 1..(Len(list) + 1)
  BY ListFacts DEF IndInv, TypeOK, List
<1>4. /\ l = r
      /\ \A k \in 1..Len(list) : (k < l => list[k].end < v) /\ (k >= l => v < list[k].start)
      /\ \A k \in 1..Len(list) : list[k].start <= list[k].end
      /\ \/ l > 1 /\ p = l - 1
         \/ p = r /\ p \in 1..Len(list)
         \/ l = 1 /\ r = Len(list) + 1 /\ p = 1
  <2>1. Ordered(list) /\ uuid \in Uuid
    BY DEF IndInv, TypeOK, ListInOrder
  <2>2. /\ l <= r
        /\ \A k \in DOMAIN list : (k < l => list[k].end < v) /\ (k >= r => v < list[k].start)
        /\ (l > 1 /\ p = l - 1) \/ (p = r /\ p \in DOMAIN list) \/ (l = 1 /\ r = Len(list) + 1 /\ p = 1)
    BY <1>1 DEF IndInv, Searching
  <2> HIDE DEF list
  <2>3. l = r
    BY <2>2, <1>1, <1>3
  <2> QED
    BY <2>1, <2>2, <2>3, <1>3 DEF Ordered
<1>5. list = <<>> <=> Len(list) = 0
  BY <1>3 DEF List
<1> HIDE DEF list
<1>6. p' = l
  <2>1. CASE l > 1 /\ p = l - 1
    <3>1. p \in 1..Len(list) /\ list[p].end < v
      BY <2>1, <1>3, <1>4
    <3> QED
      BY <2>1, <3>1, <1>1, <1>3, <1>5 DEF Place
  <2>2. CASE p = r /\ p \in 1..Len(list)
    <3>1. v < list[p].start /\ list[p].start <= list[p].end
      BY <2>2, <1>3, <1>4
    <3>2. ~(list[p].end < v)
      BY <2>2, <3>1, <1>3
    <3> QED
      BY <2>2, <3>2, <1>1, <1>4 DEF Place
  <2>3. CASE l = 1 /\ r = Len(list) + 1 /\ p = 1
    BY <2>3, <1>1, <1>3, <1>4, <1>5 DEF Place
  <2> QED
    BY <2>1, <2>2, <2>3, <1>4
<1>7. TypeOK'
  BY <1>1, <1>2, <1>3, <1>6 DEF IndInv, TypeOK, list
<1>8. PlaceIsRight'
  BY <1>1, <1>2, <1>3, <1>4, <1>6 DEF PlaceIsRight, list
<1>9. AtRest' /\ Searching'
  BY <1>1 DEF AtRest, Searching
<1> QED
  BY <1>1, <1>7, <1>8, <1>9, ListsStay DEF IndInv

LEMMA EndAddKeeps ==
  ASSUME IndInv, EndAdd
  PROVE  IndInv' /\ added' = (v \notin Members(sets[uuid]))
<1> DEFINE list == sets[uuid]
           new  == JoinAdjacent(Inserted(list), p)
<1>1. /\ pc = "insert" /\ added' = ~Has(list)
      /\ sets' = IF Has(list) THEN sets ELSE [sets EXCEPT ![uuid] = new]
      /\ given' = [given EXCEPT ![uuid] = @ \cup {v}]
      /\ pc' = "idle" /\ l' = 1 /\ p' = 1 /\ r' = 1
      /\ UNCHANGED <<uuid, v, repeated, touching, calls>>
  BY DEF EndAdd
<1>2. /\ uuid \in Uuid /\ list \in List /\ v \in Nat \ {0} /\ p \in 1..(Len(list) + 1)
      /\ Ordered(list) /\ (uuid \in touching \/ Apart(list))
      /\ sets \in [Uuid -> List] /\ given \in [Uuid -> SUBSET (Nat \ {0})]
  BY DEF IndInv, TypeOK, ListInOrder, List
<1>3. Len(list) \in Nat /\ DOMAIN list = 1..Len(list)
      /\ \A k \in DOMAIN list : list[k].start \in Nat \ {0} /\ list[k].end \in Nat \ {0}
  BY <1>2, ListFacts
<1>4. /\ \A k \in 1..(p - 1) : list[k].end < v
      /\ \A k \in DOMAIN list : k > p \/ (k = p /\ v \notin Numbers(list[k])) => v < list[k].start
  BY <1>1 DEF IndInv, PlaceIsRight
<1>5. Told(Package(list)) = Members(list)
  BY <1>2, ToldIsMembers
<1> HIDE DEF list, new
<1>6. ASSUME Has(list)
      PROVE  v \in Members(list)
  BY <1>6 DEF Has, Members
<1>7. ASSUME ~Has(list)
      PROVE  Belongs(list)
  <2>1. ASSUME NEW k \in DOMAIN list, k < p PROVE list[k].end < v
    BY <2>1, <1>2, <1>3, <1>4
  <2>2. ASSUME NEW k \in DOMAIN list, k >= p PROVE v < list[k].start
    BY <2>2, <1>2, <1>3, <1>4, <1>7 DEF Has
  <2> QED
    BY <2>1, <2>2, <1>2 DEF Belongs
<1>8. ASSUME ~Has(list)
      PROVE  v \notin Members(list)
  <2>1. \A k \in DOMAIN list : ~(list[k].start <= v /\ v <= list[k].end)
    BY <1>2, <1>3, <1>7, <1>8 DEF Belongs
  <2> QED
    BY <2>1, <1>2, MembersOf
<1>9. ASSUME ~Has(list)
      PROVE  /\ new \in List /\ Ordered(new) /\ Members(new) = Members(list) \cup {v}
             /\ uuid \in touching \/ Apart(new)
  <2>1. /\ Inserted(list) \in List /\ Ordered(Inserted(list))
        /\ Members(Inserted(list)) = Members(list) \cup {v}
        /\ Apart(list) => ApartBut(Inserted(list), {p, p + 1})
    BY <1>2, <1>7, <1>9, InsertedFacts
  <2>2. p \in Nat \ {0}
    BY <1>2, <1>3
  <2> QED
    BY <2>1, <2>2, <1>2, AdjacentKeeps DEF new
<1>10. /\ sets' \in [Uuid -> List] /\ \A w \in Uuid \ {uuid} : sets'[w] = sets[w] /\ given'[w] = given[w]
       /\ given'[uuid] = given[uuid] \cup {v}
       /\ Members(sets'[uuid]) = Members(list) \cup {v}
       /\ Ordered(sets'[uuid]) /\ (uuid \in touching \/ Apart(sets'[uuid]))
  <2>1. CASE Has(list)
    <3>1. sets' = sets /\ Members(list) = Members(list) \cup {v}
      BY <2>1, <1>1, <1>6
    <3> QED
      BY <3>1, <1>1, <1>2 DEF list
  <2>2. CASE ~Has(list)
    BY <2>2, <1>1, <1>2, <1>9
  <2> QED
    BY <2>1, <2>2
<1>11. TypeOK'
  <2>1. {l, p, r}' \subseteq 1..(Len(sets'[uuid']) + 1)
    <3>1. Len(sets'[uuid]) \in Nat
      BY <1>2, <1>10, ListFacts
    <3> QED
      BY <3>1, <1>1
  <2>2. given' \in [Uuid -> SUBSET (Nat \ {0})] /\ added' \in BOOLEAN
    BY <1>1, <1>2 DEF Has
  <2> QED
    BY <2>1, <2>2, <1>1, <1>10 DEF IndInv, TypeOK, List
<1>12. AtRest' /\ Searching' /\ PlaceIsRight'
  BY <1>1 DEF AtRest, Searching, PlaceIsRight
<1>13. ListInOrder'
  BY <1>1, <1>2, <1>10 DEF IndInv, ListInOrder
<1>14. TellsWhatWasGiven'
  <2>1. Told(Package(sets'[uuid])) = Told(Package(list)) \cup {v}
    BY <1>2, <1>5, <1>10, ToldIsMembers
  <2> QED
    BY <2>1, <1>1, <1>2, <1>10 DEF IndInv, TellsWhatWasGiven, list
<1>15. added' = (v \notin Members(list))
  BY <1>1, <1>6, <1>8
<1> QED
  BY <1>11, <1>12, <1>13, <1>14, <1>15 DEF IndInv, list

LEMMA InvNext == IndInv /\ [Next]_vars => IndInv'
<1> SUFFICES ASSUME IndInv, [Next]_vars PROVE IndInv'
  OBVIOUS
<1>1. ASSUME NEW u \in Uuid, NEW text \in Texts, ReadText(u, text) PROVE IndInv'
  BY <1>1, ReadKeeps
<1>2. ASSUME NEW u \in Uuid, NEW n \in 1..Top, BeginAdd(u, n) PROVE IndInv'
  BY <1>2, BeginKeeps
<1>3. CASE Probe
  BY <1>3, ProbeKeeps
<1>4. CASE EndSearch
  BY <1>4, EndSearchKeeps
<1>5. CASE EndAdd
  BY <1>5, EndAddKeeps
<1>6. CASE UNCHANGED vars
  BY <1>6 DEF vars, search, IndInv, TypeOK, AtRest, Searching, PlaceIsRight, ListInOrder, TellsWhatWasGiven
<1> QED
  BY <1>1, <1>2, <1>3, <1>4, <1>5, <1>6 DEF Next

LEMMA Invariant == Spec => []IndInv
<1> QED
  BY InvInit, InvNext, PTL DEF Spec

-----------------------------------------------------------------------------
(* Every variable has its type; findInterval's indexes stay in the list.   *)
THEOREM GtidTypes == Spec => []TypeOK
<1>1. IndInv => TypeOK
  BY DEF IndInv
<1> QED
  BY <1>1, Invariant, PTL

(* The source is told of exactly the transactions that were given to       *)
(* GtidSet, except for a server that a text names twice.                   *)
THEOREM NothingForgotten == Spec => []TellsWhatWasGiven
<1>1. IndInv => TellsWhatWasGiven
  BY DEF IndInv
<1> QED
  BY <1>1, Invariant, PTL

(* The intervals of UUIDSet stay in order, disjoint, and with gaps where   *)
(* the text had them.                                                      *)
THEOREM IntervalsInOrder == Spec => []ListInOrder
<1>1. IndInv => ListInOrder
  BY DEF IndInv
<1> QED
  BY <1>1, Invariant, PTL

(* findInterval ends at the interval that has the transaction, or at the   *)
(* place where one for it belongs.                                         *)
THEOREM SearchFinds == Spec => []PlaceIsRight
<1>1. IndInv => PlaceIsRight
  BY DEF IndInv
<1> QED
  BY <1>1, Invariant, PTL

(* add returns whether the transaction was new to the set.                 *)
THEOREM AddAnswers == Spec => AddTellsNew
<1>1. IndInv /\ [Next]_vars => [EndAdd => added' = (v \notin Members(sets[uuid]))]_vars
  BY EndAddKeeps
<1> QED
  BY <1>1, Invariant, PTL DEF Spec, AddTellsNew

(* One list of intervals is within another by UUIDSet.isContainedWithin    *)
(* just if its transactions are the other's, where the other has gaps.     *)
LEMMA Contained ==
  ASSUME NEW list \in List, NEW other \in List, Ordered(list), Ordered(other), Apart(other)
  PROVE  IsSubset(list, other)
<1>1. /\ Len(list) \in Nat /\ DOMAIN list = 1..Len(list)
      /\ \A k \in 1..Len(list) : list[k].start \in Nat \ {0} /\ list[k].end \in Nat \ {0}
      /\ \A k \in 1..Len(list) : list[k].start <= list[k].end
  BY ListFacts DEF Ordered
<1>2. /\ Len(other) \in Nat /\ DOMAIN other = 1..Len(other)
      /\ \A k \in 1..Len(other) : other[k].start \in Nat \ {0} /\ other[k].end \in Nat \ {0}
      /\ \A k \in 1..Len(other) : other[k].start <= other[k].end
      /\ \A i, j \in 1..Len(other) : i < j => other[i].end + 1 < other[j].start
  BY ListFacts DEF Ordered, Apart
<1>3. ASSUME IsContainedWithin(list, other)
      PROVE  Members(list) \subseteq Members(other)
  <2> SUFFICES ASSUME NEW x \in Members(list) PROVE x \in Members(other)
    OBVIOUS
  <2>1. x \in Int /\ \E j \in DOMAIN list : list[j].start <= x /\ x <= list[j].end
    BY MembersOf
  <2>2. PICK j \in DOMAIN list : list[j].start <= x /\ x <= list[j].end
    BY <2>1
  <2>3. PICK k \in DOMAIN other : list[j].start >= other[k].start /\ list[j].end <= other[k].end
    BY <1>3 DEF IsContainedWithin
  <2>4. other[k].start <= x /\ x <= other[k].end
    BY <2>1, <2>2, <2>3, <1>1, <1>2
  <2> QED
    BY <2>1, <2>4, MembersOf
<1>4. ASSUME Members(list) \subseteq Members(other), NEW j \in DOMAIN list
      PROVE  \E k \in DOMAIN other : list[j].start >= other[k].start /\ list[j].end <= other[k].end
  <2> DEFINE x == list[j].start
  <2>1. x \in Int /\ x \in Members(list)
    BY <1>1, MembersOf
  <2>2. x \in Members(other)
    BY <2>1, <1>4
  <2>3. PICK k \in DOMAIN other : other[k].start <= x /\ x <= other[k].end
    BY <2>2, MembersOf
  <2>4. ASSUME ~(list[j].end <= other[k].end)
        PROVE  FALSE
    <3> DEFINE y == other[k].end + 1
    <3>1. y \in Int /\ list[j].start <= y /\ y <= list[j].end
      BY <2>3, <2>4, <1>1, <1>2
    <3>2. y \in Members(list)
      BY <3>1, MembersOf
    <3>3. y \in Members(other)
      BY <3>2, <1>4
    <3>4. PICK m \in DOMAIN other : other[m].start <= y /\ y <= other[m].end
      BY <3>3, MembersOf
    <3>5. CASE m = k
      BY <3>4, <3>5, <1>2
    <3>6. CASE k < m
      <4>1. other[k].end + 1 < other[m].start
        BY <3>6, <1>2
      <4> QED
        BY <4>1, <3>4, <1>2
    <3>7. CASE m < k
      <4>1. other[m].end + 1 < other[k].start /\ other[k].start <= other[k].end
        BY <3>7, <1>2
      <4> QED
        BY <4>1, <3>4, <1>2
    <3> QED
      BY <3>5, <3>6, <3>7, <1>2
  <2> QED
    BY <2>3, <2>4
<1> QED
  BY <1>3, <1>4 DEF IsSubset, IsContainedWithin

(* So isContainedWithin answers whether one set is a subset of another     *)
(* that was written with gaps.                                             *)
THEOREM ContainmentIsSubset == Spec => []ContainedIsSubset
<1>1. IndInv => ContainedIsSubset
  <2> SUFFICES ASSUME IndInv, NEW u \in Uuid, NEW w \in Uuid \ touching
               PROVE  IsSubset(sets[u], sets[w])
    BY DEF ContainedIsSubset
  <2>1. sets[u] \in List /\ sets[w] \in List
    BY DEF IndInv, TypeOK, List
  <2>2. Ordered(sets[u]) /\ Ordered(sets[w]) /\ Apart(sets[w])
    BY DEF IndInv, ListInOrder
  <2> QED
    BY <2>1, <2>2, Contained
<1> QED
  BY <1>1, Invariant, PTL
=============================================================================
