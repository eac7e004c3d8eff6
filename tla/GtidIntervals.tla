--------------------------- MODULE GtidIntervals ---------------------------
(***************************************************************************)
(* A set of transactions as GtidSet.java keeps it: for each server a list  *)
(* of closed intervals, built from a text and added to one by one.  The    *)
(* set is what the program tells a source it already has, as a list of     *)
(* right-open ranges (getCommandPackage, GtidResolver).                    *)
(*                                                                         *)
(* add finds its place by binary search; one step of the search is one     *)
(* action here.  Positions are counted from 1.  A definition under         *)
(* "Wrong:" is a plausible mistake in the one after it, which no           *)
(* specification uses.                                                     *)
(***************************************************************************)
EXTENDS Integers, SequencesExt

CONSTANTS
  Uuid,    \* servers
  Texts,   \* lists of intervals a text may give for a server
  Top,     \* bound on the transactions added
  MaxCalls \* bound on the texts read and the transactions added

Numbers(i) == i.start .. i.end

(* The transactions a list stands for.                                     *)
Members(list) == UNION {Numbers(list[k]) : k \in DOMAIN list}

Interval == [start : Nat \ {0}, end : Nat \ {0}]

(* "closed intervals (like MySQL's executed_gtid_set)": in order and       *)
(* disjoint.                                                               *)
Ordered(list) ==
  /\ \A k \in DOMAIN list : list[k].start <= list[k].end
  /\ \A j, k \in DOMAIN list : j < k => list[j].end < list[k].start

(* ...and, as a server writes them, with a gap between any two.            *)
Apart(list) == \A j, k \in DOMAIN list : j < k => list[j].end + 1 < list[k].start

ASSUME GtidAssumption ==
  /\ Top \in Nat /\ MaxCalls \in Nat
  /\ \A text \in Texts : text \in Seq(Interval) /\ text # <<>> /\ Ordered(text)

VARIABLES
  pc,        \* in the constructor: "text"; between calls of add: "idle"; in
             \* its findInterval: "search"; after it: "insert"
  sets,      \* the intervals of each server, none if the map has no entry
  uuid, v,   \* the transaction that is added
  l, p, r,   \* findInterval's variables
  added,     \* what the last add returned
  given,     \* history: the transactions of each server
  repeated,  \* history: servers a text named twice
  touching,  \* history: servers whose text had intervals without a gap
  calls

search == <<uuid, v, l, p, r>>
vars == <<pc, sets, search, added, given, repeated, touching, calls>>

Init ==
  /\ pc = "text" /\ sets = [u \in Uuid |-> <<>>]
  /\ uuid \in Uuid /\ v = 1 /\ l = 1 /\ p = 1 /\ r = 1
  /\ added = FALSE
  /\ given = [u \in Uuid |-> {}] /\ repeated = {} /\ touching = {} /\ calls = 0

-----------------------------------------------------------------------------
JoinedAt(list, k) ==
  IF k - 1 \in DOMAIN list /\ k \in DOMAIN list /\ list[k - 1].end + 1 = list[k].start
  THEN RemoveAt([list EXCEPT ![k - 1].end = list[k].end], k)
  ELSE list

(* Wrong: a new interval is joined only with the one after it.             *)
JoinedAfter(list, k) == JoinedAt(list, k + 1)

(* joinAdjacentIntervals, "only in index+-1 range".                        *)
JoinAdjacent(list, k) == JoinedAt(JoinedAt(list, k + 1), k)

(* The constructor, for the next server its text names: map.put replaces   *)
(* what an earlier part of the text gave for it.                           *)
ReadText(u, text) ==
  /\ pc = "text" /\ calls < MaxCalls /\ calls' = calls + 1
  /\ sets' = [sets EXCEPT ![u] = JoinAdjacent(text, 1)]
  /\ given' = [given EXCEPT ![u] = @ \cup Members(text)]
  /\ repeated' = IF sets[u] = <<>> THEN repeated ELSE repeated \cup {u}
  /\ touching' = IF Apart(text) THEN touching \ {u} ELSE touching \cup {u}
  /\ UNCHANGED <<pc, search, added>>

BeginAdd(u, n) ==
  /\ pc \in {"text", "idle"} /\ calls < MaxCalls /\ calls' = calls + 1
  /\ uuid' = u /\ v' = n
  /\ l' = 1 /\ p' = 1 /\ r' = Len(sets[u]) + 1
  /\ pc' = "search"
  /\ UNCHANGED <<sets, added, given, repeated, touching>>

(* Wrong: the interval in the middle is looked at again; or the next one   *)
(* is passed over as well.                                                 *)
Stay(m) == m
PassTwo(m) == m + 2

After(m) == m + 1

Probe ==
  /\ pc = "search" /\ l < r
  /\ p' = (l + r) \div 2
  /\ LET i == sets[uuid][p']
     IN  \/ i.end < v /\ l' = After(p') /\ UNCHANGED <<r, pc>>
         \/ v < i.start /\ r' = p' /\ UNCHANGED <<l, pc>>
         \/ v \in Numbers(i) /\ pc' = "insert" /\ UNCHANGED <<l, r>>
  /\ UNCHANGED <<sets, uuid, v, added, given, repeated, touching, calls>>

(* Wrong: the last interval looked at is taken for the place.              *)
LastLookedAt(list) == p

Place(list) == IF list # <<>> /\ list[p].end < v THEN p + 1 ELSE p

EndSearch ==
  /\ pc = "search" /\ l >= r
  /\ p' = Place(sets[uuid])
  /\ pc' = "insert"
  /\ UNCHANGED <<sets, uuid, v, l, r, added, given, repeated, touching, calls>>

(* The list with v in the interval at its place, or in one of its own.     *)
Inserted(list) ==
  IF p \in DOMAIN list /\ list[p].start = v + 1 THEN [list EXCEPT ![p].start = v]
  ELSE IF p \in DOMAIN list /\ list[p].end + 1 = v THEN [list EXCEPT ![p].end = v]
  ELSE InsertAt(list, p, [start |-> v, end |-> v])

(* Wrong: only the ends of the interval are compared.                      *)
HasAtEnd(list) == p \in DOMAIN list /\ v \in {list[p].start, list[p].end}

Has(list) == p \in DOMAIN list /\ v \in Numbers(list[p])

EndAdd ==
  /\ pc = "insert"
  /\ LET list == sets[uuid]
     IN  /\ added' = ~Has(list)
         /\ sets' = IF Has(list) THEN sets
                    ELSE [sets EXCEPT ![uuid] = JoinAdjacent(Inserted(list), p)]
  /\ given' = [given EXCEPT ![uuid] = @ \cup {v}]
  /\ pc' = "idle" /\ l' = 1 /\ p' = 1 /\ r' = 1
  /\ UNCHANGED <<uuid, v, repeated, touching, calls>>

Next ==
  \/ \E u \in Uuid : \/ \E text \in Texts : ReadText(u, text)
                     \/ \E n \in 1..Top : BeginAdd(u, n)
  \/ Probe \/ EndSearch \/ EndAdd

(* A call, once begun, runs on.                                            *)
Spec == Init /\ [][Next]_vars /\ WF_vars(Probe \/ EndSearch \/ EndAdd)

-----------------------------------------------------------------------------
(* Wrong: the ranges are sent closed.                                      *)
SentClosed(list) == [k \in DOMAIN list |-> <<list[k].start, list[k].end>>]

(* getCommandPackage, without the server.                                  *)
Package(list) == [k \in DOMAIN list |-> <<list[k].start, list[k].end + 1>>]

(* What the source takes the package for.                                  *)
Told(ranges) == UNION {ranges[k][1] .. (ranges[k][2] - 1) : k \in DOMAIN ranges}

(* UUIDSet.isContainedWithin.                                              *)
IsContainedWithin(list, other) ==
  \A j \in DOMAIN list : \E k \in DOMAIN other :
    list[j].start >= other[k].start /\ list[j].end <= other[k].end

-----------------------------------------------------------------------------
(* What holds of the set.                                                  *)

TypeOK ==
  /\ pc \in {"text", "idle", "search", "insert"}
  /\ sets \in [Uuid -> Seq(Interval)]
  /\ uuid \in Uuid /\ v \in Nat \ {0}
  /\ {l, p, r} \subseteq 1..(Len(sets[uuid]) + 1)
  /\ added \in BOOLEAN
  /\ given \in [Uuid -> SUBSET (Nat \ {0})]
  /\ repeated \subseteq Uuid /\ touching \subseteq Uuid /\ calls \in 0..MaxCalls

(* The source is told of exactly the transactions that were given, however *)
(* intervals were cut, joined and moved: one too few and it sends an event *)
(* again, one too many and it leaves one out.  Only a server named twice   *)
(* in a text loses what the first place gave.                              *)
TellsWhatWasGiven ==
  \A u \in Uuid : IF u \in repeated THEN Told(Package(sets[u])) \subseteq given[u]
                                    ELSE Told(Package(sets[u])) = given[u]

(* The intervals stay in order and disjoint, on which the binary search    *)
(* relies, and with gaps where the text had them, on which                 *)
(* isContainedWithin relies: add joins whatever it makes touch.            *)
ListInOrder ==
  \A u \in Uuid : Ordered(sets[u]) /\ (u \in touching \/ Apart(sets[u]))

(* The search ends at the interval that has v, or where one for v belongs. *)
PlaceIsRight ==
  pc = "insert" =>
    LET list == sets[uuid]
    IN  /\ \A k \in 1..(p - 1) : list[k].end < v
        /\ \A k \in DOMAIN list : k > p \/ (k = p /\ v \notin Numbers(list[k])) => v < list[k].start

(* add says whether the transaction is new (GtidSet.java:130).             *)
AddTellsNew ==
  [][EndAdd => added' = (v \notin Members(sets[uuid]))]_vars

(* Each add comes to an end.                                               *)
AddEnds == pc \in {"search", "insert"} ~> pc = "idle"

(* isContainedWithin, of any two lists, answers whether the one is a       *)
(* subset of the other: here, where that was written with gaps, as servers *)
(* do...                                                                   *)
IsSubset(list, other) == IsContainedWithin(list, other) <=> Members(list) \subseteq Members(other)

ContainedIsSubset ==
  \A u \in Uuid, w \in Uuid \ touching : IsSubset(sets[u], sets[w])

(* ...and, as its comment has it, for every other set.                     *)
ContainedAsDocumented == \A u, w \in Uuid : IsSubset(sets[u], sets[w])
=============================================================================
