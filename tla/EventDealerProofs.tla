------------------------- MODULE EventDealerProofs -------------------------
(***************************************************************************)
(* Proofs about EventDealer, for any tables, databases, statements, queue  *)
(* lengths and batch sizes, and any number of hours, exceptions and        *)
(* back-writers left behind.                                               *)
(***************************************************************************)
EXTENDS EventDealer, SequenceFacts, FiniteSetTheorems

-----------------------------------------------------------------------------
(* Type correctness.                                                       *)

Event == [kind : Kind \cup {"rows"}, table : Table, to : Table, quiet : BOOLEAN]

MainType ==
  /\ pc \in {"deal", "flush", "tasks", "batches", "query", "open", "resize", "drop", "close",
             "done", "aborted"}
  /\ after \in {"deal", "query", "close"}
  /\ log \in Seq(Event)
  /\ (after = "query" \/ pc \in {"query", "open", "resize", "drop"}) => log # <<>>

QueuesType ==
  /\ executors \in Seq(Seq(Nat)) /\ executors # <<>>
  /\ procResult \in Seq(Nat)
  /\ backs \in Seq(Seq(Seq(Nat))) /\ backs # <<>>
  /\ live \subseteq {"executor", "back"}

TablesType ==
  /\ state \in [Table -> {n \in Int : n >= Absent}]
  /\ writer \in [Table -> {"none", "open", "closed"}]
  /\ files \in [Table -> Seq(Seq(Nat))]

TypeInv == MainType /\ QueuesType /\ TablesType

(* The back-writer and the executor of the moment are the last ones.       *)
LEMMA LastOf ==
  ASSUME NEW S, NEW s \in Seq(S), s # <<>>
  PROVE  Len(s) \in 1..Len(s) /\ Last(s) = s[Len(s)] /\ Last(s) \in S
<1>1. Len(s) \in Nat /\ Len(s) # 0
  BY EmptySeq
<1>2. Len(s) \in 1..Len(s)
  BY <1>1
<1> QED
  BY <1>2, ElementOfSeq DEF Last

LEMMA SubmittedFacts ==
  ASSUME NEW S, NEW pool \in Seq(Seq(S)), pool # <<>>, NEW task \in S
  PROVE  /\ Submitted(pool, task) \in Seq(Seq(S)) /\ Submitted(pool, task) # <<>>
         /\ Len(Submitted(pool, task)) = Len(pool)
         /\ \A e \in 1..Len(pool) :
              Submitted(pool, task)[e] = IF e = Len(pool) THEN Append(pool[e], task) ELSE pool[e]
<1>1. Len(pool) \in 1..Len(pool) /\ pool[Len(pool)] \in Seq(S)
  BY LastOf
<1>2. Append(pool[Len(pool)], task) \in Seq(S)
  BY <1>1
<1> QED
  BY <1>1, <1>2, ExceptSeq DEF Submitted

LEMMA ReplacedFacts ==
  ASSUME NEW S, NEW pool \in Seq(Seq(S)), pool # <<>>
  PROVE  /\ Replaced(pool) \in Seq(Seq(S)) /\ Replaced(pool) # <<>>
         /\ \A e \in 1..Len(pool) : Replaced(pool)[e] = pool[e]
         /\ \/ Replaced(pool) = pool
            \/ /\ Len(Replaced(pool)) = Len(pool) + 1
               /\ Replaced(pool)[Len(pool) + 1] = <<>>
<1>1. <<>> \in Seq(S)
  OBVIOUS
<1> QED
  BY <1>1, AppendProperties DEF Replaced

LEMMA InitType == Init => TypeInv
<1> SUFFICES ASSUME Init PROVE TypeInv
  OBVIOUS
<1>1. MainType
  BY DEF Init, MainType
<1>2. QueuesType
  <2>1. <<>> \in Seq(Nat) /\ <<>> \in Seq(Seq(Nat))
    OBVIOUS
  <2>2. << <<>> >> \in Seq(Seq(Nat)) /\ << <<>> >> \in Seq(Seq(Seq(Nat))) /\ << <<>> >> # <<>>
    BY <2>1
  <2> QED
    BY <2>1, <2>2 DEF Init, QueuesType
<1>3. TablesType
  BY DEF Init, TablesType, Absent
<1> QED
  BY <1>1, <1>2, <1>3 DEF TypeInv

LEMMA TypeKept ==
  ASSUME TypeInv
  PROVE  /\ UNCHANGED <<executors, procResult, backs, live>> => QueuesType'
         /\ UNCHANGED <<state, writer, files>> => TablesType'
BY DEF TypeInv, QueuesType, TablesType

(* The event a statement carries out.                                      *)
LEMMA LastEvent ==
  ASSUME MainType, log # <<>>
  PROVE  /\ Len(log) \in 1..Len(log) /\ Last(log) = log[Len(log)]
         /\ Last(log) \in Event /\ Last(log).table \in Table
<1>1. log \in Seq(Event)
  BY DEF MainType
<1>2. Len(log) \in 1..Len(log) /\ Last(log) = log[Len(log)] /\ Last(log) \in Event
  BY <1>1, LastOf
<1> QED
  BY <1>2 DEF Event

LEMMA DealRowsType ==
  ASSUME TypeInv, NEW t \in Table, DealRows(t)
  PROVE  TypeInv'
<1> DEFINE x == [kind |-> "rows", table |-> t, to |-> t, quiet |-> TRUE]
<1>1. x \in Event
  BY DEF Event
<1>2. log' = Append(log, x) /\ log \in Seq(Event)
  BY DEF DealRows, TypeInv, MainType
<1> HIDE DEF x
<1>3. log' \in Seq(Event) /\ log' # <<>> /\ Len(log') \in Nat
  BY <1>1, <1>2, AppendProperties
<1>4. MainType'
  BY <1>3 DEF DealRows, MainType
<1>5. QueuesType'
  <2>1. Submitted(executors, Len(log')) \in Seq(Seq(Nat)) /\ Submitted(executors, Len(log')) # <<>>
    BY <1>3, SubmittedFacts DEF TypeInv, QueuesType
  <2>2. executors' = Submitted(executors, Len(log')) /\ procResult' = Append(procResult, Len(log'))
        /\ backs' = backs /\ live' = live \cup {"executor"}
    BY DEF DealRows
  <2>3. procResult' \in Seq(Nat)
    BY <1>3, <2>2, AppendProperties DEF TypeInv, QueuesType
  <2> QED
    BY <2>1, <2>2, <2>3 DEF TypeInv, QueuesType
<1>6. TablesType'
  BY TypeKept DEF DealRows, tables
<1> QED
  BY <1>4, <1>5, <1>6 DEF TypeInv

(* The statements of the log.                                              *)
Reads(k, t, to, quiet) ==
  /\ k \in Kind /\ t \in Table /\ to \in Table /\ quiet \in BOOLEAN
  /\ DealQuery(k, t, to, quiet)

LEMMA DealIs ==
  ASSUME EventDealerAssumption, Deal
  PROVE  \/ \E t \in Table : DealRows(t)
         \/ \E k, t, to, quiet : Reads(k, t, to, quiet)
         \/ DealEnd
<1>1. ASSUME NEW s \in Statement, NEW t \in Table, NEW to \in Table, DealQuery(s.kind, t, to, s.quiet)
      PROVE  \E k, u, v, quiet : Reads(k, u, v, quiet)
  <2>1. s.kind \in Kind /\ s.quiet \in BOOLEAN
    BY DEF EventDealerAssumption
  <2>2. Reads(s.kind, t, to, s.quiet)
    BY <1>1, <2>1 DEF Reads
  <2> QED
    BY <2>2
<1> QED
  BY <1>1 DEF Deal

LEMMA DealQueryType ==
  ASSUME TypeInv, NEW k \in Kind, NEW t \in Table, NEW to \in Table, NEW quiet \in BOOLEAN,
         DealQuery(k, t, to, quiet)
  PROVE  TypeInv'
<1> DEFINE x == [kind |-> k, table |-> t, to |-> to, quiet |-> quiet]
<1>1. x \in Event
  BY DEF Event
<1>2. log' = Append(log, x) /\ log \in Seq(Event)
  BY DEF DealQuery, TypeInv, MainType
<1> HIDE DEF x
<1>3. log' \in Seq(Event) /\ log' # <<>>
  BY <1>1, <1>2, AppendProperties
<1>4. MainType'
  BY <1>3 DEF DealQuery, MainType
<1> QED
  BY <1>4, TypeKept DEF DealQuery, TypeInv, queues, tables

LEMMA WriteBackType ==
  ASSUME TypeInv, WriteBack
  PROVE  TypeInv'
<1>1. Submitted(backs, procResult) \in Seq(Seq(Seq(Nat))) /\ Submitted(backs, procResult) # <<>>
  BY SubmittedFacts DEF TypeInv, QueuesType
<1>2. <<>> \in Seq(Nat)
  OBVIOUS
<1>3. QueuesType'
  BY <1>1, <1>2 DEF WriteBack, TypeInv, QueuesType
<1>4. MainType'
  BY DEF WriteBack, TypeInv, MainType
<1> QED
  BY <1>3, <1>4, TypeKept DEF WriteBack, TypeInv, tables

LEMMA AwaitType ==
  ASSUME TypeInv, AwaitTasks \/ AwaitBatches
  PROVE  TypeInv'
<1>1. Replaced(executors) \in Seq(Seq(Nat)) /\ Replaced(executors) # <<>>
  BY ReplacedFacts DEF TypeInv, QueuesType
<1>2. Replaced(backs) \in Seq(Seq(Seq(Nat))) /\ Replaced(backs) # <<>>
  BY ReplacedFacts DEF TypeInv, QueuesType
<1>3. QueuesType'
  BY <1>1, <1>2 DEF AwaitTasks, AwaitBatches, ShutDown, TypeInv, QueuesType
<1>4. MainType'
  BY DEF AwaitTasks, AwaitBatches, TypeInv, MainType
<1> QED
  BY <1>3, <1>4, TypeKept DEF AwaitTasks, AwaitBatches, TypeInv, tables

LEMMA CloseWriterType ==
  ASSUME TypeInv, CloseWriter
  PROVE  TypeInv'
<1>1. MainType /\ log # <<>> /\ UNCHANGED <<after, log, queues, files>> /\ pc' = "open"
  BY DEF CloseWriter, InQuery, TypeInv, MainType
<1>2. PICK t \in Table : t = Last(log).table
  BY <1>1, LastEvent
<1>3. /\ state' = [state EXCEPT ![t] = @ + 1]
      /\ writer' = [writer EXCEPT ![t] = IF state[t] = Absent THEN @ ELSE "closed"]
  BY <1>2 DEF CloseWriter
<1>4. TablesType'
  BY <1>1, <1>3 DEF TypeInv, TablesType, Absent
<1>5. MainType'
  BY <1>1 DEF MainType
<1> QED
  BY <1>1, <1>4, <1>5, TypeKept DEF TypeInv, queues

LEMMA OpenWriterType ==
  ASSUME TypeInv, OpenWriter,
         \A t \in Table : pc = "open" /\ t = Last(log).table => state[t] \in 0..Len(files[t])
  PROVE  TypeInv'
<1>1. MainType /\ log # <<>> /\ UNCHANGED <<after, log, queues, state>> /\ pc = "open"
      /\ pc' \in {"resize", "deal", "aborted"}
  BY DEF OpenWriter, WriteDDLCompat, TypeInv, MainType
<1>2. PICK t \in Table : t = Last(log).table
  BY <1>1, LastEvent
<1>3. /\ writer' = [writer EXCEPT ![t] = "open"]
      /\ files' = [files EXCEPT ![t] = Append(SubSeq(@, 1, state[t]), <<>>)]
  BY <1>2 DEF OpenWriter
<1>4. files[t] \in Seq(Seq(Nat)) /\ state[t] \in 0..Len(files[t])
  BY <1>1, <1>2 DEF TypeInv, TablesType
<1>5. SubSeq(files[t], 1, state[t]) \in Seq(Seq(Nat)) /\ <<>> \in Seq(Nat)
  BY <1>4
<1>6. Append(SubSeq(files[t], 1, state[t]), <<>>) \in Seq(Seq(Nat))
  BY <1>5
<1>7. TablesType'
  BY <1>1, <1>3, <1>6 DEF TypeInv, TablesType
<1>8. MainType'
  BY <1>1 DEF MainType
<1> QED
  BY <1>1, <1>7, <1>8, TypeKept DEF TypeInv, queues

LEMMA CloseOneType ==
  ASSUME TypeInv, NEW t \in Table, CloseOne(t)
  PROVE  TypeInv'
<1>1. MainType'
  BY DEF CloseOne, TypeInv, MainType
<1>2. TablesType'
  BY DEF CloseOne, TypeInv, TablesType
<1> QED
  BY <1>1, <1>2, TypeKept DEF CloseOne, TypeInv, queues

LEMMA ForgetType ==
  ASSUME TypeInv, Forget
  PROVE  TypeInv'
<1>1. MainType'
  BY DEF Forget, TypeInv, MainType
<1>2. TablesType'
  BY DEF Forget, TypeInv, TablesType, Absent
<1> QED
  BY <1>1, <1>2, TypeKept DEF Forget, TypeInv, queues

LEMMA CloseAllType ==
  ASSUME TypeInv, CloseAll
  PROVE  TypeInv'
<1>1. MainType'
  BY DEF CloseAll, TypeInv, MainType
<1>2. TablesType'
  BY DEF CloseAll, TypeInv, TablesType
<1> QED
  BY <1>1, <1>2, TypeKept DEF CloseAll, TypeInv, queues

LEMMA OtherMainType ==
  ASSUME TypeInv, DealEnd \/ Resized \/ NotHandled \/ DropDatabase \/ Unread
  PROVE  TypeInv'
<1>1. MainType'
  BY DEF DealEnd, Resized, WriteDDLCompat, NotHandled, DropDatabase, Unread, InQuery, TypeInv, MainType
<1> QED
  BY <1>1, TypeKept DEF DealEnd, Resized, NotHandled, DropDatabase, Unread, TypeInv, queues, tables

LEMMA FinishTaskType ==
  ASSUME TypeInv, FinishTask
  PROVE  TypeInv'
<1>0. PICK e \in DOMAIN executors : \E j \in DOMAIN executors[e] :
        executors' = [executors EXCEPT ![e] = RemoveAt(@, j)]
  BY DEF FinishTask
<1>1. PICK i \in DOMAIN executors[e] : executors' = [executors EXCEPT ![e] = RemoveAt(@, i)]
  BY <1>0
<1>2. executors \in Seq(Seq(Nat)) /\ e \in 1..Len(executors) /\ executors # <<>>
      /\ executors[e] \in Seq(Nat) /\ i \in 1..Len(executors[e])
  BY DEF TypeInv, QueuesType
<1>3. RemoveAt(executors[e], i) \in Seq(Nat)
  BY <1>2, RemoveAtFacts
<1>4. executors' \in Seq(Seq(Nat)) /\ Len(executors') = Len(executors)
  BY <1>1, <1>2, <1>3, ExceptSeq
<1>5. executors' # <<>>
  BY <1>2, <1>4, EmptySeq
<1>6. QueuesType'
  BY <1>4, <1>5 DEF FinishTask, TypeInv, QueuesType
<1>7. MainType'
  BY DEF FinishTask, TypeInv, MainType
<1> QED
  BY <1>6, <1>7, TypeKept DEF FinishTask, TypeInv, tables

-----------------------------------------------------------------------------
(* A back-writer's queue: the rows of its batches, one after another.      *)

Queue(b) == FlattenSeq(backs[b])

(* The rows not written yet.                                               *)
Waiting == Range(procResult) \cup UNION {Range(Queue(b)) : b \in 1..Len(backs)}

Numbered ==
  /\ Waiting \subseteq 1..Len(log)
  /\ \A t \in Table : Range(FlattenSeq(files[t])) \subseteq 1..Len(log)

LEMMA QueueType ==
  ASSUME QueuesType, NEW b \in 1..Len(backs)
  PROVE  backs[b] \in Seq(Seq(Nat)) /\ Queue(b) \in Seq(Nat)
BY FlattenType DEF QueuesType, Queue

LEMMA QueueHead ==
  ASSUME NEW s \in Seq(Seq(Nat)), s # <<>>
  PROVE  /\ Head(s) \in Seq(Nat) /\ Tail(s) \in Seq(Seq(Nat)) /\ FlattenSeq(Tail(s)) \in Seq(Nat)
         /\ FlattenSeq(s) = Head(s) \o FlattenSeq(Tail(s))
         /\ \A h \in Seq(Nat) : /\ [s EXCEPT ![1] = h] \in Seq(Seq(Nat))
                                /\ FlattenSeq([s EXCEPT ![1] = h]) = h \o FlattenSeq(Tail(s))
<1>1. Head(s) \in Seq(Nat) /\ Tail(s) \in Seq(Seq(Nat)) /\ Len(s) \in Nat /\ 1 \in 1..Len(s)
  BY HeadTailProperties, EmptySeq
<1>2. FlattenSeq(s) = Head(s) \o FlattenSeq(Tail(s)) /\ FlattenSeq(Tail(s)) \in Seq(Nat)
  BY <1>1, FlattenCons, FlattenType
<1>3. ASSUME NEW h \in Seq(Nat)
      PROVE  /\ [s EXCEPT ![1] = h] \in Seq(Seq(Nat))
             /\ FlattenSeq([s EXCEPT ![1] = h]) = h \o FlattenSeq(Tail(s))
  <2> DEFINE u == [s EXCEPT ![1] = h]
  <2>1. u \in Seq(Seq(Nat)) /\ Len(u) = Len(s) /\ \A j \in 1..Len(s) : u[j] = IF j = 1 THEN h ELSE s[j]
    BY <1>1, ExceptSeq
  <2> HIDE DEF u
  <2>2. u # <<>> /\ Head(u) = h
    BY <1>1, <2>1, EmptySeq
  <2>6. Tail(u) \in Seq(Seq(Nat)) /\ Len(Tail(u)) = Len(u) - 1
        /\ \A j \in 1..Len(Tail(u)) : Tail(u)[j] = u[j + 1]
    BY <2>1, <2>2, HeadTailProperties
  <2>7. Tail(s) \in Seq(Seq(Nat)) /\ Len(Tail(s)) = Len(s) - 1
        /\ \A j \in 1..Len(Tail(s)) : Tail(s)[j] = s[j + 1]
    BY HeadTailProperties
  <2>3. Tail(u) \in Seq(Seq(Nat)) /\ Len(Tail(u)) = Len(Tail(s))
        /\ \A j \in 1..Len(Tail(u)) : Tail(u)[j] = Tail(s)[j]
    <3>1. Len(Tail(u)) = Len(Tail(s)) /\ Len(s) \in Nat
      BY <1>1, <2>1, <2>6, <2>7
    <3>2. ASSUME NEW j \in 1..Len(Tail(u)) PROVE Tail(u)[j] = Tail(s)[j]
      <4>1. j + 1 \in 1..Len(s) /\ j + 1 # 1 /\ j \in 1..Len(Tail(s))
        BY <2>7, <3>1
      <4> QED
        BY <2>1, <2>6, <2>7, <4>1
    <3> QED
      BY <2>6, <3>1, <3>2
  <2>4. Tail(u) = Tail(s)
    BY <1>1, <2>3, SeqEqual
  <2>5. FlattenSeq(u) = Head(u) \o FlattenSeq(Tail(u))
    BY <2>1, <2>2, FlattenCons
  <2> QED
    BY <2>1, <2>2, <2>4, <2>5 DEF u
<1> QED
  BY <1>1, <1>2, <1>3

(* A future is taken from the front of a queue, and sometimes the rest of  *)
(* its batch is lost with it.                                              *)
Taken(b, row) ==
  /\ backs' \in Seq(Seq(Seq(Nat))) /\ Len(backs') = Len(backs)
  /\ \A e \in 1..Len(backs) : e # b => Queue(e)' = Queue(e)
  /\ \E p \in Seq(Nat) : p # <<>> /\ p[1] = row /\ Queue(b) = p \o Queue(b)'

(* What WriteNext does to a row it takes.                                  *)
Put(t, row) ==
  /\ row \notin unparsed /\ writer[t] = "open"
  /\ files' = [files EXCEPT ![t][state[t] + 1] = Append(@, row)]

Caught(row) == row \in unparsed \/ writer[log[row].table] = "closed"

NullPointer(row) == row \notin unparsed /\ (writer[log[row].table] = "none" \/ pc = "resize")

Written(b, row) ==
  \/ UNCHANGED files /\ (Caught(row) \/ NullPointer(row))
  \/ Put(log[row].table, row) /\ Queue(b) = <<row>> \o Queue(b)'

LEMMA WriteNextTakes ==
  ASSUME TypeInv, NEW b \in DOMAIN backs, WriteNext(b)
  PROVE  \E row \in Nat : Taken(b, row) /\ Written(b, row)
<1> DEFINE s == backs[b]
           h == Head(s)
           rest == FlattenSeq(Tail(s))
<1>1. backs \in Seq(Seq(Seq(Nat))) /\ b \in 1..Len(backs) /\ s \in Seq(Seq(Nat))
      /\ s # <<>> /\ h # <<>>
  <2>1. backs \in Seq(Seq(Seq(Nat))) /\ b \in 1..Len(backs)
    BY DEF TypeInv, QueuesType
  <2>2. s \in Seq(Seq(Nat))
    BY <2>1, ElementOfSeq
  <2>3. s # <<>> /\ h # <<>>
    BY DEF WriteNext
  <2> QED
    BY <2>1, <2>2, <2>3
<1>2. h \in Seq(Nat) /\ Tail(s) \in Seq(Seq(Nat)) /\ rest \in Seq(Nat) /\ Queue(b) = h \o rest
  BY <1>1, QueueHead DEF Queue
<1>3. /\ h[1] \in Nat /\ Tail(h) \in Seq(Nat) /\ h = <<h[1]>> \o Tail(h)
      /\ RestOf(h, NextFuture(h)) = Tail(h)
  <2> HIDE DEF h
  <2>1. Len(h) \in Nat /\ 1 \in 1..Len(h)
    BY <1>1, <1>2, EmptySeq
  <2>2. h[1] \in Nat /\ Tail(h) \in Seq(Nat)
    BY <1>1, <1>2, <2>1, HeadTailProperties, ElementOfSeq
  <2>3. /\ RemoveAt(h, 1) \in Seq(Nat) /\ Len(RemoveAt(h, 1)) = Len(h) - 1
        /\ \A j \in 1..(Len(h) - 1) : RemoveAt(h, 1)[j] = h[j + 1]
    BY <1>2, <2>1, RemoveAtFacts
  <2>4. Len(Tail(h)) = Len(h) - 1 /\ \A j \in 1..(Len(h) - 1) : Tail(h)[j] = h[j + 1]
    BY <1>1, <1>2, HeadTailProperties
  <2>5. RemoveAt(h, 1) = Tail(h)
    BY <2>1, <2>2, <2>3, <2>4, SeqEqual
  <2>6. h = <<h[1]>> \o Tail(h)
    BY <1>1, <1>2, FirstAndRest
  <2> QED
    BY <2>2, <2>5, <2>6 DEF RestOf, NextFuture
<1> DEFINE Spoiled == UNCHANGED files /\ (Caught(h[1]) \/ NullPointer(h[1]))
<1>4. \/ backs' = [backs EXCEPT ![b][1] = Tail(h)] /\ (Spoiled \/ Put(log[h[1]].table, h[1]))
      \/ backs' = [backs EXCEPT ![b] = Tail(s)] /\ Spoiled
  <2> HIDE DEF h
  <2>1. \/ backs' = [backs EXCEPT ![b][1] = RestOf(h, NextFuture(h))]
           /\ (Spoiled \/ Put(log[h[1]].table, h[1]))
        \/ backs' = [backs EXCEPT ![b] = LostBatch(@)] /\ Spoiled
    BY DEF WriteNext, h, Put, NextFuture, Caught, NullPointer
  <2> QED
    BY <1>3, <2>1 DEF LostBatch
<1> HIDE DEF s, h, rest
<1>5. CASE backs' = [backs EXCEPT ![b][1] = Tail(h)] /\ (Spoiled \/ Put(log[h[1]].table, h[1]))
  <2> DEFINE u == [s EXCEPT ![1] = Tail(h)]
  <2>1. u \in Seq(Seq(Nat)) /\ FlattenSeq(u) = Tail(h) \o rest
    BY <1>1, <1>3, QueueHead DEF rest
  <2>2. backs' = [backs EXCEPT ![b] = u]
    BY <1>5 DEF s
  <2> HIDE DEF u
  <2>3. backs' \in Seq(Seq(Seq(Nat))) /\ Len(backs') = Len(backs)
        /\ \A e \in 1..Len(backs) : backs'[e] = IF e = b THEN u ELSE backs[e]
    BY <1>1, <2>1, <2>2, ExceptSeq
  <2>4. Queue(b)' = Tail(h) \o rest /\ \A e \in 1..Len(backs) : e # b => Queue(e)' = Queue(e)
    BY <1>1, <2>1, <2>3 DEF Queue
  <2>5. <<h[1]>> \in Seq(Nat) /\ <<h[1]>> # <<>> /\ <<h[1]>>[1] = h[1]
    BY <1>3
  <2>6. Queue(b) = <<h[1]>> \o (Tail(h) \o rest)
    <3> DEFINE x == <<h[1]>>
               r == Tail(h)
    <3>1. x \in Seq(Nat) /\ r \in Seq(Nat) /\ h = x \o r
      BY <1>3, <2>5
    <3> HIDE DEF x, r
    <3>2. \A c \in Seq(Nat) : (x \o r) \o c = x \o (r \o c)
      BY <3>1, ConcatAssociative
    <3> QED
      BY <1>2, <3>1, <3>2 DEF x, r
  <2>7. Taken(b, h[1])
    BY <2>3, <2>4, <2>5, <2>6 DEF Taken
  <2>8. Queue(b) = <<h[1]>> \o Queue(b)'
    BY <2>4, <2>6
  <2> QED
    BY <1>3, <1>5, <2>7, <2>8 DEF Written
<1>6. CASE backs' = [backs EXCEPT ![b] = Tail(s)] /\ Spoiled
  <2>1. backs' \in Seq(Seq(Seq(Nat))) /\ Len(backs') = Len(backs)
        /\ \A e \in 1..Len(backs) : backs'[e] = IF e = b THEN Tail(s) ELSE backs[e]
    BY <1>1, <1>2, <1>6, ExceptSeq
  <2>2. Queue(b)' = rest /\ \A e \in 1..Len(backs) : e # b => Queue(e)' = Queue(e)
    BY <1>1, <2>1 DEF Queue, rest
  <2>3. Taken(b, h[1])
    BY <1>1, <1>2, <2>1, <2>2 DEF Taken
  <2> QED
    BY <1>3, <1>6, <2>3 DEF Written
<1> QED
  BY <1>4, <1>5, <1>6

(* An empty batch goes, and nothing with it.                               *)
LEMMA NextBatchTakesNothing ==
  ASSUME TypeInv, NEW b \in DOMAIN backs, NextBatch(b)
  PROVE  /\ backs' \in Seq(Seq(Seq(Nat))) /\ Len(backs') = Len(backs)
         /\ \A e \in 1..Len(backs) : Queue(e)' = Queue(e)
<1> DEFINE s == backs[b]
<1>1. backs \in Seq(Seq(Seq(Nat))) /\ b \in 1..Len(backs) /\ s \in Seq(Seq(Nat))
      /\ s # <<>> /\ Head(s) = <<>> /\ backs' = [backs EXCEPT ![b] = Tail(s)]
  <2>1. backs \in Seq(Seq(Seq(Nat))) /\ b \in 1..Len(backs)
    BY DEF TypeInv, QueuesType
  <2>2. s \in Seq(Seq(Nat))
    BY <2>1, ElementOfSeq
  <2>3. s # <<>> /\ Head(s) = <<>> /\ backs' = [backs EXCEPT ![b] = Tail(s)]
    BY DEF NextBatch
  <2> QED
    BY <2>1, <2>2, <2>3
<1> HIDE DEF s
<1>2. Tail(s) \in Seq(Seq(Nat)) /\ FlattenSeq(Tail(s)) \in Seq(Nat)
      /\ FlattenSeq(s) = <<>> \o FlattenSeq(Tail(s))
  BY <1>1, QueueHead
<1>3. FlattenSeq(s) = FlattenSeq(Tail(s))
  BY <1>2, ConcatEmptySeq
<1>4. backs' \in Seq(Seq(Seq(Nat))) /\ Len(backs') = Len(backs)
      /\ \A e \in 1..Len(backs) : backs'[e] = IF e = b THEN Tail(s) ELSE backs[e]
  <2> DEFINE r == Tail(s)
  <2>1. r \in Seq(Seq(Nat)) /\ backs' = [backs EXCEPT ![b] = r]
    BY <1>1, <1>2
  <2>1a. backs \in Seq(Seq(Seq(Nat))) /\ b \in 1..Len(backs)
    BY <1>1
  <2> HIDE DEF r
  <2>2. backs' \in Seq(Seq(Seq(Nat))) /\ Len(backs') = Len(backs)
        /\ \A e \in 1..Len(backs) : backs'[e] = IF e = b THEN r ELSE backs[e]
    BY <2>1, <2>1a, ExceptSeq
  <2> QED
    BY <2>2 DEF r
<1>5. s = backs[b]
  BY DEF s
<1> QED
  BY <1>3, <1>4, <1>5 DEF Queue

-----------------------------------------------------------------------------
(* Where a row goes: while a writer is open, its file is the newest one of *)
(* its table; between closing and opening it, the files of the states left *)
(* behind are all there.                                                   *)

Opening(t) == pc = "open" /\ t = Last(log).table

PlaceInv ==
  \A t \in Table :
    /\ state[t] = Absent => writer[t] = "none"
    /\ writer[t] = "open" => state[t] # Absent /\ ~Opening(t)
    /\ Opening(t) => state[t] \in 0..Len(files[t])
    /\ state[t] # Absent /\ ~Opening(t) => Len(files[t]) = state[t] + 1

LEMMA InitPlace == Init => PlaceInv
BY DEF Init, PlaceInv, Opening

LEMMA PlaceKept ==
  ASSUME PlaceInv, UNCHANGED <<state, files>>, pc # "open", pc' # "open",
         \A t \in Table : writer'[t] = "open" => writer[t] = "open",
         \A t \in Table : state[t] = Absent => writer'[t] = writer[t]
  PROVE  PlaceInv'
BY DEF PlaceInv, Opening

LEMMA SameWriters ==
  ASSUME PlaceInv, UNCHANGED <<state, files, writer>>, pc # "open", pc' # "open"
  PROVE  PlaceInv'
BY DEF PlaceInv, Opening

LEMMA OtherThread ==
  ASSUME PlaceInv, UNCHANGED <<pc, log, state, writer>>,
         \A t \in Table : Len(files'[t]) = Len(files[t])
  PROVE  PlaceInv'
BY DEF PlaceInv, Opening

LEMMA CloseWriterPlace ==
  ASSUME TypeInv, PlaceInv, CloseWriter
  PROVE  PlaceInv'
<1>1. MainType /\ log # <<>> /\ UNCHANGED <<log, files>> /\ pc' = "open" /\ pc = "query"
  BY DEF CloseWriter, InQuery, TypeInv, MainType
<1>2. PICK t \in Table : t = Last(log).table
  BY <1>1, LastEvent
<1>3. /\ state' = [state EXCEPT ![t] = @ + 1]
      /\ writer' = [writer EXCEPT ![t] = IF state[t] = Absent THEN @ ELSE "closed"]
      /\ Last(log').table = t
  BY <1>1, <1>2 DEF CloseWriter
<1>4. /\ state[t] \in Int /\ state[t] >= -1 /\ state'[t] = state[t] + 1
      /\ writer'[t] = IF state[t] = Absent THEN writer[t] ELSE "closed"
      /\ \A u \in Table : u # t => state'[u] = state[u] /\ writer'[u] = writer[u]
      /\ Len(files[t]) \in Nat
  BY <1>3 DEF TypeInv, TablesType, Absent
<1>5. ASSUME NEW u \in Table
      PROVE  /\ state'[u] = Absent => writer'[u] = "none"
             /\ writer'[u] = "open" => state'[u] # Absent /\ ~Opening(u)'
             /\ Opening(u)' => state'[u] \in 0..Len(files'[u])
             /\ state'[u] # Absent /\ ~Opening(u)' => Len(files'[u]) = state'[u] + 1
  <2>1. Opening(u)' <=> u = t
    BY <1>1, <1>3 DEF Opening
  <2>2. ~Opening(u)
    BY <1>1 DEF Opening
  <2>3. CASE u = t
    <3>1. state'[t] # Absent /\ writer'[t] # "open"
      BY <1>4 DEF PlaceInv, Absent
    <3>2. state'[t] \in 0..Len(files[t])
      BY <1>4, <2>2, <2>3 DEF PlaceInv, Absent
    <3> QED
      BY <1>1, <2>1, <2>3, <3>1, <3>2
  <2>4. CASE u # t
    BY <1>1, <1>4, <2>1, <2>2, <2>4 DEF PlaceInv
  <2> QED
    BY <2>3, <2>4
<1> QED
  BY <1>5 DEF PlaceInv

LEMMA OpenWriterFacts ==
  ASSUME TypeInv, PlaceInv, OpenWriter
  PROVE  \E t \in Table :
           /\ t = Last(log).table /\ state[t] \in 0..Len(files[t])
           /\ files[t] \in Seq(Seq(Nat))
           /\ SubSeq(files[t], 1, state[t]) \in Seq(Seq(Nat))
           /\ Len(SubSeq(files[t], 1, state[t])) = state[t]
           /\ writer' = [writer EXCEPT ![t] = "open"]
           /\ files' = [files EXCEPT ![t] = Append(SubSeq(files[t], 1, state[t]), <<>>)]
           /\ pc = "open" /\ pc' \in {"resize", "deal", "aborted"}
           /\ UNCHANGED <<after, log, queues, state, known, faults>>
<1>1. MainType /\ log # <<>> /\ pc = "open" /\ pc' \in {"resize", "deal", "aborted"}
      /\ UNCHANGED <<after, log, queues, state, known, faults>>
  BY DEF OpenWriter, WriteDDLCompat, TypeInv, MainType
<1>2. PICK t \in Table : t = Last(log).table
  BY <1>1, LastEvent
<1>3. /\ writer' = [writer EXCEPT ![t] = "open"]
      /\ files' = [files EXCEPT ![t] = Append(SubSeq(files[t], 1, state[t]), <<>>)]
  BY <1>2 DEF OpenWriter
<1>4. state[t] \in 0..Len(files[t]) /\ files[t] \in Seq(Seq(Nat))
  BY <1>1, <1>2 DEF PlaceInv, Opening, TypeInv, TablesType
<1>5. SubSeq(files[t], 1, state[t]) \in Seq(Seq(Nat)) /\ Len(SubSeq(files[t], 1, state[t])) = state[t]
  BY <1>4
<1> QED
  BY <1>1, <1>2, <1>3, <1>4, <1>5

LEMMA OpenWriterPlace ==
  ASSUME TypeInv, PlaceInv, OpenWriter
  PROVE  PlaceInv'
<1>1. PICK t \in Table :
           /\ t = Last(log).table /\ state[t] \in 0..Len(files[t])
           /\ files[t] \in Seq(Seq(Nat))
           /\ SubSeq(files[t], 1, state[t]) \in Seq(Seq(Nat))
           /\ Len(SubSeq(files[t], 1, state[t])) = state[t]
           /\ writer' = [writer EXCEPT ![t] = "open"]
           /\ files' = [files EXCEPT ![t] = Append(SubSeq(files[t], 1, state[t]), <<>>)]
           /\ pc = "open" /\ pc' \in {"resize", "deal", "aborted"}
           /\ UNCHANGED <<after, log, queues, state, known, faults>>
  BY OpenWriterFacts
<1>2. Len(files'[t]) = state[t] + 1
  <2>1. Len(Append(SubSeq(files[t], 1, state[t]), <<>>)) = Len(SubSeq(files[t], 1, state[t])) + 1
    BY <1>1
  <2> QED
    BY <1>1, <2>1 DEF TypeInv, TablesType
<1>3. /\ \A u \in Table : u # t => files'[u] = files[u] /\ writer'[u] = writer[u] /\ ~Opening(u)
      /\ \A u \in Table : ~Opening(u)'
      /\ state' = state /\ state[t] # Absent
  BY <1>1 DEF Opening, TypeInv, TablesType, Absent
<1>4. ASSUME NEW u \in Table
      PROVE  /\ state'[u] = Absent => writer'[u] = "none"
             /\ writer'[u] = "open" => state'[u] # Absent
             /\ state'[u] # Absent => Len(files'[u]) = state'[u] + 1
  <2>1. CASE u = t
    BY <1>2, <1>3, <2>1
  <2>2. CASE u # t
    BY <1>3, <2>2 DEF PlaceInv
  <2> QED
    BY <2>1, <2>2
<1> QED
  BY <1>3, <1>4 DEF PlaceInv

LEMMA CloseOnePlace ==
  ASSUME TypeInv, PlaceInv, NEW t \in Table, CloseOne(t)
  PROVE  PlaceInv'
<1>1. /\ pc = "drop" /\ pc' = "drop" /\ UNCHANGED <<state, files>> /\ writer[t] = "open"
      /\ \A u \in Table : writer'[u] = IF u = t THEN "closed" ELSE writer[u]
  BY DEF CloseOne, TypeInv, TablesType
<1>2. state[t] # Absent
  BY <1>1 DEF PlaceInv
<1> QED
  BY <1>1, <1>2, PlaceKept

LEMMA ForgetPlace ==
  ASSUME TypeInv, PlaceInv, Forget
  PROVE  PlaceInv'
<1>1. /\ pc = "drop" /\ pc' = "deal" /\ files' = files
      /\ \A t \in Table :
           \/ writer'[t] = "none" /\ state'[t] = Absent
           \/ writer'[t] = writer[t] /\ state'[t] = state[t]
  BY DEF Forget, Absent
<1> QED
  BY <1>1 DEF PlaceInv, Opening

(* A row that is written goes to the end of its table's newest file.       *)
LEMMA PutFacts ==
  ASSUME TypeInv, PlaceInv, NEW t \in Table, NEW row \in Nat, Put(t, row)
  PROVE  /\ files' \in [Table -> Seq(Seq(Nat))]
         /\ \A u \in Table : Len(files'[u]) = Len(files[u]) /\ (u # t => files'[u] = files[u])
         /\ files[t] \in Seq(Seq(Nat)) /\ files[t] # <<>>
         /\ files'[t] = Append(Front(files[t]), Append(Last(files[t]), row))
         /\ FlattenSeq(files'[t]) = Append(FlattenSeq(files[t]), row)
<1> DEFINE s == files[t]
           n == state[t] + 1
           u == Grown(s, row)
<1>1. s \in Seq(Seq(Nat)) /\ Len(s) = n /\ s # <<>>
  <2>1. s \in Seq(Seq(Nat)) /\ state[t] \in Int /\ state[t] >= -1
    BY DEF TypeInv, TablesType, Absent
  <2>2. state[t] # Absent /\ Len(s) = n
    BY DEF Put, PlaceInv
  <2>3. n # 0
    BY <2>1, <2>2 DEF Absent
  <2> QED
    BY <2>1, <2>2, <2>3, EmptySeq
<1>2. files' = [files EXCEPT ![t] = u]
  BY <1>1 DEF Put, Grown
<1> HIDE DEF s, n
<1>3. /\ u \in Seq(Seq(Nat)) /\ Len(u) = Len(s)
      /\ u = Append(Front(s), Append(Last(s), row))
      /\ FlattenSeq(u) = Append(FlattenSeq(s), row)
  BY <1>1, FlattenGrows
<1> HIDE DEF u
<1>4. s = files[t] /\ files \in [Table -> Seq(Seq(Nat))]
  BY DEF s, TypeInv, TablesType
<1>5. files' \in [Table -> Seq(Seq(Nat))] /\ files'[t] = u
      /\ \A v \in Table : v # t => files'[v] = files[v]
  BY <1>2, <1>3, <1>4
<1> QED
  BY <1>1, <1>3, <1>4, <1>5

LEMMA WriteNextFiles ==
  ASSUME TypeInv, NEW b \in DOMAIN backs, WriteNext(b)
  PROVE  \E row \in Nat : /\ Taken(b, row)
                          /\ UNCHANGED files \/ (log[row].table \in Table /\ Put(log[row].table, row))
<1>1. PICK row \in Nat : Taken(b, row) /\ (UNCHANGED files \/ Put(log[row].table, row))
  BY WriteNextTakes DEF Written
<1>2. CASE Put(log[row].table, row) /\ log[row].table \notin Table
  <2>1. files \in [Table -> Seq(Seq(Nat))]
    BY DEF TypeInv, TablesType
  <2>2. files' = files
    BY <1>2, <2>1 DEF Put
  <2> QED
    BY <1>1, <2>2
<1> QED
  BY <1>1, <1>2

LEMMA BackWriteType ==
  ASSUME TypeInv, PlaceInv, BackWrite
  PROVE  TypeInv' /\ PlaceInv'
<1>1. PICK b \in DOMAIN backs : WriteNext(b) \/ NextBatch(b)
  BY DEF BackWrite
<1>2. UNCHANGED <<pc, after, log, executors, limit, procResult, live, state, writer, known, faults>>
  BY <1>1 DEF WriteNext, NextBatch, tables
<1>3. /\ backs' \in Seq(Seq(Seq(Nat))) /\ Len(backs') = Len(backs)
      /\ files' \in [Table -> Seq(Seq(Nat))]
      /\ \A t \in Table : Len(files'[t]) = Len(files[t])
  <2>1. CASE NextBatch(b)
    BY <2>1, NextBatchTakesNothing DEF NextBatch, tables, TypeInv, TablesType
  <2>2. CASE WriteNext(b)
    <3>1. PICK row \in Nat : /\ Taken(b, row)
                             /\ UNCHANGED files \/ (log[row].table \in Table /\ Put(log[row].table, row))
      BY <2>2, WriteNextFiles
    <3>2. backs' \in Seq(Seq(Seq(Nat))) /\ Len(backs') = Len(backs)
      BY <3>1 DEF Taken
    <3>3. CASE UNCHANGED files
      BY <3>2, <3>3 DEF TypeInv, TablesType
    <3>4. CASE log[row].table \in Table /\ Put(log[row].table, row)
      BY <3>2, <3>4, PutFacts
    <3> QED
      BY <3>1, <3>3, <3>4
  <2> QED
    BY <1>1, <2>1, <2>2
<1>4. backs' # <<>>
  <2>1. backs \in Seq(Seq(Seq(Nat))) /\ backs # <<>>
    BY DEF TypeInv, QueuesType
  <2>2. Len(backs') # 0
    BY <1>3, <2>1, EmptySeq
  <2> QED
    BY <2>2, EmptySeq
<1>5. QueuesType' /\ TablesType' /\ MainType'
  BY <1>2, <1>3, <1>4 DEF TypeInv, QueuesType, TablesType, MainType
<1> QED
  BY <1>2, <1>3, <1>5, OtherThread DEF TypeInv

-----------------------------------------------------------------------------
(* Type and place are kept.                                                *)

Sound == TypeInv /\ PlaceInv

LEMMA InitSound == Init => Sound
BY InitType, InitPlace DEF Sound

LEMMA MainSound ==
  ASSUME EventDealerAssumption, Sound, Main
  PROVE  Sound'
<1> USE DEF Sound
<1>1. ASSUME NEW t \in Table, DealRows(t) PROVE Sound'
  BY <1>1, DealRowsType, SameWriters DEF DealRows, tables
<1>2. ASSUME NEW k, NEW t, NEW to, NEW quiet, Reads(k, t, to, quiet) PROVE Sound'
  <2>1. UNCHANGED <<state, files, writer>> /\ pc # "open" /\ pc' # "open"
    BY <1>2 DEF Reads, DealQuery, tables
  <2> QED
    BY <1>2, <2>1, DealQueryType, SameWriters DEF Reads
<1>3. CASE WriteBack
  <2>1. UNCHANGED <<state, files, writer>> /\ pc # "open" /\ pc' # "open"
    BY <1>3 DEF WriteBack, tables
  <2> QED
    BY <1>3, <2>1, WriteBackType, SameWriters
<1>4. CASE AwaitTasks \/ AwaitBatches
  <2>1. UNCHANGED <<state, files, writer>> /\ pc # "open" /\ pc' # "open"
    BY <1>4 DEF AwaitTasks, AwaitBatches, tables, TypeInv, MainType
  <2> QED
    BY <1>4, <2>1, AwaitType, SameWriters
<1>5. CASE CloseWriter
  BY <1>5, CloseWriterType, CloseWriterPlace
<1>6. CASE OpenWriter
  BY <1>6, OpenWriterType, OpenWriterPlace DEF PlaceInv, Opening
<1>7. CASE (\E t \in Table : CloseOne(t)) \/ Forget
  BY <1>7, CloseOneType, CloseOnePlace, ForgetType, ForgetPlace
<1>8. CASE CloseAll
  <2>1. UNCHANGED <<state, files>> /\ pc = "close" /\ pc' \in {"done", "aborted"}
    BY <1>8 DEF CloseAll
  <2>2. \A t \in Table : /\ writer'[t] = "open" => writer[t] = "open"
                         /\ state[t] = Absent => writer'[t] = writer[t]
    BY <1>8 DEF CloseAll, PlaceInv
  <2> QED
    BY <1>8, <2>1, <2>2, CloseAllType, PlaceKept
<1>9. CASE DealEnd \/ Resized \/ NotHandled \/ DropDatabase \/ Unread
  <2>1. UNCHANGED <<state, files, writer>> /\ pc # "open" /\ pc' # "open"
    BY <1>9 DEF DealEnd, Resized, WriteDDLCompat, NotHandled, DropDatabase, Unread, InQuery, tables
  <2> QED
    BY <1>9, <2>1, OtherMainType, SameWriters
<1>10. CASE Deal
  BY <1>1, <1>2, <1>9, <1>10, DealIs
<1> QED
  BY <1>3, <1>4, <1>5, <1>6, <1>7, <1>8, <1>9, <1>10 DEF Main

LEMMA SoundKept ==
  ASSUME EventDealerAssumption, Sound, [Next]_vars
  PROVE  Sound'
<1>1. CASE Main
  BY <1>1, MainSound
<1>2. CASE FinishTask
  BY <1>2, FinishTaskType, OtherThread DEF Sound, FinishTask, tables
<1>3. CASE BackWrite
  BY <1>3, BackWriteType DEF Sound
<1>4. CASE UNCHANGED vars
  BY <1>4 DEF Sound, TypeInv, MainType, QueuesType, TablesType, PlaceInv, Opening, vars, queues, tables
<1> QED
  BY <1>1, <1>2, <1>3, <1>4 DEF Next

(* Every variable keeps its type, and a row that is written goes to the    *)
(* newest file of its table.                                               *)
THEOREM TypeAndPlace == Spec => []Sound
<1>1. Init => Sound
  BY InitSound
<1>2. Sound /\ [Next]_vars => Sound'
  BY EventDealerAssumption, SoundKept
<1> QED
  BY <1>1, <1>2, PTL DEF Spec

-----------------------------------------------------------------------------
(* No executor is left behind: a barrier shuts both down before main goes  *)
(* on with its statement or closes everything.                             *)

LiveInv ==
  /\ pc \in {"tasks", "batches"} => after \in {"query", "close"}
  /\ pc = "flush" /\ after = "query" => Barrier(Last(log))
  /\ pc = "batches" => live \subseteq {"back"}
  /\ pc \in {"query", "open", "resize", "drop"} => live = {} \/ Last(log).quiet
  /\ pc = "close" => live = {}
  /\ NothingLingers

LEMMA InitLive == Init => LiveInv
BY DEF Init, LiveInv, NothingLingers

LEMMA LiveKept ==
  ASSUME EventDealerAssumption, Sound, LiveInv, [Next]_vars
  PROVE  LiveInv'
<1> USE DEF LiveInv, NothingLingers
<1>0. MainType /\ live \subseteq {"executor", "back"}
  BY DEF Sound, TypeInv, QueuesType
<1>1. ASSUME NEW t \in Table, DealRows(t) PROVE LiveInv'
  BY <1>1 DEF DealRows
<1>2. ASSUME NEW k, NEW t, NEW to, NEW quiet, Reads(k, t, to, quiet) PROVE LiveInv'
  <2> DEFINE x == [kind |-> k, table |-> t, to |-> to, quiet |-> quiet]
  <2>1. log' = Append(log, x) /\ log \in Seq(Event)
    BY <1>0, <1>2 DEF Reads, DealQuery, MainType
  <2>2. Last(Append(log, x)) = x
    BY <2>1 DEF Last
  <2>3. Last(log').quiet = quiet
    BY <2>1, <2>2
  <2> QED
    BY <1>2, <2>3 DEF Reads, DealQuery, Barrier
<1>3. CASE DealEnd \/ WriteBack
  BY <1>0, <1>3 DEF DealEnd, WriteBack, MainType
<1>4. CASE AwaitTasks
  BY <1>0, <1>4 DEF AwaitTasks, ShutDown
<1>5. CASE AwaitBatches
  BY <1>0, <1>5 DEF AwaitBatches, ShutDown
<1>6. CASE CloseWriter \/ NotHandled \/ DropDatabase \/ (\E t \in Table : CloseOne(t)) \/ Forget
  <2>1. /\ pc \in {"query", "drop"} /\ pc' \in {"open", "deal", "drop"}
        /\ UNCHANGED <<after, log, live>>
    BY <1>6 DEF CloseWriter, NotHandled, DropDatabase, CloseOne, Forget, InQuery, queues
  <2> QED
    BY <2>1
<1>7. CASE OpenWriter \/ Resized \/ Unread
  <2>1. /\ UNCHANGED <<after, log, live>> /\ pc \in {"query", "open", "resize"}
        /\ \/ pc' \in {"deal", "resize"}
           \/ pc' = "aborted" /\ Last(log).kind \in {"unread", "fails"}
    BY <1>7 DEF OpenWriter, Resized, WriteDDLCompat, Unread, InQuery, queues
  <2> QED
    BY <2>1
<1>8. CASE CloseAll
  <2>1. pc' \in {"done", "aborted"} /\ live' = {}
    BY <1>8 DEF CloseAll, queues
  <2> QED
    BY <2>1
<1>9. CASE FinishTask \/ BackWrite
  <2>1. UNCHANGED <<pc, after, log, live>>
    BY <1>9 DEF FinishTask, BackWrite, WriteNext, NextBatch
  <2> QED
    BY <2>1
<1>10. CASE UNCHANGED vars
  BY <1>10 DEF vars, queues
<1>11. CASE Deal
  BY <1>1, <1>2, <1>3, <1>11, DealIs
<1> QED
  BY <1>3, <1>4, <1>5, <1>6, <1>7, <1>8, <1>9, <1>10, <1>11 DEF Next, Main

(* When the split has ended, in whichever way, no thread of an executor is *)
(* left to keep the JVM from ending, whatever the hours and exceptions,    *)
(* unless its last statement was no barrier and Druid or DDLCompatWriter   *)
(* threw an exception for it.                                              *)
THEOREM NoExecutorLeftBehind == Spec => []NothingLingers
<1>1. Init => LiveInv
  BY InitLive
<1>2. Sound /\ LiveInv /\ [Next]_vars => LiveInv'
  BY EventDealerAssumption, LiveKept
<1>3. LiveInv => NothingLingers
  BY DEF LiveInv
<1> QED
  BY <1>1, <1>2, <1>3, TypeAndPlace, PTL DEF Spec

-----------------------------------------------------------------------------
(* Rows in the order of the log.                                           *)

Rising(q) == \A i, j \in 1..Len(q) : i < j => q[i] < q[j]

Below(A, B) == \A a \in A : \A b \in B : a < b

(* Once each, and in the order of the log but for some.                    *)
InOrder(q, but) ==
  \A i, j \in 1..Len(q) : i < j =>
    /\ q[i] # q[j]
    /\ {q[i], q[j]} \cap but = {} => q[i] < q[j]

LEMMA RangeIs ==
  ASSUME NEW S, NEW q \in Seq(S)
  PROVE  /\ Range(q) = {q[i] : i \in 1..Len(q)} /\ Range(q) \subseteq S
         /\ \A i \in 1..Len(q) : q[i] \in Range(q)
<1>1. DOMAIN q = 1..Len(q) /\ \A i \in 1..Len(q) : q[i] \in S
  BY LenProperties, ElementOfSeq
<1>2. Range(q) = {q[i] : i \in 1..Len(q)}
  BY <1>1 DEF Range
<1>3. \A i \in 1..Len(q) : q[i] \in Range(q)
  BY <1>2
<1>4. Range(q) \subseteq S
  BY <1>1, <1>2
<1> QED
  BY <1>2, <1>3, <1>4

LEMMA ConcatRising ==
  ASSUME NEW p \in Seq(Nat), NEW q \in Seq(Nat)
  PROVE  /\ Range(p \o q) = Range(p) \cup Range(q)
         /\ Rising(p \o q) <=> Rising(p) /\ Rising(q) /\ Below(Range(p), Range(q))
<1> DEFINE r == p \o q
           m == Len(p)
           n == Len(q)
<1>1. /\ m \in Nat /\ n \in Nat /\ r \in Seq(Nat) /\ Len(r) = m + n
      /\ \A i \in 1..(m + n) : r[i] = IF i <= m THEN p[i] ELSE q[i - m]
  BY ConcatProperties
<1>2. Range(r) = Range(p) \cup Range(q)
  BY RangeConcatenation
<1>3. Range(p) = {p[i] : i \in 1..m} /\ Range(q) = {q[i] : i \in 1..n}
  BY RangeIs
<1> HIDE DEF r
<1>4. /\ \A i \in 1..m : i \in 1..(m + n) /\ r[i] = p[i]
      /\ \A i \in 1..n : i + m \in 1..(m + n) /\ r[i + m] = q[i]
  <2>1. \A i \in 1..m : i \in 1..(m + n) /\ r[i] = p[i]
    BY <1>1
  <2>2. ASSUME NEW i \in 1..n PROVE i + m \in 1..(m + n) /\ r[i + m] = q[i]
    <3>1. i + m \in 1..(m + n) /\ ~(i + m <= m) /\ (i + m) - m = i
      BY <1>1
    <3> QED
      BY <1>1, <3>1
  <2> QED
    BY <2>1, <2>2
<1>5. ASSUME Rising(r) PROVE Rising(p) /\ Rising(q) /\ Below(Range(p), Range(q))
  <2>1. Rising(p)
    BY <1>1, <1>4, <1>5 DEF Rising
  <2>2. Rising(q)
    <3> SUFFICES ASSUME NEW i \in 1..n, NEW j \in 1..n, i < j
                 PROVE  q[i] < q[j]
      BY DEF Rising
    <3>1. i + m < j + m
      BY <1>1
    <3>2. r[i + m] < r[j + m]
      BY <1>1, <1>4, <1>5, <3>1 DEF Rising
    <3> QED
      BY <1>4, <3>2
  <2>3. ASSUME NEW i \in 1..m, NEW j \in 1..n
        PROVE  p[i] < q[j]
    <3>1. i < j + m
      BY <1>1
    <3>2. r[i] < r[j + m]
      BY <1>1, <1>4, <1>5, <3>1 DEF Rising
    <3> QED
      BY <1>4, <3>2
  <2>4. Below(Range(p), Range(q))
    BY <1>3, <2>3 DEF Below
  <2> QED
    BY <2>1, <2>2, <2>4
<1>6. ASSUME Rising(p), Rising(q), Below(Range(p), Range(q)) PROVE Rising(r)
  <2> SUFFICES ASSUME NEW i \in 1..(m + n), NEW j \in 1..(m + n), i < j
               PROVE  r[i] < r[j]
    BY <1>1 DEF Rising
  <2>1. CASE j <= m
    <3>1. i \in 1..m /\ j \in 1..m
      BY <1>1, <2>1
    <3>2. p[i] < p[j] /\ r[i] = p[i] /\ r[j] = p[j]
      BY <1>4, <1>6, <3>1 DEF Rising
    <3> QED
      BY <3>2
  <2>2. CASE i > m
    <3>1. i - m \in 1..n /\ j - m \in 1..n /\ i - m < j - m /\ ~(i <= m) /\ ~(j <= m)
      BY <1>1, <2>2, SMTT(30)
    <3>2. q[i - m] < q[j - m]
      BY <1>6, <3>1 DEF Rising
    <3> QED
      BY <1>1, <3>1, <3>2
  <2>3. CASE i <= m /\ j > m
    <3>1. i \in 1..m /\ j - m \in 1..n /\ ~(j <= m)
      BY <1>1, <2>3
    <3>2. p[i] < q[j - m]
      BY <1>3, <1>6, <3>1 DEF Below
    <3> QED
      BY <1>1, <2>3, <3>1, <3>2
  <2> QED
    BY <1>1, <2>1, <2>2, <2>3
<1> QED
  BY <1>2, <1>5, <1>6 DEF r

LEMMA SingletonRising ==
  ASSUME NEW x \in Nat
  PROVE  <<x>> \in Seq(Nat) /\ Rising(<<x>>) /\ Range(<<x>>) = {x}
BY DEF Rising, Range

LEMMA AppendRising ==
  ASSUME NEW q \in Seq(Nat), NEW x \in Nat
  PROVE  /\ Range(Append(q, x)) = Range(q) \cup {x}
         /\ Rising(Append(q, x)) <=> Rising(q) /\ Below(Range(q), {x})
<1> DEFINE y == <<x>>
<1>1. y \in Seq(Nat) /\ Rising(y) /\ Range(y) = {x}
  BY SingletonRising
<1>2. Append(q, x) = q \o y
  BY AppendIsConcat
<1> HIDE DEF y
<1>3. /\ Range(q \o y) = Range(q) \cup Range(y)
      /\ Rising(q \o y) <=> Rising(q) /\ Rising(y) /\ Below(Range(q), Range(y))
  BY <1>1, ConcatRising
<1> QED
  BY <1>1, <1>2, <1>3

LEMMA InOrderAppend ==
  ASSUME NEW q \in Seq(Nat), NEW x \in Nat, NEW but, InOrder(q, but),
         x \notin Range(q), x \notin but => Below(Range(q) \ but, {x})
  PROVE  InOrder(Append(q, x), but)
<1> DEFINE r == Append(q, x)
           n == Len(q)
<1>1. /\ n \in Nat /\ r \in Seq(Nat) /\ Len(r) = n + 1 /\ r[n + 1] = x
      /\ \A i \in 1..n : r[i] = q[i]
  BY AppendProperties
<1>2. \A i \in 1..n : q[i] \in Range(q)
  BY RangeIs
<1> HIDE DEF r
<1> SUFFICES ASSUME NEW i \in 1..(n + 1), NEW j \in 1..(n + 1), i < j
             PROVE  r[i] # r[j] /\ ({r[i], r[j]} \cap but = {} => r[i] < r[j])
  BY <1>1 DEF InOrder, r
<1>3. CASE j <= n
  <2>1. i \in 1..n /\ j \in 1..n
    BY <1>1, <1>3
  <2>2. q[i] # q[j] /\ ({q[i], q[j]} \cap but = {} => q[i] < q[j])
    BY <2>1 DEF InOrder
  <2> QED
    BY <1>1, <2>1, <2>2
<1>4. CASE j = n + 1
  <2>1. i \in 1..n
    BY <1>1, <1>4
  <2>2. r[i] = q[i] /\ r[j] = x /\ q[i] \in Range(q)
    BY <1>1, <1>2, <1>4, <2>1
  <2> QED
    BY <2>2 DEF Below
<1>5. j <= n \/ j = n + 1
  BY <1>1
<1> QED
  BY <1>3, <1>4, <1>5

LEMMA InOrderPrefix ==
  ASSUME NEW p \in Seq(Nat), NEW q \in Seq(Nat), NEW but, InOrder(p \o q, but)
  PROVE  InOrder(p, but)
<1>1. /\ Len(p) \in Nat /\ Len(q) \in Nat /\ Len(p \o q) = Len(p) + Len(q)
      /\ \A i \in 1..(Len(p) + Len(q)) : (p \o q)[i] = IF i <= Len(p) THEN p[i] ELSE q[i - Len(p)]
  BY ConcatProperties
<1>2. ASSUME NEW i \in 1..Len(p)
      PROVE  i \in 1..Len(p \o q) /\ (p \o q)[i] = p[i]
  BY <1>1
<1> QED
  BY <1>2 DEF InOrder

LEMMA InOrderMore ==
  ASSUME NEW q, NEW but, NEW more, but \subseteq more, InOrder(q, but)
  PROVE  InOrder(q, more)
BY DEF InOrder

-----------------------------------------------------------------------------
(* The inductive invariant.  The rows in flight are in the order of the    *)
(* log, back-writer by back-writer and then in procResult; those of a      *)
(* back-writer that was left behind are among the overrun.  What is        *)
(* written is not in flight any more, and every row in flight is later     *)
(* than the rows written, the overrun apart.                               *)

Lines(t) == FlattenSeq(files[t])

QueuesInv ==
  /\ \A b \in 1..Len(backs) : Rising(Queue(b))
  /\ \A b, c \in 1..Len(backs) : b < c => Below(Range(Queue(b)), Range(Queue(c)))
  /\ Rising(procResult)
  /\ \A b \in 1..Len(backs) : Below(Range(Queue(b)), Range(procResult))
  /\ \A b \in 1..Len(backs) : b # Len(backs) => Range(Queue(b)) \subseteq overrun

LinesInv ==
  \A t \in Table :
    /\ InOrder(Lines(t), overrun)
    /\ Range(Lines(t)) \cap Waiting = {}
    /\ Below(Range(Lines(t)) \ overrun, Waiting \ overrun)

OrderInv == Numbered /\ QueuesInv /\ LinesInv

LEMMA InitOrder == Init => OrderInv
<1> SUFFICES ASSUME Init PROVE OrderInv
  OBVIOUS
<1>1. backs = << <<>> >> /\ procResult = <<>> /\ \A t \in Table : files[t] = <<>>
  BY DEF Init
<1>2. Len(backs) = 1 /\ backs[1] = <<>>
  BY <1>1
<1>3. \A b \in 1..Len(backs) : Queue(b) = <<>>
  BY <1>2, FlattenEmpty DEF Queue
<1>4. \A t \in Table : Lines(t) = <<>>
  BY <1>1, FlattenEmpty DEF Lines
<1>5. Range(<<>>) = {} /\ Rising(<<>>) /\ \A but : InOrder(<<>>, but)
  BY DEF Range, Rising, InOrder
<1>6. Waiting = {}
  BY <1>1, <1>3, <1>5 DEF Waiting
<1>7. Numbered
  BY <1>4, <1>5, <1>6 DEF Numbered, Lines
<1>8. QueuesInv
  BY <1>1, <1>2, <1>3, <1>5 DEF QueuesInv, Below
<1>9. LinesInv
  BY <1>4, <1>5, <1>6 DEF LinesInv, Below
<1> QED
  BY <1>7, <1>8, <1>9 DEF OrderInv

LEMMA LinesType ==
  ASSUME TablesType, NEW t \in Table
  PROVE  files[t] \in Seq(Seq(Nat)) /\ Lines(t) \in Seq(Nat) /\ Range(Lines(t)) \subseteq Nat
<1>1. files[t] \in Seq(Seq(Nat))
  BY DEF TablesType
<1>2. Lines(t) \in Seq(Nat)
  BY <1>1, FlattenType DEF Lines
<1> QED
  BY <1>1, <1>2, RangeIs

(* A row in flight is in one of the queues or in procResult.               *)
LEMMA WaitingIs ==
  /\ \A b \in 1..Len(backs) : Range(Queue(b)) \subseteq Waiting
  /\ Range(procResult) \subseteq Waiting
  /\ \A x \in Waiting : x \in Range(procResult) \/ \E b \in 1..Len(backs) : x \in Range(Queue(b))
<1> DEFINE Q(b) == Range(Queue(b))
<1>1. Waiting = Range(procResult) \cup UNION {Q(b) : b \in 1..Len(backs)}
  BY DEF Waiting
<1> HIDE DEF Q
<1>2. \A x : x \in Waiting <=> x \in Range(procResult) \/ \E b \in 1..Len(backs) : x \in Q(b)
  BY <1>1
<1> QED
  BY <1>2 DEF Q

LEMMA WaitingIsPrimed ==
  /\ \A b \in 1..Len(backs') : Range(Queue(b)') \subseteq Waiting'
  /\ Range(procResult') \subseteq Waiting'
  /\ \A x \in Waiting' : x \in Range(procResult') \/ \E b \in 1..Len(backs') : x \in Range(Queue(b)')
<1> DEFINE Q(b) == Range(Queue(b)')
<1>1. Waiting' = Range(procResult') \cup UNION {Q(b) : b \in 1..Len(backs')}
  BY DEF Waiting
<1> HIDE DEF Q
<1>2. \A x : x \in Waiting' <=> x \in Range(procResult') \/ \E b \in 1..Len(backs') : x \in Q(b)
  BY <1>1
<1> QED
  BY <1>2 DEF Q

(* Whatever leaves the queues alone...                                     *)
LEMMA OrderSame ==
  ASSUME Sound, OrderInv, UNCHANGED <<backs, procResult, files, overrun>>,
         Len(log) \in Nat, Len(log') \in Nat, Len(log') >= Len(log)
  PROVE  OrderInv'
<1>1. /\ Waiting' = Waiting /\ \A t \in Table : Lines(t)' = Lines(t)
      /\ \A b : Queue(b)' = Queue(b)
  BY DEF Waiting, Lines, Queue
<1>2. 1..Len(log) \subseteq 1..Len(log')
  OBVIOUS
<1>3. Numbered'
  BY <1>1, <1>2 DEF OrderInv, Numbered
<1>4. QueuesInv'
  BY <1>1 DEF OrderInv, QueuesInv
<1>5. LinesInv'
  BY <1>1 DEF OrderInv, LinesInv
<1> QED
  BY <1>3, <1>4, <1>5 DEF OrderInv

LEMMA DealRowsOrder ==
  ASSUME Sound, OrderInv, NEW t \in Table, DealRows(t)
  PROVE  OrderInv'
<1> DEFINE n == Len(log) + 1
<1>1. /\ procResult \in Seq(Nat) /\ Len(log) \in Nat /\ n \in Nat
      /\ procResult' = Append(procResult, n) /\ Len(log') = n
      /\ UNCHANGED <<backs, files, overrun>>
  <2>1. log \in Seq(Event) /\ procResult \in Seq(Nat)
    BY DEF Sound, TypeInv, MainType, QueuesType
  <2>2. Len(log) \in Nat /\ Len(log') = n
    BY <2>1 DEF DealRows
  <2> QED
    BY <2>1, <2>2 DEF DealRows, tables, faults
<1>2. /\ \A b : Queue(b)' = Queue(b)
      /\ \A u \in Table : Lines(u)' = Lines(u)
  BY <1>1 DEF Queue, Lines
<1>3. \A x \in Waiting : x \in 1..Len(log)
  BY DEF OrderInv, Numbered
<1> HIDE DEF n
<1>4. Range(procResult') = Range(procResult) \cup {n}
  BY <1>1, AppendRising
<1>5. Waiting' = Waiting \cup {n}
  <2>1. \A x \in Waiting' : x \in Waiting \cup {n}
    BY <1>1, <1>2, <1>4, WaitingIs, WaitingIsPrimed
  <2>2. \A x \in Waiting \cup {n} : x \in Waiting'
    BY <1>1, <1>2, <1>4, WaitingIs, WaitingIsPrimed
  <2> QED
    BY <2>1, <2>2
<1>6. \A x \in 1..Len(log) : x < n
  BY <1>1 DEF n
<1>7. Numbered'
  <2>1. 1..Len(log) \subseteq 1..n /\ n \in 1..n
    BY <1>1 DEF n
  <2> QED
    BY <1>1, <1>2, <1>5, <2>1 DEF OrderInv, Numbered, Lines
<1>8. QueuesInv'
  <2>1. Below(Waiting, {n})
    BY <1>3, <1>6 DEF Below
  <2>2. Below(Range(procResult), {n})
    BY <2>1, WaitingIs DEF Below
  <2>3. Rising(procResult')
    BY <1>1, <2>2, AppendRising DEF OrderInv, QueuesInv
  <2>4. ASSUME NEW b \in 1..Len(backs)
        PROVE  Below(Range(Queue(b)), Range(procResult'))
    <3>1. Below(Range(Queue(b)), Range(procResult))
      BY DEF OrderInv, QueuesInv
    <3>2. Range(Queue(b)) \subseteq Waiting
      BY WaitingIs
    <3> QED
      BY <1>4, <2>1, <3>1, <3>2 DEF Below
  <2> QED
    BY <1>1, <1>2, <2>3, <2>4 DEF OrderInv, QueuesInv
<1>9. LinesInv'
  <2>1. ASSUME NEW u \in Table
        PROVE  /\ Range(Lines(u)) \cap Waiting' = {}
               /\ Below(Range(Lines(u)) \ overrun, Waiting' \ overrun)
    <3>1. \A x \in Range(Lines(u)) : x \in 1..Len(log)
      BY DEF OrderInv, Numbered, Lines
    <3>2. \A x \in Range(Lines(u)) : x < n /\ x # n
      BY <1>1, <1>6, <3>1
    <3>3. Range(Lines(u)) \cap Waiting = {} /\ Below(Range(Lines(u)) \ overrun, Waiting \ overrun)
      BY DEF OrderInv, LinesInv
    <3> QED
      BY <1>5, <3>2, <3>3 DEF Below
  <2> QED
    BY <1>1, <1>2, <2>1 DEF OrderInv, LinesInv
<1> QED
  BY <1>7, <1>8, <1>9 DEF OrderInv

LEMMA WriteBackOrder ==
  ASSUME Sound, OrderInv, WriteBack
  PROVE  OrderInv'
<1>1. /\ backs \in Seq(Seq(Seq(Nat))) /\ backs # <<>> /\ procResult \in Seq(Nat)
      /\ backs' = Submitted(backs, procResult) /\ procResult' = <<>>
      /\ UNCHANGED <<log, files, overrun>>
  BY DEF WriteBack, Sound, TypeInv, QueuesType, tables, faults
<1>1a. Len(backs) \in Nat
  BY <1>1
<1>1b. PICK n \in Nat : n = Len(backs)
  BY <1>1a
<1>2. /\ Len(backs') = n /\ n \in 1..n
      /\ \A b \in 1..n : backs'[b] = IF b = n THEN Append(backs[b], procResult) ELSE backs[b]
  BY <1>1, <1>1b, SubmittedFacts, LastOf
<1>3. \A b \in 1..n : backs[b] \in Seq(Seq(Nat)) /\ Queue(b) \in Seq(Nat)
  BY <1>1b, QueueType DEF Sound, TypeInv
<1>4. \A b \in 1..n : b # n => Queue(b)' = Queue(b)
  BY <1>2 DEF Queue
<1>5. Queue(n)' = Queue(n) \o procResult
  <2> DEFINE s == backs[n]
  <2>1. s \in Seq(Seq(Nat)) /\ FlattenSeq(s) = Queue(n) /\ backs'[n] = Append(s, procResult)
    BY <1>2, <1>3 DEF Queue
  <2> HIDE DEF s
  <2>3. FlattenSeq(Append(s, procResult)) = FlattenSeq(s) \o procResult
    BY <1>1, <2>1, FlattenAppend
  <2>4. FlattenSeq(backs'[n]) = Queue(n) \o procResult
    BY <2>1, <2>3
  <2> QED
    BY <2>4 DEF Queue
<1>6. n = Len(backs) /\ n \in Nat /\ 1..Len(backs') = 1..n
  BY <1>1b, <1>2
<1>7. /\ Range(Queue(n)') = Range(Queue(n)) \cup Range(procResult) /\ Rising(Queue(n)')
      /\ Range(procResult') = {} /\ Rising(procResult')
  <2>1. Rising(Queue(n)) /\ Rising(procResult) /\ Below(Range(Queue(n)), Range(procResult))
    BY <1>2, <1>6 DEF OrderInv, QueuesInv
  <2>2. Queue(n) \in Seq(Nat)
    BY <1>2, <1>3
  <2>3. Range(<<>>) = {} /\ Rising(<<>>)
    BY DEF Range, Rising
  <2> QED
    BY <1>1, <1>5, <2>1, <2>2, <2>3, ConcatRising
<1>8. Waiting' = Waiting
  <2>0. \A b \in 1..n : Range(Queue(b)') = Range(Queue(b)) \/ b = n
    BY <1>4
  <2>1. ASSUME NEW x \in Waiting' PROVE x \in Waiting
    <3>1. PICK b \in 1..n : x \in Range(Queue(b)')
      BY <1>6, <1>7, WaitingIsPrimed
    <3>2. x \in Range(Queue(b)) \/ x \in Range(procResult)
      BY <1>7, <2>0, <3>1 DEF Queue
    <3> QED
      BY <1>6, <3>2, WaitingIs
  <2>2. ASSUME NEW x \in Waiting PROVE x \in Waiting'
    <3>1. CASE x \in Range(procResult)
      BY <1>2, <1>6, <1>7, <3>1, WaitingIsPrimed
    <3>2. CASE \E b \in 1..n : x \in Range(Queue(b))
      <4>1. PICK b \in 1..n : x \in Range(Queue(b))
        BY <3>2
      <4>2. x \in Range(Queue(b)')
        BY <1>7, <2>0, <4>1 DEF Queue
      <4> QED
        BY <1>6, <4>2, WaitingIsPrimed
    <3> QED
      BY <1>6, <3>1, <3>2, WaitingIs
  <2> QED
    BY <2>1, <2>2
<1>9. Numbered' /\ LinesInv'
  BY <1>1, <1>8 DEF OrderInv, Numbered, LinesInv, Lines
<1>10. QueuesInv'
  <2>1. ASSUME NEW b \in 1..n PROVE Rising(Queue(b)')
    <3>1. CASE b = n
      BY <1>7, <3>1 DEF Queue
    <3>2. CASE b # n
      <4>1. Queue(b)' = Queue(b) /\ Rising(Queue(b))
        BY <1>4, <1>6, <3>2 DEF OrderInv, QueuesInv
      <4> QED
        BY <4>1
    <3> QED
      BY <3>1, <3>2
  <2>2. ASSUME NEW b \in 1..n, NEW c \in 1..n, b < c
        PROVE  Below(Range(Queue(b)'), Range(Queue(c)'))
    <3>1. b # n /\ Queue(b)' = Queue(b)
      BY <1>4, <1>6, <2>2
    <3>2. Below(Range(Queue(b)), Range(Queue(c))) /\ Below(Range(Queue(b)), Range(procResult))
      BY <1>6, <2>2 DEF OrderInv, QueuesInv
    <3>3. Range(Queue(c)') \subseteq Range(Queue(c)) \cup Range(procResult)
      <4>1. CASE c = n
        BY <1>7, <4>1 DEF Queue
      <4>2. CASE c # n
        <5>1. Queue(c)' = Queue(c)
          BY <1>4, <4>2
        <5> QED
          BY <5>1
      <4> QED
        BY <4>1, <4>2
    <3> QED
      BY <3>1, <3>2, <3>3 DEF Below
  <2>3. \A b \in 1..n : Below(Range(Queue(b)'), Range(procResult'))
    BY <1>7 DEF Below
  <2>4. \A b \in 1..n : b # n => Range(Queue(b)') \subseteq overrun
    BY <1>4, <1>6 DEF OrderInv, QueuesInv
  <2>5. Len(backs') = n /\ overrun' = overrun
    BY <1>1, <1>2
  <2> QED
    BY <1>7, <2>1, <2>2, <2>3, <2>4, <2>5 DEF QueuesInv
<1> QED
  BY <1>9, <1>10 DEF OrderInv

LEMMA InFlightIs ==
  ASSUME QueuesType, NEW b \in 1..Len(backs)
  PROVE  Range(Queue(b)) \subseteq Range(InFlight(backs))
<1> DEFINE F == FlattenSeq(backs)
<1>1. backs \in Seq(Seq(Seq(Nat))) /\ procResult \in Seq(Nat) /\ backs[b] \in Seq(Seq(Nat))
  BY QueueType DEF QueuesType
<1>2. F \in Seq(Seq(Nat))
  BY <1>1, FlattenType
<1>3. ASSUME NEW x \in Range(Queue(b))
      PROVE  x \in Range(FlattenSeq(F))
  <2>1. PICK k \in 1..Len(backs[b]) : x \in Range(backs[b][k])
    BY <1>1, FlattenMember DEF Queue
  <2>2. backs[b][k] \in Range(backs[b])
    BY <1>1, RangeIs
  <2> DEFINE y == backs[b][k]
  <2>3. y \in Range(F)
    BY <1>1, <2>2, FlattenMember
  <2>4. x \in Range(y)
    BY <2>1
  <2> HIDE DEF F, y
  <2>4a. Range(F) = {F[i] : i \in 1..Len(F)}
    BY <1>2, RangeIs
  <2>5. PICK i \in 1..Len(F) : F[i] = y
    BY <2>3, <2>4a
  <2> QED
    BY <1>2, <2>4, <2>5, FlattenMember
<1> HIDE DEF F
<1>4. FlattenSeq(F) \in Seq(Nat)
  BY <1>2, FlattenType
<1>5. Range(FlattenSeq(F) \o procResult) = Range(FlattenSeq(F)) \cup Range(procResult)
  BY <1>1, <1>4, RangeConcatenation
<1> QED
  BY <1>3, <1>5 DEF InFlight, F

LEMMA AwaitBatchesOrder ==
  ASSUME Sound, OrderInv, AwaitBatches
  PROVE  OrderInv'
<1>1. /\ QueuesType /\ backs \in Seq(Seq(Seq(Nat))) /\ backs # <<>>
      /\ backs' = Replaced(backs) /\ overrun' = overrun \cup Range(InFlight(backs))
      /\ UNCHANGED <<log, procResult, files>>
  BY DEF AwaitBatches, Sound, TypeInv, QueuesType, tables
<1>2. Len(backs) \in Nat
  BY <1>1
<1>3. PICK n \in Nat : n = Len(backs)
  BY <1>2
<1>4. /\ \A b \in 1..n : Queue(b)' = Queue(b)
      /\ Len(backs') = n \/ (Len(backs') = n + 1 /\ Queue(n + 1)' = <<>>)
  <2>1. /\ \A b \in 1..n : backs'[b] = backs[b]
        /\ backs' = backs \/ (Len(backs') = n + 1 /\ backs'[n + 1] = <<>>)
    BY <1>1, <1>3, ReplacedFacts
  <2> QED
    BY <1>3, <2>1, FlattenEmpty DEF Queue
<1>5. Range(<<>>) = {} /\ Rising(<<>>)
  BY DEF Range, Rising
<1>6. ASSUME NEW b \in 1..Len(backs')
      PROVE  \/ b \in 1..n /\ Queue(b)' = Queue(b)
             \/ b = n + 1 /\ Len(backs') = n + 1 /\ Queue(b)' = <<>>
  <2>1. b \in 1..n \/ (b = n + 1 /\ Len(backs') = n + 1)
    BY <1>4
  <2> QED
    BY <1>4, <2>1 DEF Queue
<1>7. 1..n \subseteq 1..Len(backs')
  BY <1>4
<1>8. Waiting' = Waiting
  <2>1. ASSUME NEW x \in Waiting' PROVE x \in Waiting
    <3>1. CASE x \in Range(procResult)
      BY <3>1, WaitingIs
    <3>2. CASE x \notin Range(procResult)
      <4>1. PICK b \in 1..Len(backs') : x \in Range(Queue(b)')
        BY <1>1, <3>2, WaitingIsPrimed
      <4>2. b \in 1..n /\ x \in Range(Queue(b))
        BY <1>5, <1>6, <4>1
      <4> QED
        BY <1>3, <4>2, WaitingIs
    <3> QED
      BY <3>1, <3>2
  <2>2. ASSUME NEW x \in Waiting PROVE x \in Waiting'
    <3>1. CASE x \in Range(procResult)
      BY <1>1, <3>1, WaitingIsPrimed
    <3>2. CASE x \notin Range(procResult)
      <4>1. PICK b \in 1..n : x \in Range(Queue(b))
        BY <1>3, <3>2, WaitingIs
      <4>2. b \in 1..Len(backs') /\ x \in Range(Queue(b)')
        BY <1>4, <1>7, <4>1
      <4> QED
        BY <4>2, WaitingIsPrimed
    <3> QED
      BY <3>1, <3>2
  <2> QED
    BY <2>1, <2>2
<1>9. \A b \in 1..n : Range(Queue(b)) \subseteq overrun'
  BY <1>1, <1>3, InFlightIs
<1>10. Numbered'
  BY <1>1, <1>8 DEF OrderInv, Numbered
<1>11. QueuesInv'
  <2>1. ASSUME NEW b \in 1..Len(backs') 
        PROVE  Rising(Queue(b)') /\ Below(Range(Queue(b)'), Range(procResult'))
               /\ Range(Queue(b)') \subseteq overrun'
    <3>1. CASE b \in 1..n /\ Queue(b)' = Queue(b)
      BY <1>1, <1>3, <1>9, <3>1 DEF OrderInv, QueuesInv
    <3>2. CASE Queue(b)' = <<>>
      BY <1>5, <3>2 DEF Below
    <3> QED
      BY <1>6, <3>1, <3>2
  <2>2. ASSUME NEW b \in 1..Len(backs'), NEW c \in 1..Len(backs'), b < c
        PROVE  Below(Range(Queue(b)'), Range(Queue(c)'))
    <3>1. CASE Queue(b)' = <<>> \/ Queue(c)' = <<>>
      BY <1>5, <3>1 DEF Below
    <3>2. CASE b \in 1..n /\ Queue(b)' = Queue(b) /\ c \in 1..n /\ Queue(c)' = Queue(c)
      BY <1>3, <2>2, <3>2 DEF OrderInv, QueuesInv
    <3> QED
      BY <1>6, <3>1, <3>2
  <2> QED
    BY <1>1, <2>1, <2>2 DEF OrderInv, QueuesInv
<1>12. LinesInv'
  <2>1. ASSUME NEW t \in Table
        PROVE  /\ InOrder(Lines(t), overrun')
               /\ Below(Range(Lines(t)) \ overrun', Waiting \ overrun')
    <3>1. overrun \subseteq overrun' /\ InOrder(Lines(t), overrun)
          /\ Below(Range(Lines(t)) \ overrun, Waiting \ overrun)
      BY <1>1 DEF OrderInv, LinesInv
    <3> QED
      BY <3>1, InOrderMore DEF Below
  <2>2. \A t \in Table : Lines(t)' = Lines(t)
    BY <1>1 DEF Lines
  <2> QED
    BY <1>8, <2>1, <2>2 DEF OrderInv, LinesInv
<1> QED
  BY <1>10, <1>11, <1>12 DEF OrderInv

LEMMA OpenWriterOrder ==
  ASSUME Sound, OrderInv, OpenWriter
  PROVE  OrderInv'
<1>1. PICK t \in Table :
           /\ t = Last(log).table /\ state[t] \in 0..Len(files[t])
           /\ files[t] \in Seq(Seq(Nat))
           /\ SubSeq(files[t], 1, state[t]) \in Seq(Seq(Nat))
           /\ Len(SubSeq(files[t], 1, state[t])) = state[t]
           /\ writer' = [writer EXCEPT ![t] = "open"]
           /\ files' = [files EXCEPT ![t] = Append(SubSeq(files[t], 1, state[t]), <<>>)]
           /\ pc = "open" /\ pc' \in {"resize", "deal", "aborted"}
           /\ UNCHANGED <<after, log, queues, state, known, faults>>
  BY OpenWriterFacts DEF Sound
<1> DEFINE kept == SubSeq(files[t], 1, state[t])
<1>2. UNCHANGED <<log, backs, procResult, overrun>> /\ TablesType
  BY <1>1 DEF queues, faults, Sound, TypeInv
<1>3. FlattenSeq(Append(kept, <<>>)) = FlattenSeq(kept) /\ FlattenSeq(kept) \in Seq(Nat)
  <2>1. kept \in Seq(Seq(Nat)) /\ <<>> \in Seq(Nat)
    BY <1>1
  <2> HIDE DEF kept
  <2>2. FlattenSeq(Append(kept, <<>>)) = FlattenSeq(kept) \o <<>> /\ FlattenSeq(kept) \in Seq(Nat)
    BY <2>1, FlattenAppend, FlattenType
  <2> QED
    BY <2>2, ConcatEmptySeq
<1>4. PICK r \in Seq(Nat) : FlattenSeq(files[t]) = FlattenSeq(kept) \o r
  <2> DEFINE s == files[t]
             n == state[t]
  <2>1. s \in Seq(Seq(Nat)) /\ n \in 0..Len(s)
    BY <1>1
  <2> HIDE DEF s, n
  <2>2. \E r \in Seq(Nat) : FlattenSeq(s) = FlattenSeq(SubSeq(s, 1, n)) \o r
    BY <2>1, FlattenPrefix
  <2> QED
    BY <2>2 DEF s, n
<1>5. Lines(t)' = FlattenSeq(kept) /\ \A u \in Table : u # t => Lines(u)' = Lines(u)
  BY <1>1, <1>2, <1>3 DEF Lines, TablesType
<1> HIDE DEF kept
<1>6. Range(Lines(t)) = Range(FlattenSeq(kept)) \cup Range(r)
  BY <1>3, <1>4, RangeConcatenation DEF Lines
<1>7. Waiting' = Waiting
  BY <1>2 DEF Waiting, Queue
<1>8. Numbered'
  <2>1. ASSUME NEW u \in Table
        PROVE  Range(Lines(u)') \subseteq 1..Len(log)
    <3>1. Range(Lines(u)) \subseteq 1..Len(log)
      BY DEF OrderInv, Numbered, Lines
    <3> QED
      BY <1>5, <1>6, <3>1
  <2> QED
    BY <1>2, <1>7, <2>1 DEF OrderInv, Numbered, Lines
<1>9. QueuesInv'
  BY <1>2 DEF OrderInv, QueuesInv, Queue
<1>10. LinesInv'
  <2>1. ASSUME NEW u \in Table
        PROVE  /\ InOrder(Lines(u)', overrun)
               /\ Range(Lines(u)') \cap Waiting = {}
               /\ Below(Range(Lines(u)') \ overrun, Waiting \ overrun)
    <3>1. /\ InOrder(Lines(u), overrun)
          /\ Range(Lines(u)) \cap Waiting = {}
          /\ Below(Range(Lines(u)) \ overrun, Waiting \ overrun)
      BY DEF OrderInv, LinesInv
    <3>2. CASE u # t
      BY <1>5, <3>1, <3>2
    <3>3. CASE u = t
      <4>1. InOrder(FlattenSeq(kept), overrun)
        BY <1>3, <1>4, <3>1, <3>3, InOrderPrefix DEF Lines
      <4>2. Lines(u)' = FlattenSeq(kept) /\ Range(FlattenSeq(kept)) \subseteq Range(Lines(u))
        BY <1>5, <1>6, <3>3
      <4> QED
        BY <3>1, <4>1, <4>2 DEF Below
    <3> QED
      BY <3>2, <3>3
  <2> QED
    BY <1>2, <1>7, <2>1 DEF LinesInv
<1> QED
  BY <1>8, <1>9, <1>10 DEF OrderInv

(* Fewer rows in flight, in the same order.                                *)
Fewer ==
  /\ Len(backs') = Len(backs) /\ UNCHANGED <<log, procResult, overrun>>
  /\ \A b \in 1..Len(backs) : /\ Range(Queue(b)') \subseteq Range(Queue(b))
                              /\ Rising(Queue(b)')

LEMMA FewerKeeps ==
  ASSUME OrderInv, Fewer
  PROVE  QueuesInv' /\ Waiting' \subseteq Waiting
<1>1. /\ Len(backs') = Len(backs) /\ UNCHANGED <<log, procResult, overrun>>
      /\ \A b \in 1..Len(backs) : Range(Queue(b)') \subseteq Range(Queue(b)) /\ Rising(Queue(b)')
  BY DEF Fewer
<1>2. ASSUME NEW x \in Waiting' PROVE x \in Waiting
  BY <1>1, WaitingIs, WaitingIsPrimed
<1>3. ASSUME NEW b \in 1..Len(backs), NEW c \in 1..Len(backs), b < c
      PROVE  Below(Range(Queue(b)'), Range(Queue(c)'))
  <2>1. Below(Range(Queue(b)), Range(Queue(c)))
    BY <1>3 DEF OrderInv, QueuesInv
  <2> QED
    BY <1>1, <2>1 DEF Below
<1>4. ASSUME NEW b \in 1..Len(backs)
      PROVE  /\ Below(Range(Queue(b)'), Range(procResult))
             /\ b # Len(backs) => Range(Queue(b)') \subseteq overrun
  <2>1. /\ Below(Range(Queue(b)), Range(procResult))
        /\ b # Len(backs) => Range(Queue(b)) \subseteq overrun
    BY DEF OrderInv, QueuesInv
  <2> QED
    BY <1>1, <2>1 DEF Below
<1>5. QueuesInv'
  BY <1>1, <1>3, <1>4 DEF OrderInv, QueuesInv
<1> QED
  BY <1>2, <1>5

LEMMA NextBatchOrder ==
  ASSUME Sound, OrderInv, NEW b \in DOMAIN backs, NextBatch(b)
  PROVE  OrderInv'
<1>1. UNCHANGED <<log, procResult, overrun, files>>
  BY DEF NextBatch, tables, faults
<1>2. Len(backs') = Len(backs) /\ \A e \in 1..Len(backs) : Queue(e)' = Queue(e)
  BY NextBatchTakesNothing DEF Sound
<1>3. Fewer
  BY <1>1, <1>2 DEF Fewer, OrderInv, QueuesInv
<1>4. QueuesInv' /\ Waiting' \subseteq Waiting
  BY <1>3, FewerKeeps
<1>5. Numbered' /\ LinesInv'
  BY <1>1, <1>4 DEF OrderInv, Numbered, LinesInv, Lines, Below
<1> QED
  BY <1>4, <1>5 DEF OrderInv

LEMMA WriteNextOrder ==
  ASSUME Sound, OrderInv, NEW b \in DOMAIN backs, WriteNext(b)
  PROVE  OrderInv'
<1>1. PICK row \in Nat : /\ Taken(b, row)
                         /\ UNCHANGED files \/ (log[row].table \in Table /\ Put(log[row].table, row))
  BY WriteNextFiles DEF Sound
<1>2. UNCHANGED <<log, procResult, overrun>> /\ TypeInv /\ PlaceInv /\ QueuesType /\ TablesType
      /\ b \in 1..Len(backs)
  <2>1. UNCHANGED <<log, procResult, overrun>>
    BY DEF WriteNext, faults
  <2>2. TypeInv /\ PlaceInv /\ QueuesType /\ TablesType /\ backs \in Seq(Seq(Seq(Nat)))
    BY DEF Sound, TypeInv, QueuesType
  <2> QED
    BY <2>1, <2>2
<1>3. PICK p \in Seq(Nat) : p # <<>> /\ p[1] = row /\ Queue(b) = p \o Queue(b)'
  BY <1>1 DEF Taken
<1>4. /\ Len(backs') = Len(backs) /\ backs' \in Seq(Seq(Seq(Nat)))
      /\ \A e \in 1..Len(backs) : e # b => Queue(e)' = Queue(e)
  BY <1>1 DEF Taken
<1>5. Queue(b)' \in Seq(Nat)
  <2>1. backs'[b] \in Seq(Seq(Nat))
    BY <1>2, <1>4
  <2> QED
    BY <2>1, FlattenType DEF Queue
<1>6. /\ Range(Queue(b)) = Range(p) \cup Range(Queue(b)')
      /\ Rising(p) /\ Rising(Queue(b)') /\ Below(Range(p), Range(Queue(b)'))
  <2>1. PICK q \in Seq(Nat) : q = Queue(b)'
    BY <1>5
  <2>2. Rising(p \o q)
    BY <1>2, <1>3, <2>1 DEF OrderInv, QueuesInv
  <2>3. Range(p \o q) = Range(p) \cup Range(q) /\ Rising(p) /\ Rising(q) /\ Below(Range(p), Range(q))
    BY <2>2, ConcatRising
  <2> QED
    BY <1>3, <2>1, <2>3
<1>7. row \in Range(p)
  <2>1. 1 \in 1..Len(p)
    BY <1>3, EmptySeq
  <2> QED
    BY <1>3, <2>1, RangeIs
<1>8. Fewer
  <2>1. ASSUME NEW e \in 1..Len(backs)
        PROVE  Range(Queue(e)') \subseteq Range(Queue(e)) /\ Rising(Queue(e)')
    <3>1. CASE e = b
      BY <1>6, <3>1 DEF Queue
    <3>2. CASE e # b
      <4>1. Queue(e)' = Queue(e) /\ Rising(Queue(e))
        BY <1>4, <3>2 DEF OrderInv, QueuesInv
      <4> QED
        BY <4>1
    <3> QED
      BY <3>1, <3>2
  <2> QED
    BY <1>2, <1>4, <2>1 DEF Fewer
<1>9. QueuesInv' /\ Waiting' \subseteq Waiting
  BY <1>8, FewerKeeps
<1>10. row \in Range(Queue(b)) /\ row \in Waiting /\ row \in 1..Len(log)
  <2>1. row \in Range(Queue(b)) /\ row \in Waiting
    BY <1>2, <1>6, <1>7, WaitingIs
  <2> QED
    BY <2>1 DEF OrderInv, Numbered
(* What is still in flight is later, unless a barrier left it behind...    *)
<1>11. ASSUME NEW x \in Waiting'
       PROVE  x # row /\ (row \notin overrun /\ x \notin overrun => row < x)
  <2>0. row \in Nat /\ Len(backs) \in Nat
    BY <1>2 DEF QueuesType
  <2>1. CASE x \in Range(procResult)
    <3>1. row < x
      BY <1>2, <1>10, <2>1 DEF OrderInv, QueuesInv, Below
    <3> QED
      BY <2>0, <3>1
  <2>2. CASE x \in Range(Queue(b)')
    <3>1. row < x
      BY <1>6, <1>7, <2>2 DEF Below
    <3> QED
      BY <2>0, <3>1
  <2>3. ASSUME NEW e \in 1..Len(backs), e # b, x \in Range(Queue(e))
        PROVE  x # row /\ (row \notin overrun /\ x \notin overrun => row < x)
    <3>1. CASE b < e
      <4>1. row < x
        BY <1>2, <1>10, <2>3, <3>1 DEF OrderInv, QueuesInv, Below
      <4> QED
        BY <2>0, <4>1
    <3>2. CASE e < b
      <4>1. x < row
        BY <1>2, <1>10, <2>3, <3>2 DEF OrderInv, QueuesInv, Below
      <4>2. e # Len(backs)
        BY <1>2, <2>0, <3>2
      <4>3. x \in overrun
        BY <2>3, <4>2 DEF OrderInv, QueuesInv
      <4> QED
        BY <2>0, <4>1, <4>3
    <3> QED
      BY <1>2, <2>3, <3>1, <3>2
  <2>4. x \in Range(procResult) \/ \E e \in 1..Len(backs) : x \in Range(Queue(e)')
    BY <1>2, <1>4, WaitingIsPrimed
  <2>5. ASSUME NEW e \in 1..Len(backs), x \in Range(Queue(e)')
        PROVE  x \in Range(Queue(b)') \/ (e # b /\ x \in Range(Queue(e)))
    <3>1. CASE e = b
      BY <2>5, <3>1 DEF Queue
    <3>2. CASE e # b
      <4>1. Queue(e)' = Queue(e)
        BY <1>4, <3>2
      <4> QED
        BY <2>5, <3>2, <4>1
    <3> QED
      BY <3>1, <3>2
  <2> QED
    BY <2>1, <2>2, <2>3, <2>4, <2>5
<1>12. CASE UNCHANGED files
  <2>1. Numbered' /\ LinesInv'
    BY <1>2, <1>9, <1>12 DEF OrderInv, Numbered, LinesInv, Lines, Below
  <2> QED
    BY <1>9, <2>1 DEF OrderInv
(* ...so that a row that is written comes last.                            *)
<1>13. CASE log[row].table \in Table /\ Put(log[row].table, row)
  <2>1. PICK t \in Table : Put(t, row)
    BY <1>13
  <2>2. /\ FlattenSeq(files'[t]) = Append(FlattenSeq(files[t]), row)
        /\ \A u \in Table : u # t => files'[u] = files[u]
    BY <1>2, <2>1, PutFacts
  <2>3. Lines(t)' = Append(Lines(t), row) /\ Lines(t) \in Seq(Nat)
        /\ \A u \in Table : u # t => Lines(u)' = Lines(u)
    BY <1>2, <2>2, LinesType DEF Lines
  <2>4. Range(Lines(t)') = Range(Lines(t)) \cup {row}
    BY <2>3, AppendRising
  <2>5. ASSUME NEW u \in Table
        PROVE  /\ InOrder(Lines(u), overrun)
               /\ Range(Lines(u)) \cap Waiting = {}
               /\ Below(Range(Lines(u)) \ overrun, Waiting \ overrun)
               /\ Range(Lines(u)) \subseteq 1..Len(log)
    BY DEF OrderInv, LinesInv, Numbered, Lines
  <2>6. Numbered'
    <3>1. ASSUME NEW u \in Table PROVE Range(Lines(u)') \subseteq 1..Len(log)
      <4>1. CASE u = t
        BY <1>10, <2>4, <2>5, <4>1 DEF Lines
      <4>2. CASE u # t
        BY <2>3, <2>5, <4>2
      <4> QED
        BY <4>1, <4>2
    <3>2. Waiting' \subseteq 1..Len(log)
      BY <1>9 DEF OrderInv, Numbered
    <3> QED
      BY <1>2, <3>1, <3>2 DEF Numbered, Lines
  <2>7. InOrder(Lines(t)', overrun)
    <3>1. row \notin Range(Lines(t))
      BY <1>10, <2>5
    <3>2. row \notin overrun => Below(Range(Lines(t)) \ overrun, {row})
      BY <1>10, <2>5 DEF Below
    <3> QED
      BY <2>3, <2>5, <3>1, <3>2, InOrderAppend
  <2>8. Range(Lines(t)') \cap Waiting' = {}
    BY <1>9, <1>11, <2>4, <2>5
  <2>9. Below(Range(Lines(t)') \ overrun, Waiting' \ overrun)
    BY <1>9, <1>11, <2>4, <2>5 DEF Below
  <2>10. LinesInv'
    <3>1. ASSUME NEW u \in Table
          PROVE  /\ InOrder(Lines(u)', overrun)
                 /\ Range(Lines(u)') \cap Waiting' = {}
                 /\ Below(Range(Lines(u)') \ overrun, Waiting' \ overrun)
      <4>1. CASE u = t
        BY <2>7, <2>8, <2>9, <4>1 DEF Lines
      <4>2. CASE u # t
        <5>1. Lines(u)' = Lines(u)
          BY <2>3, <4>2
        <5> QED
          BY <1>9, <2>5, <5>1 DEF Below
      <4> QED
        BY <4>1, <4>2
    <3> QED
      BY <1>2, <3>1 DEF LinesInv
  <2> QED
    BY <1>9, <2>6, <2>10 DEF OrderInv
<1> QED
  BY <1>1, <1>12, <1>13

LEMMA OrderKept ==
  ASSUME EventDealerAssumption, Sound, OrderInv, [Next]_vars
  PROVE  OrderInv'
<1>0. log \in Seq(Event) /\ Len(log) \in Nat
  BY DEF Sound, TypeInv, MainType
<1>1. ASSUME NEW t \in Table, DealRows(t) PROVE OrderInv'
  BY <1>1, DealRowsOrder
<1>2. ASSUME NEW k, NEW t, NEW to, NEW quiet, Reads(k, t, to, quiet) PROVE OrderInv'
  <2> DEFINE x == [kind |-> k, table |-> t, to |-> to, quiet |-> quiet]
  <2>1. log' = Append(log, x) /\ UNCHANGED <<backs, procResult, files, overrun>>
    BY <1>2 DEF Reads, DealQuery, queues, tables, faults
  <2> HIDE DEF x
  <2>2. Len(log') = Len(log) + 1
    BY <1>0, <2>1
  <2> QED
    BY <1>0, <2>1, <2>2, OrderSame
<1>3. CASE WriteBack
  BY <1>3, WriteBackOrder
<1>4. CASE AwaitBatches
  BY <1>4, AwaitBatchesOrder
<1>5. CASE OpenWriter
  BY <1>5, OpenWriterOrder
<1>6. CASE BackWrite
  BY <1>6, WriteNextOrder, NextBatchOrder DEF BackWrite
<1>7. CASE \/ DealEnd \/ AwaitTasks \/ CloseWriter \/ Resized \/ NotHandled \/ Unread \/ CloseAll
           \/ DropDatabase \/ (\E t \in Table : CloseOne(t)) \/ Forget
           \/ FinishTask \/ UNCHANGED vars
  <2>1. UNCHANGED <<log, backs, procResult, files, overrun>>
    BY <1>7 DEF DealEnd, AwaitTasks, CloseWriter, Resized, NotHandled, DropDatabase, CloseOne, Forget,
                Unread, CloseAll, FinishTask, vars, queues, tables, faults
  <2> QED
    BY <1>0, <2>1, OrderSame
<1>8. CASE Deal
  BY <1>1, <1>2, <1>7, <1>8, DealIs
<1> QED
  BY <1>3, <1>4, <1>5, <1>6, <1>7, <1>8 DEF Next, Main

LEMMA OrderGives ==
  ASSUME Sound, OrderInv
  PROVE  WrittenInOrder
<1>1. ASSUME NEW t \in Table
      PROVE  DOMAIN Lines(t) = 1..Len(Lines(t)) /\ InOrder(Lines(t), overrun)
  <2>1. Lines(t) \in Seq(Nat)
    BY LinesType DEF Sound, TypeInv
  <2> QED
    BY <2>1, LenProperties DEF OrderInv, LinesInv
<1> QED
  BY <1>1 DEF WrittenInOrder, Lines, InOrder

(* No row is written twice, and the rows of a table are written in the     *)
(* order of the log, from file to file, whatever the statements, the       *)
(* hours and the exceptions, and however many back-writers write beside    *)
(* each other; only rows a barrier left behind may come late.              *)
THEOREM RowsInOrderOfTheLog == Spec => []WrittenInOrder
<1>1. Init => OrderInv
  BY InitOrder
<1>2. Sound /\ OrderInv /\ [Next]_vars => OrderInv'
  BY EventDealerAssumption, OrderKept
<1>3. Sound /\ OrderInv => WrittenInOrder
  BY OrderGives
<1> QED
  BY <1>1, <1>2, <1>3, TypeAndPlace, PTL DEF Spec

-----------------------------------------------------------------------------
(* No row is lost but for a reason.  How many files a table has, and where *)
(* a row belongs, are counted from the log.                                *)

(* After n events the writer of the table is closed by DROP DATABASE of    *)
(* another database.                                                       *)
Shut(t, n) ==
  \E i \in 1..n : /\ log[i].kind = "dropDb" /\ ~DropsDb(DbOf[t], i)
                  /\ \A j \in (i + 1)..n : ~Changes(t, j)

(* From row r to row x there are no more rows than make a batch.           *)
Short(r, x) == Cardinality({j \in r..x : log[j].kind = "rows"}) <= BatchSize

LEMMA ChangedFacts ==
  ASSUME NEW t, NEW n \in Nat
  PROVE  /\ IsFiniteSet(Changed(t, n)) /\ Cardinality(Changed(t, n)) \in Nat
         /\ Cardinality(Changed(t, n)) = 0 <=> Changed(t, n) = {}
<1>1. Changed(t, n) \in SUBSET (1..n)
  BY DEF Changed
<1>2. IsFiniteSet(1..n)
  BY FS_Interval
<1>3. IsFiniteSet(Changed(t, n))
  BY <1>1, <1>2, FS_Subset
<1> QED
  BY <1>3, FS_CardinalityType, FS_EmptySet

(* One more event.                                                         *)
LEMMA ChangedNext ==
  ASSUME NEW t, NEW n \in Nat
  PROVE  /\ DropsDb(DbOf[t], n + 1) => Changed(t, n + 1) = {}
         /\ Changes(t, n + 1) => /\ Changed(t, n + 1) = Changed(t, n) \cup {n + 1}
                                 /\ Cardinality(Changed(t, n + 1)) = Cardinality(Changed(t, n)) + 1
         /\ ~Changes(t, n + 1) /\ ~DropsDb(DbOf[t], n + 1) => Changed(t, n + 1) = Changed(t, n)
<1>1. 1..(n + 1) = 1..n \cup {n + 1} /\ n + 1 \notin 1..n
  OBVIOUS
<1>2. \A i \in 1..n : (i + 1)..(n + 1) = (i + 1)..n \cup {n + 1}
  OBVIOUS
<1>3. ((n + 1) + 1)..(n + 1) = {}
  OBVIOUS
<1>4. ASSUME DropsDb(DbOf[t], n + 1)
      PROVE  Changed(t, n + 1) = {}
  <2>1. \A i \in 1..n : n + 1 \in (i + 1)..(n + 1)
    OBVIOUS
  <2>2. ~Changes(t, n + 1)
    BY <1>4 DEF DropsDb, Changes
  <2> QED
    BY <1>1, <1>4, <2>1, <2>2 DEF Changed
<1>5. ASSUME ~DropsDb(DbOf[t], n + 1)
      PROVE  Changed(t, n + 1) = Changed(t, n) \cup {i \in {n + 1} : Changes(t, i)}
  <2>1. ASSUME NEW i \in 1..n
        PROVE  i \in Changed(t, n + 1) <=> i \in Changed(t, n)
    BY <1>1, <1>2, <1>5 DEF Changed
  <2>2. n + 1 \in Changed(t, n + 1) <=> Changes(t, n + 1)
    BY <1>1, <1>3 DEF Changed
  <2>3. Changed(t, n + 1) \subseteq 1..n \cup {n + 1} /\ Changed(t, n) \subseteq 1..n
    BY <1>1 DEF Changed
  <2> QED
    BY <1>1, <2>1, <2>2, <2>3
<1>6. ASSUME Changes(t, n + 1)
      PROVE  /\ Changed(t, n + 1) = Changed(t, n) \cup {n + 1}
             /\ Cardinality(Changed(t, n + 1)) = Cardinality(Changed(t, n)) + 1
  <2>1. ~DropsDb(DbOf[t], n + 1)
    BY <1>6 DEF DropsDb, Changes
  <2>2. Changed(t, n + 1) = Changed(t, n) \cup {n + 1}
    BY <1>5, <1>6, <2>1
  <2>3. n + 1 \notin Changed(t, n)
    BY <1>1 DEF Changed
  <2> QED
    BY <2>2, <2>3, ChangedFacts, FS_AddElement
<1> QED
  BY <1>4, <1>5, <1>6

(* Without a DROP DATABASE files only become more.                         *)
LEMMA ChangedMore ==
  ASSUME NEW t, NEW m \in Nat, NEW n \in Nat, m <= n,
         \A k \in (m + 1)..n : ~DropsDb(DbOf[t], k)
  PROVE  /\ Changed(t, m) \subseteq Changed(t, n)
         /\ Cardinality(Changed(t, m)) <= Cardinality(Changed(t, n))
<1>1. ASSUME NEW i \in Changed(t, m) PROVE i \in Changed(t, n)
  <2>1. i \in 1..m /\ Changes(t, i) /\ \A k \in (i + 1)..m : ~DropsDb(DbOf[t], k)
    BY <1>1 DEF Changed
  <2>2. i \in 1..n /\ \A k \in (i + 1)..n : k \in (i + 1)..m \/ k \in (m + 1)..n
    BY <2>1
  <2> QED
    BY <2>1, <2>2 DEF Changed
<1> QED
  BY <1>1, ChangedFacts, FS_Subset

LEMMA ShutNext ==
  ASSUME NEW t, NEW n \in Nat
  PROVE  /\ ~Changes(t, n + 1) /\ Shut(t, n) => Shut(t, n + 1)
         /\ log[n + 1].kind = "dropDb" /\ ~DropsDb(DbOf[t], n + 1) => Shut(t, n + 1)
<1>1. \A i \in 1..n : i \in 1..(n + 1) /\ (i + 1)..(n + 1) = (i + 1)..n \cup {n + 1}
  OBVIOUS
<1>2. ((n + 1) + 1)..(n + 1) = {} /\ n + 1 \in 1..(n + 1)
  OBVIOUS
<1>3. ASSUME ~Changes(t, n + 1), Shut(t, n) PROVE Shut(t, n + 1)
  BY <1>1, <1>3 DEF Shut
<1>4. ASSUME log[n + 1].kind = "dropDb", ~DropsDb(DbOf[t], n + 1) PROVE Shut(t, n + 1)
  BY <1>2, <1>4 DEF Shut
<1> QED
  BY <1>3, <1>4

(* What is counted up to an event does not change as the log grows.        *)
LEMMA LogGrows ==
  ASSUME NEW e, log \in Seq(Event), log' = Append(log, e), Len(log) \in Nat
  PROVE  /\ Len(log') = Len(log) + 1 /\ log'[Len(log) + 1] = e
         /\ \A i \in 1..Len(log) : log'[i] = log[i]
         /\ \A t : \A i \in 1..Len(log) : Changes(t, i)' <=> Changes(t, i)
         /\ \A d : \A i \in 1..Len(log) : DropsDb(d, i)' <=> DropsDb(d, i)
         /\ \A t : \A n \in 0..Len(log) : Changed(t, n)' = Changed(t, n) /\ (Shut(t, n)' <=> Shut(t, n))
         /\ \A row \in 1..Len(log), i \in 1..(Len(log) + 1) : Near(row, i)' <=> Near(row, i)
         /\ \A r, x \in 1..Len(log) : Short(r, x)' <=> Short(r, x)
         /\ \A n \in 0..Len(log) : Keys(n)' = Keys(n)
<1> DEFINE m == Len(log)
<1>1. /\ Len(log') = m + 1 /\ log'[m + 1] = e /\ \A i \in 1..m : log'[i] = log[i]
  BY AppendProperties
<1> HIDE DEF m
<1>2. /\ \A t : \A i \in 1..m : Changes(t, i)' <=> Changes(t, i)
      /\ \A d : \A i \in 1..m : DropsDb(d, i)' <=> DropsDb(d, i)
  BY <1>1 DEF Changes, DropsDb
<1>3. ASSUME NEW t, NEW n \in 0..m
      PROVE  Changed(t, n)' = Changed(t, n) /\ (Shut(t, n)' <=> Shut(t, n))
  <2>1. \A i \in 1..n : i \in 1..m /\ \A k \in (i + 1)..n : k \in 1..m
    BY DEF m
  <2>2. Changed(t, n)' = Changed(t, n)
    <3>1. \A i \in 1..n : i \in Changed(t, n)' <=> i \in Changed(t, n)
      BY <1>2, <2>1 DEF Changed
    <3>2. Changed(t, n)' \subseteq 1..n /\ Changed(t, n) \subseteq 1..n
      BY DEF Changed
    <3> QED
      BY <3>1, <3>2
  <2>3. Shut(t, n)' <=> Shut(t, n)
    BY <1>1, <1>2, <2>1 DEF Shut
  <2> QED
    BY <2>2, <2>3
<1>4. ASSUME NEW row \in 1..m, NEW i \in 1..(m + 1)
      PROVE  Near(row, i)' <=> Near(row, i)
  <2>1. \A j \in (row + 1)..(i - 1) : j \in 1..m
    BY DEF m
  <2> QED
    BY <1>1, <2>1 DEF Near
<1>5. ASSUME NEW n \in 0..m PROVE Keys(n)' = Keys(n)
  BY <1>3 DEF Keys
<1>6. ASSUME NEW r \in 1..m, NEW x \in 1..m PROVE Short(r, x)' <=> Short(r, x)
  <2>1. \A j \in r..x : j \in 1..m
    BY DEF m
  <2>2. {j \in r..x : log'[j].kind = "rows"} = {j \in r..x : log[j].kind = "rows"}
    BY <1>1, <2>1
  <2> QED
    BY <2>2 DEF Short
<1> QED
  BY <1>1, <1>2, <1>3, <1>4, <1>5, <1>6 DEF m

(* The tables with a writer, by the log.                                   *)
LEMMA KeysAre ==
  ASSUME MainType, NEW n \in 0..Len(log)
  PROVE  /\ Keys(n) = {t \in Table : Changed(t, n) # {}}
         /\ IsFiniteSet(Keys(n))
<1>1. log \in Seq(Event) /\ Len(log) \in Nat
  BY DEF MainType
<1>2. Keys(n) = {t \in Table : Changed(t, n) # {}}
  BY DEF Keys
<1> DEFINE f == [i \in 1..n |-> log[i].table]
           T == {log[i].table : i \in 1..n}
<1>3. IsFiniteSet(1..n)
  BY <1>1, FS_Interval
<1>4. f \in Surjection(1..n, T)
  BY DEF Surjection
<1>5. IsFiniteSet(T)
  <2> HIDE DEF f, T
  <2> QED
    BY <1>3, <1>4, FS_Surjection
<1>6. Keys(n) \in SUBSET T
  BY DEF Keys, Changed, Changes
<1> HIDE DEF T
<1> QED
  BY <1>2, <1>5, <1>6, FS_Subset

(* Its reasons, as long as the log stays the same...                       *)
LEMMA SameCauses ==
  ASSUME UNCHANGED log
  PROVE  /\ \A row : /\ Overtaken(row)' <=> Overtaken(row)
                     /\ WriterClosed(row)' <=> WriterClosed(row)
                     /\ Rehashed(row)' <=> Rehashed(row)
                     /\ Nameless(row)' <=> Nameless(row)
                     /\ LostWith(row)' <=> LostWith(row)
         /\ \A t, n : Changed(t, n)' = Changed(t, n)
         /\ \A n : Keys(n)' = Keys(n)
         /\ \A row : FileOf(row)' = FileOf(row)
<1>1. \A t, n : Changed(t, n)' = Changed(t, n)
  BY DEF Changed, Changes, DropsDb
<1>2. \A n : Keys(n)' = Keys(n)
  BY <1>1 DEF Keys
<1>3. \A row : FileOf(row)' = FileOf(row)
  BY <1>1 DEF FileOf
<1>4. \A row, i : Near(row, i)' <=> Near(row, i)
  BY DEF Near
<1>5. \A row : Overtaken(row)' <=> Overtaken(row)
  BY <1>4 DEF Overtaken, Changes
<1>6. \A row : WriterClosed(row)' <=> WriterClosed(row)
  BY DEF WriterClosed, Changes, DropsDb
<1>7. \A row : Rehashed(row)' <=> Rehashed(row)
  BY <1>2, <1>4 DEF Rehashed, Changes
<1>8. \A row : Nameless(row)' <=> Nameless(row)
  BY <1>3, <1>4 DEF Nameless, DropsDb
<1>9. \A row : LostWith(row)' <=> LostWith(row)
  BY <1>8 DEF LostWith
<1> QED
  BY <1>1, <1>2, <1>3, <1>5, <1>6, <1>7, <1>8, <1>9

(* ...and as it grows.                                                     *)
LEMMA CausesStay ==
  ASSUME NEW e, log \in Seq(Event), log' = Append(log, e), Len(log) \in Nat, NEW row \in 1..Len(log)
  PROVE  /\ FileOf(row)' = FileOf(row) /\ (WriterClosed(row)' <=> WriterClosed(row))
         /\ Overtaken(row) => Overtaken(row)'
         /\ Rehashed(row) => Rehashed(row)'
         /\ Nameless(row) => Nameless(row)'
<1> DEFINE m == Len(log)
<1>1. /\ Len(log') = m + 1 /\ \A i \in 1..m : log'[i] = log[i]
      /\ \A t : \A i \in 1..m : Changes(t, i)' <=> Changes(t, i)
      /\ \A d : \A i \in 1..m : DropsDb(d, i)' <=> DropsDb(d, i)
      /\ \A t : \A n \in 0..m : Changed(t, n)' = Changed(t, n) /\ (Shut(t, n)' <=> Shut(t, n))
      /\ \A i \in 1..(m + 1) : Near(row, i)' <=> Near(row, i)
      /\ \A n \in 0..m : Keys(n)' = Keys(n)
  BY LogGrows
<1>2. DOMAIN log = 1..m /\ DOMAIN log' = 1..(m + 1)
  BY <1>1, AppendProperties, LenProperties
<1>3. /\ \A i \in 1..m : i \in 1..(m + 1) /\ i \in 0..m /\ i - 1 \in 0..m
      /\ row \in 1..m /\ row - 1 \in 0..m
  OBVIOUS
<1>4. PICK t : t = log[row].table /\ t = log'[row].table
  BY <1>1
<1> HIDE DEF m
<1>5. FileOf(row)' = FileOf(row)
  BY <1>1, <1>3, <1>4 DEF FileOf
<1>6. WriterClosed(row)' <=> WriterClosed(row)
  <2>1. (WriterClosed(row) <=> Shut(t, row - 1)) /\ (WriterClosed(row)' <=> Shut(t, row - 1)')
    BY <1>4 DEF WriterClosed, Shut
  <2> QED
    BY <1>1, <1>3, <2>1
<1>7. ASSUME Overtaken(row) PROVE Overtaken(row)'
  <2>1. PICK i \in 1..m : Near(row, i) /\ log[i].quiet /\ (Changes(t, i) \/ log[i].kind = "dropDb")
    BY <1>2, <1>4, <1>7 DEF Overtaken
  <2>2. Near(row, i)' /\ log'[i].quiet /\ (Changes(t, i)' \/ log'[i].kind = "dropDb")
    BY <1>1, <1>3, <2>1
  <2> QED
    BY <1>2, <1>3, <1>4, <2>2 DEF Overtaken
<1>8. ASSUME Rehashed(row) PROVE Rehashed(row)'
  <2>1. PICK i \in 1..m : /\ Near(row, i) /\ log[i].quiet /\ Changes(log[i].table, i)
                          /\ Cardinality(Keys(i)) \in ResizeAt /\ Keys(i) # Keys(i - 1)
    BY <1>2, <1>8 DEF Rehashed
  <2>2. PICK u : u = log[i].table /\ u = log'[i].table
    BY <1>1
  <2>3. /\ Near(row, i)' /\ log'[i].quiet /\ Changes(u, i)'
        /\ Cardinality(Keys(i)') \in ResizeAt /\ Keys(i)' # Keys(i - 1)'
    BY <1>1, <1>3, <2>1, <2>2
  <2> QED
    BY <1>2, <1>3, <2>2, <2>3 DEF Rehashed
<1>9. ASSUME Nameless(row) PROVE Nameless(row)'
  <2>1. CASE FileOf(row) = 0
    BY <1>5, <2>1 DEF Nameless
  <2>2. CASE \E i \in DOMAIN log : Near(row, i) /\ log[i].quiet /\ DropsDb(DbOf[log[row].table], i)
    <3>1. PICK i \in 1..m : Near(row, i) /\ log[i].quiet /\ DropsDb(DbOf[t], i)
      BY <1>2, <1>4, <2>2
    <3>2. Near(row, i)' /\ log'[i].quiet /\ DropsDb(DbOf[t], i)'
      BY <1>1, <1>3, <3>1
    <3> QED
      BY <1>2, <1>3, <1>4, <3>2 DEF Nameless
  <2> QED
    BY <1>9, <2>1, <2>2 DEF Nameless
<1> QED
  BY <1>5, <1>6, <1>7, <1>8, <1>9

(* A row is lost with one in front of it, if both are of one batch.        *)
LEMMA LostWithIs ==
  \A row : LostWith(row) <=>
    \E r \in 1..(row - 1) :
      log[r].kind = "rows" /\ Nameless(r) /\ (\A j \in r..row : log[j].quiet) /\ Short(r, row)
BY DEF LostWith, Short

LEMMA LostWithIsLater ==
  (\A row : LostWith(row) <=>
    \E r \in 1..(row - 1) :
      log[r].kind = "rows" /\ Nameless(r) /\ (\A j \in r..row : log[j].quiet) /\ Short(r, row))'
BY LostWithIs, PTL

(* A row stays astray.                                                     *)
LEMMA StaysAstray ==
  ASSUME Len(log) \in Nat, NEW row \in 1..Len(log), Astray(row),
         \/ UNCHANGED log
         \/ \E e : log \in Seq(Event) /\ log' = Append(log, e),
         unparsed \subseteq unparsed', overrun \subseteq overrun'
  PROVE  Astray(row)'
<1>1. CASE UNCHANGED log
  BY <1>1, SameCauses DEF Astray
<1>2. CASE \E e : log \in Seq(Event) /\ log' = Append(log, e)
  <2>1. PICK e : log \in Seq(Event) /\ log' = Append(log, e)
    BY <1>2
  <2>2. \A r \in 1..Len(log) :
          /\ WriterClosed(r)' <=> WriterClosed(r)
          /\ Overtaken(r) => Overtaken(r)'
          /\ Rehashed(r) => Rehashed(r)'
          /\ Nameless(r) => Nameless(r)'
    BY <2>1, CausesStay
  <2>3. ASSUME LostWith(row) PROVE LostWith(row)'
    <3>1. PICK r \in 1..(row - 1) :
            log[r].kind = "rows" /\ Nameless(r) /\ (\A j \in r..row : log[j].quiet) /\ Short(r, row)
      BY <2>3, LostWithIs
    <3>2. r \in 1..Len(log) /\ \A j \in r..row : j \in 1..Len(log)
      BY <3>1
    <3>3. /\ \A i \in 1..Len(log) : log'[i] = log[i]
          /\ Short(r, row)' <=> Short(r, row)
      BY <2>1, <3>2, LogGrows
    <3>4. log'[r].kind = "rows" /\ Nameless(r)' /\ (\A j \in r..row : log'[j].quiet) /\ Short(r, row)'
      BY <2>2, <3>1, <3>2, <3>3
    <3> QED
      BY <3>1, <3>4, LostWithIsLater
  <2> QED
    BY <2>2, <2>3 DEF Astray
<1> QED
  BY <1>1, <1>2

(* The batches of rows in flight, the one that is collected included.      *)
IsBatch(B) ==
  \/ B = Range(procResult)
  \/ \E b \in 1..Len(backs) : \E k \in 1..Len(backs[b]) : B = Range(backs[b][k])

LEMMA WaitingInBatches ==
  QueuesType => \A x : x \in Waiting <=> \E B : IsBatch(B) /\ x \in B
<1> SUFFICES ASSUME QueuesType, NEW x
             PROVE  x \in Waiting <=> \E B : IsBatch(B) /\ x \in B
  OBVIOUS
<1>1. ASSUME NEW b \in 1..Len(backs)
      PROVE  x \in Range(Queue(b)) <=> \E k \in 1..Len(backs[b]) : x \in Range(backs[b][k])
  <2>1. backs[b] \in Seq(Seq(Nat))
    BY QueueType
  <2> QED
    BY <2>1, FlattenMember DEF Queue
<1>2. (\E B : IsBatch(B) /\ x \in B) <=>
        \/ x \in Range(procResult)
        \/ \E b \in 1..Len(backs) : \E k \in 1..Len(backs[b]) : x \in Range(backs[b][k])
  BY DEF IsBatch
<1> QED
  BY <1>1, <1>2, WaitingIs

(* What becomes of the batches: each is part of an earlier one, and only   *)
(* the rows of `lost' are not in flight any more.                          *)
Losing(lost) ==
  /\ \A B : IsBatch(B)' => B = {} \/ \E C : IsBatch(C) /\ B \subseteq C
  /\ \A C : IsBatch(C) => \A x \in C : x \in lost \/ \E B : IsBatch(B)' /\ x \in B

LEMMA LosingWaits ==
  ASSUME QueuesType, QueuesType', NEW lost, Losing(lost)
  PROVE  Waiting' \subseteq Waiting /\ Waiting \subseteq Waiting' \cup lost
<1>1. (QueuesType => \A x : x \in Waiting <=> \E B : IsBatch(B) /\ x \in B)'
  BY WaitingInBatches, PTL
<1>2. \A x : x \in Waiting' <=> \E B : IsBatch(B)' /\ x \in B
  BY <1>1
<1>3. \A x : x \in Waiting <=> \E B : IsBatch(B) /\ x \in B
  BY WaitingInBatches
<1> QED
  BY <1>2, <1>3 DEF Losing

LEMMA SameBatches ==
  ASSUME UNCHANGED <<procResult, backs>>
  PROVE  Losing({})
<1>1. \A B : IsBatch(B)' <=> IsBatch(B)
  BY DEF IsBatch
<1> QED
  BY <1>1 DEF Losing

LEMMA WriteBackBatches ==
  ASSUME TypeInv, WriteBack
  PROVE  Losing({})
<1>1. /\ backs \in Seq(Seq(Seq(Nat))) /\ backs # <<>> /\ procResult \in Seq(Nat)
      /\ backs' = Submitted(backs, procResult) /\ procResult' = <<>>
  BY DEF TypeInv, QueuesType, WriteBack
<1> DEFINE n == Len(backs)
           m == Len(backs[n])
<1>2. /\ n \in 1..n /\ backs[n] \in Seq(Seq(Nat)) /\ m \in Nat /\ Len(backs') = n
      /\ \A e \in 1..n : backs'[e] = IF e = n THEN Append(backs[n], procResult) ELSE backs[e]
  <2>1. n \in 1..n /\ backs[n] \in Seq(Seq(Nat))
    BY <1>1, LastOf
  <2>2. m \in Nat
    BY <2>1
  <2>3. /\ Len(Submitted(backs, procResult)) = n
        /\ \A e \in 1..n :
             Submitted(backs, procResult)[e] = IF e = n THEN Append(backs[e], procResult) ELSE backs[e]
    BY <1>1, SubmittedFacts
  <2> QED
    BY <1>1, <2>1, <2>2, <2>3
<1>3. /\ Len(backs'[n]) = m + 1 /\ backs'[n][m + 1] = procResult
      /\ \A k \in 1..m : backs'[n][k] = backs[n][k]
  <2>1. backs'[n] = Append(backs[n], procResult)
    BY <1>2
  <2> QED
    BY <1>1, <1>2, <2>1, AppendProperties
<1>4. Range(procResult') = {}
  BY <1>1 DEF Range
<1> HIDE DEF n, m
<1>5. ASSUME NEW B, IsBatch(B)' PROVE B = {} \/ IsBatch(B)
  <2>1. CASE B = Range(procResult')
    BY <1>4, <2>1
  <2>2. CASE \E b \in 1..Len(backs') : \E k \in 1..Len(backs'[b]) : B = Range(backs'[b][k])
    <3>0. PICK b \in 1..n : \E k \in 1..Len(backs'[b]) : B = Range(backs'[b][k])
      BY <1>2, <2>2
    <3>1. PICK k \in 1..Len(backs'[b]) : B = Range(backs'[b][k])
      BY <3>0
    <3>2. CASE b = n /\ k = m + 1
      BY <1>3, <3>1, <3>2 DEF IsBatch
    <3>3. CASE b = n /\ k # m + 1
      <4>1. k \in 1..m /\ backs'[n][k] = backs[n][k]
        BY <1>2, <1>3, <3>1, <3>3
      <4> QED
        BY <1>2, <3>1, <3>3, <4>1 DEF IsBatch, m, n
    <3>4. CASE b # n
      BY <1>2, <3>1, <3>4 DEF IsBatch, n
    <3> QED
      BY <3>2, <3>3, <3>4
  <2> QED
    BY <1>5, <2>1, <2>2 DEF IsBatch
<1>6. ASSUME NEW C, IsBatch(C) PROVE IsBatch(C)'
  <2>1. CASE C = Range(procResult)
    <3>1. m + 1 \in 1..Len(backs'[n]) /\ n \in 1..Len(backs')
      BY <1>2, <1>3
    <3> QED
      BY <1>3, <2>1, <3>1 DEF IsBatch
  <2>2. CASE \E b \in 1..Len(backs) : \E k \in 1..Len(backs[b]) : C = Range(backs[b][k])
    <3>0. PICK b \in 1..Len(backs) : \E k \in 1..Len(backs[b]) : C = Range(backs[b][k])
      BY <2>2
    <3>1. PICK k \in 1..Len(backs[b]) : C = Range(backs[b][k])
      BY <3>0
    <3>2. b \in 1..Len(backs') /\ k \in 1..Len(backs'[b]) /\ backs'[b][k] = backs[b][k]
      <4>1. CASE b = n
        BY <1>2, <1>3, <3>1, <4>1 DEF m, n
      <4>2. CASE b # n
        BY <1>2, <3>1, <4>2 DEF n
      <4> QED
        BY <4>1, <4>2
    <3> QED
      BY <3>1, <3>2 DEF IsBatch
  <2> QED
    BY <1>6, <2>1, <2>2 DEF IsBatch
<1> QED
  BY <1>5, <1>6 DEF Losing

LEMMA AwaitBatchesKeeps ==
  ASSUME TypeInv, AwaitBatches
  PROVE  Losing({})
<1>1. /\ backs \in Seq(Seq(Seq(Nat))) /\ backs # <<>> /\ backs' = Replaced(backs)
      /\ UNCHANGED procResult
  BY DEF TypeInv, QueuesType, AwaitBatches
<1> DEFINE n == Len(backs)
<1>2. /\ n \in Nat /\ \A e \in 1..n : backs'[e] = backs[e]
      /\ backs' = backs \/ (Len(backs') = n + 1 /\ backs'[n + 1] = <<>>)
  BY <1>1, ReplacedFacts
<1>3. ASSUME NEW B, IsBatch(B)' PROVE IsBatch(B)
  <2>1. CASE B = Range(procResult')
    BY <1>1, <2>1 DEF IsBatch
  <2>2. CASE \E b \in 1..Len(backs') : \E k \in 1..Len(backs'[b]) : B = Range(backs'[b][k])
    <3>0. PICK b \in 1..Len(backs') : \E k \in 1..Len(backs'[b]) : B = Range(backs'[b][k])
      BY <2>2
    <3>1. PICK k \in 1..Len(backs'[b]) : B = Range(backs'[b][k])
      BY <3>0
    <3>2. b \in 1..n
      <4>1. b # n + 1 \/ backs' = backs
        BY <1>2, <3>1
      <4> QED
        BY <1>2, <3>1, <4>1
    <3> QED
      BY <1>2, <3>1, <3>2 DEF IsBatch
  <2> QED
    BY <1>3, <2>1, <2>2 DEF IsBatch
<1>4. ASSUME NEW C, IsBatch(C) PROVE IsBatch(C)'
  <2>1. 1..n \subseteq 1..Len(backs')
    BY <1>2
  <2> QED
    BY <1>1, <1>2, <1>4, <2>1 DEF IsBatch
<1> QED
  BY <1>3, <1>4 DEF Losing

(* One back-writer's batches change.                                       *)
LEMMA OneQueueChanges ==
  ASSUME QueuesType, NEW b \in 1..Len(backs), NEW u \in Seq(Seq(Nat)), NEW lost,
         backs' = [backs EXCEPT ![b] = u], UNCHANGED procResult,
         \A k \in 1..Len(u) : \E j \in 1..Len(backs[b]) : Range(u[k]) \subseteq Range(backs[b][j]),
         \A j \in 1..Len(backs[b]) : \A x \in Range(backs[b][j]) :
           x \in lost \/ \E k \in 1..Len(u) : x \in Range(u[k])
  PROVE  Losing(lost)
<1>1. /\ Len(backs') = Len(backs)
      /\ \A e \in 1..Len(backs) : backs'[e] = IF e = b THEN u ELSE backs[e]
  BY ExceptSeq DEF QueuesType
<1>2. ASSUME NEW B, IsBatch(B)' PROVE \E C : IsBatch(C) /\ B \subseteq C
  <2>1. CASE B = Range(procResult')
    BY <2>1 DEF IsBatch
  <2>2. CASE \E e \in 1..Len(backs') : \E k \in 1..Len(backs'[e]) : B = Range(backs'[e][k])
    <3>0. PICK e \in 1..Len(backs) : \E k \in 1..Len(backs'[e]) : B = Range(backs'[e][k])
      BY <1>1, <2>2
    <3>1. PICK k \in 1..Len(backs'[e]) : B = Range(backs'[e][k])
      BY <3>0
    <3>2. CASE e = b
      <4>1. PICK j \in 1..Len(backs[b]) : B \subseteq Range(backs[b][j])
        BY <1>1, <3>1, <3>2
      <4> QED
        BY <4>1 DEF IsBatch
    <3>3. CASE e # b
      BY <1>1, <3>1, <3>3 DEF IsBatch
    <3> QED
      BY <3>2, <3>3
  <2> QED
    BY <1>2, <2>1, <2>2 DEF IsBatch
<1>3. ASSUME NEW C, IsBatch(C), NEW x \in C PROVE x \in lost \/ \E B : IsBatch(B)' /\ x \in B
  <2>1. CASE C = Range(procResult)
    BY <1>3, <2>1 DEF IsBatch
  <2>2. CASE \E e \in 1..Len(backs) : \E k \in 1..Len(backs[e]) : C = Range(backs[e][k])
    <3>0. PICK e \in 1..Len(backs) : \E k \in 1..Len(backs[e]) : C = Range(backs[e][k])
      BY <2>2
    <3>1. PICK k \in 1..Len(backs[e]) : C = Range(backs[e][k])
      BY <3>0
    <3>2. CASE e = b /\ x \notin lost
      <4>1. PICK j \in 1..Len(u) : x \in Range(u[j])
        BY <1>3, <3>1, <3>2
      <4>2. b \in 1..Len(backs') /\ backs'[b] = u
        BY <1>1
      <4>3. IsBatch(Range(u[j]))'
        BY <4>2 DEF IsBatch
      <4> QED
        BY <4>1, <4>3
    <3>3. CASE e # b
      <4>1. IsBatch(C)'
        BY <1>1, <3>1, <3>3 DEF IsBatch
      <4> QED
        BY <1>3, <4>1
    <3> QED
      BY <3>2, <3>3
  <2> QED
    BY <1>3, <2>1, <2>2 DEF IsBatch
<1> QED
  BY <1>2, <1>3 DEF Losing

(* The range of a sequence, and of what is behind its head.                *)
LEMMA HeadAndTail ==
  ASSUME NEW S, NEW s \in Seq(S), s # <<>>
  PROVE  /\ Tail(s) \in Seq(S) /\ Len(s) \in Nat /\ Len(s) >= 1 /\ Len(Tail(s)) = Len(s) - 1
         /\ \A k \in 1..(Len(s) - 1) : Tail(s)[k] = s[k + 1]
         /\ s[1] \in S /\ Head(s) = s[1] /\ Range(s) = {s[1]} \cup Range(Tail(s))
         /\ RemoveAt(s, 1) = Tail(s)
<1> DEFINE u == Tail(s)
           n == Len(s)
           v == RemoveAt(s, 1)
<1>1. n \in Nat /\ n >= 1 /\ 1 \in 1..n
  BY EmptySeq
<1>2. /\ u \in Seq(S) /\ Len(u) = n - 1 /\ \A k \in 1..(n - 1) : u[k] = s[k + 1]
      /\ s[1] \in S /\ Head(s) = s[1]
  BY <1>1, HeadTailProperties, ElementOfSeq
<1>3. v \in Seq(S) /\ Len(v) = n - 1 /\ \A k \in 1..(n - 1) : v[k] = IF k < 1 THEN s[k] ELSE s[k + 1]
  BY <1>1, RemoveAtFacts
<1> HIDE DEF u, v
<1>4. u = v
  BY <1>1, <1>2, <1>3, SeqEqual
<1>5. Range(s) = {s[k] : k \in 1..n} /\ Range(u) = {u[k] : k \in 1..(n - 1)}
  BY <1>2, RangeIs
<1> HIDE DEF n
<1>6. \A k \in 1..n : k = 1 \/ (k - 1 \in 1..(n - 1) /\ (k - 1) + 1 = k)
  BY <1>1
<1>7. \A k \in 1..(n - 1) : k + 1 \in 1..n
  BY <1>1
<1>8. \A x \in Range(s) : x \in {s[1]} \cup Range(u)
  BY <1>2, <1>5, <1>6
<1>9. \A x \in {s[1]} \cup Range(u) : x \in Range(s)
  BY <1>1, <1>2, <1>5, <1>7
<1> QED
  BY <1>1, <1>2, <1>4, <1>8, <1>9 DEF n, u, v

LEMMA NextBatchKeeps ==
  ASSUME TypeInv, NEW b \in DOMAIN backs, NextBatch(b)
  PROVE  Losing({})
<1> DEFINE s == backs[b]
<1>1. /\ QueuesType /\ b \in 1..Len(backs) /\ s \in Seq(Seq(Nat)) /\ s # <<>>
      /\ Head(s) = <<>> /\ backs' = [backs EXCEPT ![b] = Tail(s)] /\ UNCHANGED procResult
  <2>1. QueuesType /\ backs \in Seq(Seq(Seq(Nat))) /\ b \in 1..Len(backs)
    BY DEF TypeInv, QueuesType
  <2>2. s \in Seq(Seq(Nat))
    BY <2>1, ElementOfSeq
  <2> QED
    BY <2>1, <2>2 DEF NextBatch
<1>2. s = backs[b]
  OBVIOUS
<1> HIDE DEF s
<1>3. /\ Tail(s) \in Seq(Seq(Nat)) /\ Len(s) \in Nat /\ Len(s) >= 1 /\ Len(Tail(s)) = Len(s) - 1
      /\ \A k \in 1..(Len(s) - 1) : Tail(s)[k] = s[k + 1]
      /\ s[1] = <<>>
  BY <1>1, HeadAndTail
<1>4. Range(s[1]) = {}
  BY <1>3 DEF Range
<1>5. \A k \in 1..Len(Tail(s)) : k + 1 \in 1..Len(s) /\ Tail(s)[k] = s[k + 1]
  BY <1>3
<1>6. \A j \in 1..Len(s) : j = 1 \/ (j - 1 \in 1..Len(Tail(s)) /\ Tail(s)[j - 1] = s[j])
  BY <1>3
<1>7. \A j \in 1..Len(s) : \A x \in Range(s[j]) : \E k \in 1..Len(Tail(s)) : x \in Range(Tail(s)[k])
  BY <1>4, <1>6
<1>8. \A k \in 1..Len(Tail(s)) : \E j \in 1..Len(s) : Range(Tail(s)[k]) \subseteq Range(s[j])
  BY <1>5
<1> DEFINE u == Tail(s)
<1>9. u \in Seq(Seq(Nat)) /\ backs' = [backs EXCEPT ![b] = u]
  BY <1>1, <1>3
<1> HIDE DEF u
<1> QED
  BY <1>1, <1>2, <1>7, <1>8, <1>9, OneQueueChanges DEF u

(* A future is taken: its row is written, or its exception caught, or the  *)
(* rest of its batch is lost with it.                                      *)
LEMMA WriteNextOutcome ==
  ASSUME TypeInv, OrderInv, NEW b \in DOMAIN backs, WriteNext(b)
  PROVE  \E B : \E row \in B :
           /\ IsBatch(B) /\ \A x \in B : x = row \/ row < x
           /\ \/ Losing({row}) /\ (Put(log[row].table, row) \/ (UNCHANGED files /\ Caught(row)))
              \/ Losing(B) /\ UNCHANGED files /\ NullPointer(row)
<1> DEFINE s == backs[b]
           h == s[1]
<1>1. /\ QueuesType /\ b \in 1..Len(backs) /\ s \in Seq(Seq(Nat)) /\ s # <<>>
      /\ Head(s) # <<>> /\ UNCHANGED procResult
  <2>1. QueuesType /\ backs \in Seq(Seq(Seq(Nat))) /\ b \in 1..Len(backs)
    BY DEF TypeInv, QueuesType
  <2>2. s \in Seq(Seq(Nat))
    BY <2>1, ElementOfSeq
  <2> QED
    BY <2>1, <2>2 DEF WriteNext
<1>2. /\ Tail(s) \in Seq(Seq(Nat)) /\ Len(s) \in Nat /\ Len(s) >= 1 /\ Len(Tail(s)) = Len(s) - 1
      /\ \A k \in 1..(Len(s) - 1) : Tail(s)[k] = s[k + 1]
      /\ h \in Seq(Nat) /\ Head(s) = h
  <2> HIDE DEF s
  <2> QED
    BY <1>1, HeadAndTail
<1>3. /\ Tail(h) \in Seq(Nat) /\ Range(h) = {h[1]} \cup Range(Tail(h))
      /\ RestOf(h, NextFuture(h)) = Tail(h)
  <2>1. h \in Seq(Nat) /\ h # <<>>
    BY <1>1, <1>2
  <2> HIDE DEF h
  <2> QED
    BY <2>1, HeadAndTail DEF RestOf, NextFuture
<1>4. \/ /\ backs' = [backs EXCEPT ![b][1] = Tail(h)]
         /\ Put(log[h[1]].table, h[1]) \/ (UNCHANGED files /\ Caught(h[1]))
      \/ backs' = [backs EXCEPT ![b] = Tail(s)] /\ UNCHANGED files /\ NullPointer(h[1])
  <2>1. Head(backs[b]) = h
    BY <1>2
  <2> HIDE DEF h
  <2>2. \/ /\ backs' = [backs EXCEPT ![b][1] = RestOf(h, NextFuture(h))]
           /\ Put(log[h[1]].table, h[1]) \/ (UNCHANGED files /\ Caught(h[1]))
        \/ /\ backs' = [backs EXCEPT ![b] = LostBatch(@)]
           /\ UNCHANGED files /\ NullPointer(h[1])
    BY <2>1 DEF WriteNext, Put, NextFuture, Caught, NullPointer
  <2> QED
    BY <1>3, <2>2 DEF LostBatch
<1>5. IsBatch(Range(h)) /\ h[1] \in Range(h)
  <2>1. 1 \in 1..Len(backs[b])
    BY <1>2
  <2> QED
    BY <1>1, <1>3, <2>1 DEF IsBatch
<1>6. s = backs[b] /\ h = s[1] /\ 1 \in 1..Len(s)
  BY <1>2
<1>9. ASSUME NEW x \in Range(h) PROVE x = h[1] \/ h[1] < x
  <2>1. Rising(Queue(b))
    BY <1>1 DEF OrderInv, QueuesInv
  <2> HIDE DEF h
  <2>2. FlattenSeq(s) = h \o FlattenSeq(Tail(s)) /\ FlattenSeq(Tail(s)) \in Seq(Nat)
    <3> HIDE DEF s
    <3>1. FlattenSeq(s) = Head(s) \o FlattenSeq(Tail(s)) /\ FlattenSeq(Tail(s)) \in Seq(Nat)
      BY <1>1, QueueHead
    <3> QED
      BY <1>2, <3>1
  <2>3. PICK r \in Seq(Nat) : Queue(b) = h \o r
    BY <2>2 DEF Queue
  <2>4. h \in Seq(Nat) /\ Len(h) \in Nat /\ Len(r) \in Nat
    BY <1>2
  <2>5. /\ Len(h \o r) = Len(h) + Len(r)
        /\ \A i \in 1..(Len(h) + Len(r)) : (h \o r)[i] = IF i <= Len(h) THEN h[i] ELSE r[i - Len(h)]
    BY <2>4, ConcatProperties
  <2>6. PICK i \in 1..Len(h) : x = h[i]
    BY <1>9, <2>4, RangeIs
  <2>7. (h \o r)[1] = h[1] /\ (h \o r)[i] = h[i] /\ 1 \in 1..Len(h \o r) /\ i \in 1..Len(h \o r)
    BY <2>4, <2>5, <2>6
  <2>8. i = 1 \/ 1 < i
    BY <2>6
  <2> QED
    BY <2>1, <2>3, <2>6, <2>7, <2>8 DEF Rising
<1>7. ASSUME backs' = [backs EXCEPT ![b][1] = Tail(h)] PROVE Losing({h[1]})
  <2> DEFINE u == [s EXCEPT ![1] = Tail(h)]
  <2>1. backs' = [backs EXCEPT ![b] = u]
    BY <1>7
  <2> HIDE DEF s, h
  <2>2. u \in Seq(Seq(Nat)) /\ Len(u) = Len(s) /\ \A j \in 1..Len(s) : u[j] = IF j = 1 THEN Tail(h) ELSE s[j]
    BY <1>1, <1>3, <1>6, ExceptSeq
  <2> HIDE DEF u
  <2>3. \A k \in 1..Len(u) : Range(u[k]) \subseteq Range(s[k]) /\ k \in 1..Len(s)
    BY <1>3, <1>6, <2>2
  <2>4. \A j \in 1..Len(s) : \A x \in Range(s[j]) : x \in {h[1]} \/ (x \in Range(u[j]) /\ j \in 1..Len(u))
    BY <1>3, <1>6, <2>2
  <2>5. \A k \in 1..Len(u) : \E j \in 1..Len(s) : Range(u[k]) \subseteq Range(s[j])
    BY <2>3
  <2>6. \A j \in 1..Len(s) : \A x \in Range(s[j]) : x \in {h[1]} \/ \E k \in 1..Len(u) : x \in Range(u[k])
    BY <2>4
  <2> QED
    BY <1>1, <1>6, <2>1, <2>2, <2>5, <2>6, OneQueueChanges
<1>8. ASSUME backs' = [backs EXCEPT ![b] = Tail(s)] PROVE Losing(Range(h))
  <2> DEFINE u == Tail(s)
  <2>1. backs' = [backs EXCEPT ![b] = u]
    BY <1>8
  <2> HIDE DEF s, h
  <2>2. \A k \in 1..Len(u) : k + 1 \in 1..Len(s) /\ u[k] = s[k + 1]
    BY <1>2
  <2>3. \A j \in 1..Len(s) : j = 1 \/ (j - 1 \in 1..Len(u) /\ u[j - 1] = s[j])
    BY <1>2
  <2>4. \A k \in 1..Len(u) : \E j \in 1..Len(s) : Range(u[k]) \subseteq Range(s[j])
    BY <2>2
  <2>5. \A j \in 1..Len(s) : \A x \in Range(s[j]) : x \in Range(h) \/ \E k \in 1..Len(u) : x \in Range(u[k])
    BY <1>6, <2>3
  <2>6. u \in Seq(Seq(Nat))
    BY <1>2
  <2> HIDE DEF u
  <2> QED
    BY <1>1, <1>6, <2>1, <2>4, <2>5, <2>6, OneQueueChanges
<1> QED
  BY <1>4, <1>5, <1>7, <1>8, <1>9

(* The events carried out: all but the statement main is busy with.        *)
Dealt ==
  IF after = "query" /\ pc \in {"flush", "tasks", "batches", "query", "open", "drop"}
  THEN Len(log) - 1 ELSE Len(log)

(* The states and the writers of the tables are those the log asks for.    *)
StatesInv ==
  \A t \in Table :
    state[t] + 1 = Cardinality(Changed(t, IF pc = "open" THEN Len(log) ELSE Dealt))

WritersInv ==
  \A t \in Table :
    /\ writer[t] = "none" <=> Changed(t, Dealt) = {}
    /\ writer[t] = "closed" /\ ~Opening(t) /\ pc \notin {"done", "drop"} => Shut(t, Dealt)

(* What main knows of the statement it is busy with.                       *)
StatementInv ==
  /\ pc \in {"query", "open", "drop"} => after = "query"
  /\ pc = "close" => after = "close"
  /\ pc \in {"tasks", "batches"} => after # "deal" /\ procResult = <<>>
  /\ after = "query" /\ pc \in {"flush", "tasks", "batches"} => Barrier(Last(log))
  /\ pc = "open" => Last(log).kind \in {"create", "alter", "fails"}
  /\ pc = "drop" => Last(log).kind = "dropDb"
  /\ pc = "resize" => /\ log # <<>> /\ Last(log).kind \in {"create", "alter", "fails"}
                      /\ Cardinality(Keys(Len(log))) \in ResizeAt
                      /\ Keys(Len(log)) # Keys(Len(log) - 1)

(* The events a row in flight may have been passed by.                     *)
Passed == IF pc \in {"flush", "tasks", "batches", "query"} THEN Dealt ELSE Len(log)

(* A row in flight will get where it belongs, or already has gone astray.  *)
InPlace(row) ==
  LET t == log[row].table
  IN  /\ log[row].kind = "rows" /\ log[row].quiet
      /\ Near(row, Passed + 1)
      /\ writer[t] = "none" => Nameless(row)
      /\ \/ writer[t] = "open" /\ state[t] + 1 = FileOf(row)
         \/ WriterClosed(row) \/ Overtaken(row) \/ Nameless(row)

FlightInv ==
  /\ overrun \subseteq Rows
  /\ \A row \in Waiting : row \in overrun \/ InPlace(row)
  /\ \A B : IsBatch(B) => B \subseteq overrun \/ B \cap overrun = {}
  /\ Range(procResult) \cap overrun = {}
  /\ pc \in {"close", "done"} \/ (pc \in {"query", "open", "resize", "drop"} /\ Barrier(Last(log)))
     => Waiting \subseteq overrun

(* A row not in flight is written where it belongs, or there is a reason.  *)
Settled(row) ==
  LET t == log[row].table
  IN  \/ \E i \in (row + 1)..Len(log) : DropsDb(DbOf[t], i)
      \/ FileOf(row) \in 1..Len(files[t]) /\ row \in Range(files[t][FileOf(row)])
      \/ Astray(row)

SettledInv == \A row \in Rows : row \in Waiting \/ Settled(row)

Accounted == StatesInv /\ WritersInv /\ StatementInv /\ FlightInv /\ SettledInv

LEMMA CountedFromTheLog ==
  /\ \A row : FileOf(row) = Cardinality(Changed(log[row].table, row - 1))
  /\ \A row : WriterClosed(row) <=> Shut(log[row].table, row - 1)
BY DEF FileOf, WriterClosed, Shut

(* A step that reads no event.                                             *)
LEMMA SameLog ==
  ASSUME UNCHANGED log
  PROVE  /\ \A t, n : Changed(t, n)' = Changed(t, n) /\ (Shut(t, n)' <=> Shut(t, n))
         /\ \A d, i : DropsDb(d, i)' <=> DropsDb(d, i)
         /\ \A row, i : Near(row, i)' <=> Near(row, i)
         /\ \A row : /\ FileOf(row)' = FileOf(row)
                     /\ WriterClosed(row)' <=> WriterClosed(row)
                     /\ Overtaken(row)' <=> Overtaken(row)
                     /\ Nameless(row)' <=> Nameless(row)
         /\ \A n : Keys(n)' = Keys(n)
         /\ Rows' = Rows
<1>1. \A t, n : Changed(t, n)' = Changed(t, n)
  BY DEF Changed, Changes, DropsDb
<1>2. \A t, n : Shut(t, n)' <=> Shut(t, n)
  BY DEF Shut, Changes, DropsDb
<1>3. \A row, i : Near(row, i)' <=> Near(row, i)
  BY DEF Near
<1>4. \A d, i : DropsDb(d, i)' <=> DropsDb(d, i)
  BY DEF DropsDb
<1>5. Rows' = Rows
  BY DEF Rows
<1> QED
  BY <1>1, <1>2, <1>3, <1>4, <1>5, SameCauses

LEMMA StaysSettled ==
  ASSUME MainType, UNCHANGED log, NEW row \in Rows, Settled(row),
         unparsed \subseteq unparsed', overrun \subseteq overrun',
         \A k \in 1..Len(files[log[row].table]) :
           row \in Range(files[log[row].table][k]) /\ k = FileOf(row) =>
             /\ k \in 1..Len(files'[log[row].table])
             /\ row \in Range(files'[log[row].table][k])
  PROVE  Settled(row)'
<1>1. Len(log) \in Nat /\ row \in 1..Len(log)
  BY DEF MainType, Rows
<1>2. Astray(row) => Astray(row)'
  BY <1>1, StaysAstray
<1> QED
  BY <1>2, SameLog DEF Settled

LEMMA StaysInPlace ==
  ASSUME UNCHANGED log, NEW row, InPlace(row), Passed' = Passed,
         writer'[log[row].table] = writer[log[row].table],
         state'[log[row].table] = state[log[row].table]
  PROVE  InPlace(row)'
<1>1. Near(row, Passed + 1)'
  BY SameLog DEF InPlace
<1> QED
  BY <1>1, SameLog DEF InPlace

LEMMA SameTables ==
  ASSUME StatesInv, WritersInv, UNCHANGED <<log, state, writer>>, Dealt' = Dealt,
         pc = "open" <=> pc' = "open", pc \in {"done", "drop"} => pc' \in {"done", "drop"}
  PROVE  StatesInv' /\ WritersInv'
<1>1. StatesInv'
  BY SameLog DEF StatesInv
<1>2. WritersInv'
  BY SameLog DEF WritersInv, Opening
<1> QED
  BY <1>1, <1>2

LEMMA InitAccount == Init => Accounted
<1> SUFFICES ASSUME Init PROVE Accounted
  OBVIOUS
<1>1. /\ Len(log) = 0 /\ Dealt = 0 /\ log = <<>> /\ pc = "deal" /\ after = "deal"
      /\ procResult = <<>> /\ Len(backs) = 1 /\ Len(backs[1]) = 0 /\ overrun = {}
  BY DEF Init, Dealt
<1>2. \A t : Changed(t, 0) = {} /\ Cardinality(Changed(t, 0)) = 0
  BY FS_EmptySet DEF Changed
<1>3. StatesInv
  BY <1>1, <1>2 DEF StatesInv, Init, Absent
<1>4. WritersInv
  BY <1>1, <1>2 DEF WritersInv, Init
<1>5. StatementInv
  BY <1>1 DEF StatementInv
<1>6. Waiting = {} /\ Rows = {}
  BY <1>1, InitOrder DEF OrderInv, Numbered, Rows
<1>7. \A B : IsBatch(B) => B = {}
  <2>1. Range(<<>>) = {}
    BY DEF Range
  <2> QED
    BY <1>1, <2>1 DEF IsBatch
<1>8. FlightInv
  BY <1>1, <1>6, <1>7 DEF FlightInv
<1>9. SettledInv
  BY <1>6 DEF SettledInv
<1> QED
  BY <1>3, <1>4, <1>5, <1>8, <1>9 DEF Accounted

LEMMA TablesOfEvents ==
  ASSUME MainType, NEW i \in 1..Len(log)
  PROVE  log[i] \in Event /\ log[i].table \in Table
<1>1. log[i] \in Event
  BY ElementOfSeq DEF MainType
<1> QED
  BY <1>1 DEF Event

(* A step of main, or of an executor, that leaves tables and log alone.    *)
LEMMA OtherStep ==
  ASSUME Sound, Sound', OrderInv, Accounted,
         UNCHANGED <<log, state, writer, files>>, Losing({}),
         Dealt' = Dealt, Passed' = Passed,
         pc = "open" <=> pc' = "open", pc \in {"done", "drop"} => pc' = pc,
         unparsed \subseteq unparsed',
         overrun' = overrun \/ overrun' = overrun \cup Waiting,
         Range(procResult') \cap overrun' = {},
         pc' \in {"close", "done"} \/ (pc' \in {"query", "open", "resize", "drop"} /\ Barrier(Last(log)))
           => Waiting \subseteq overrun',
         StatementInv'
  PROVE  Accounted'
<1>1. MainType /\ QueuesType /\ QueuesType'
  BY DEF Sound, TypeInv
<1>2. Waiting' = Waiting /\ overrun \subseteq overrun'
  BY <1>1, LosingWaits
<1>3. \A row \in Waiting : row \in Rows
  <2>1. \A row \in Waiting : row \in DOMAIN log /\ (row \in overrun \/ log[row].kind = "rows")
    BY <1>1 DEF OrderInv, Numbered, MainType, Accounted, FlightInv, InPlace
  <2> QED
    BY <2>1 DEF Rows, Accounted, FlightInv
<1>5. StatesInv' /\ WritersInv'
  BY SameTables DEF Accounted
<1>6. FlightInv'
  <2>1. overrun' \subseteq Rows'
    BY <1>3, SameLog DEF Accounted, FlightInv
  <2>2. ASSUME NEW row \in Waiting' PROVE row \in overrun' \/ InPlace(row)'
    <3>1. row \in Waiting
      BY <1>2
    <3>2. CASE row \in overrun
      BY <1>2, <3>2
    <3>3. CASE InPlace(row)
      BY <3>3, StaysInPlace
    <3> QED
      BY <3>1, <3>2, <3>3 DEF Accounted, FlightInv
  <2>3. ASSUME NEW B, IsBatch(B)' PROVE B \subseteq overrun' \/ B \cap overrun' = {}
    <3>1. CASE B = {}
      BY <3>1
    <3>2. ASSUME NEW C, IsBatch(C), B \subseteq C PROVE B \subseteq overrun' \/ B \cap overrun' = {}
      <4>1. C \subseteq Waiting
        BY <1>1, <3>2, WaitingInBatches
      <4>2. C \subseteq overrun \/ C \cap overrun = {}
        BY <3>2 DEF Accounted, FlightInv
      <4> QED
        BY <3>2, <4>1, <4>2
    <3> QED
      BY <2>3, <3>1, <3>2 DEF Losing
  <2> QED
    BY <1>2, <2>1, <2>2, <2>3 DEF FlightInv
<1>7. SettledInv'
  <2> SUFFICES ASSUME NEW row \in Rows, row \notin Waiting
               PROVE  Settled(row)'
    BY <1>2, SameLog DEF SettledInv
  <2>1. Settled(row)
    BY DEF Accounted, SettledInv
  <2> QED
    BY <1>1, <1>2, <2>1, StaysSettled
<1> QED
  BY <1>5, <1>6, <1>7 DEF Accounted

LEMMA DealEndAccount ==
  ASSUME Sound, Sound', OrderInv, Accounted, DealEnd
  PROVE  Accounted'
<1>1. /\ UNCHANGED <<log, state, writer, files, known, procResult, backs, unparsed, overrun>>
      /\ pc = "deal" /\ pc' = "flush" /\ after' = "close"
  BY DEF DealEnd, queues, tables, faults
<1>2. Dealt' = Dealt /\ Passed' = Passed
  BY <1>1 DEF Dealt, Passed
<1>3. StatementInv'
  BY <1>1 DEF StatementInv
<1>4. Losing({})
  BY <1>1, SameBatches
<1>5. Range(procResult') \cap overrun' = {}
  BY <1>1 DEF Accounted, FlightInv
<1> QED
  BY <1>1, <1>2, <1>3, <1>4, <1>5, OtherStep

LEMMA WriteBackAccount ==
  ASSUME Sound, Sound', OrderInv, Accounted, WriteBack
  PROVE  Accounted'
<1>1. /\ UNCHANGED <<after, log, state, writer, files, known, unparsed, overrun>>
      /\ pc = "flush" /\ procResult' = <<>>
      /\ pc' = IF after = "deal" THEN "deal" ELSE "tasks"
  BY DEF WriteBack, tables, faults
<1>2. Dealt' = Dealt /\ Passed' = Passed
  BY <1>1 DEF Dealt, Passed
<1>3. StatementInv'
  BY <1>1 DEF Accounted, StatementInv
<1>4. Losing({})
  BY WriteBackBatches DEF Sound
<1>5. Range(procResult') \cap overrun' = {}
  BY <1>1 DEF Range
<1> QED
  BY <1>1, <1>2, <1>3, <1>4, <1>5, OtherStep

LEMMA AwaitTasksAccount ==
  ASSUME Sound, Sound', OrderInv, Accounted, AwaitTasks
  PROVE  Accounted'
<1>1. /\ UNCHANGED <<after, log, state, writer, files, known, procResult, backs, unparsed, overrun>>
      /\ pc = "tasks" /\ pc' = "batches"
  BY DEF AwaitTasks, tables
<1>2. Dealt' = Dealt /\ Passed' = Passed
  BY <1>1 DEF Dealt, Passed
<1>3. StatementInv'
  BY <1>1 DEF Accounted, StatementInv
<1>4. Losing({})
  BY <1>1, SameBatches
<1>5. Range(procResult') \cap overrun' = {}
  BY <1>1 DEF Accounted, FlightInv
<1> QED
  BY <1>1, <1>2, <1>3, <1>4, <1>5, OtherStep

(* What a barrier that gives up leaves behind is what is in flight.        *)
LEMMA InFlightWaits ==
  ASSUME QueuesType
  PROVE  Range(InFlight(backs)) = Waiting
<1> DEFINE F == FlattenSeq(backs)
<1>1. /\ backs \in Seq(Seq(Seq(Nat))) /\ procResult \in Seq(Nat)
      /\ \A b \in 1..Len(backs) : backs[b] \in Seq(Seq(Nat))
  BY QueueType DEF QueuesType
<1>2. F \in Seq(Seq(Nat))
  BY <1>1, FlattenType
<1>3. FlattenSeq(F) \in Seq(Nat)
  BY <1>2, FlattenType
<1>4. Range(InFlight(backs)) = Range(FlattenSeq(F)) \cup Range(procResult)
  BY <1>1, <1>3, RangeConcatenation DEF InFlight
<1>5. ASSUME NEW x \in Range(FlattenSeq(F)) PROVE x \in Waiting
  <2>1. PICK i \in 1..Len(F) : x \in Range(F[i])
    BY <1>2, FlattenMember
  <2>2. F[i] \in Range(F)
    BY <1>2, RangeIs
  <2>3. PICK b \in 1..Len(backs) : F[i] \in Range(backs[b])
    BY <1>1, <2>2, FlattenMember
  <2>4. Range(backs[b]) = {backs[b][k] : k \in 1..Len(backs[b])}
    BY <1>1, RangeIs
  <2>5. PICK k \in 1..Len(backs[b]) : F[i] = backs[b][k]
    BY <2>3, <2>4
  <2>6. x \in Range(Queue(b))
    BY <1>1, <2>1, <2>5, FlattenMember DEF Queue
  <2> QED
    BY <2>6, WaitingIs
<1>6. \A x \in Waiting : x \in Range(InFlight(backs))
  BY <1>4, InFlightIs, WaitingIs
<1> QED
  BY <1>4, <1>5, <1>6, WaitingIs

LEMMA AwaitBatchesAccount ==
  ASSUME Sound, Sound', OrderInv, Accounted, AwaitBatches
  PROVE  Accounted'
<1>1. /\ UNCHANGED <<after, log, state, writer, files, known, procResult, unparsed>>
      /\ pc = "batches" /\ pc' = after
      /\ overrun' = overrun \cup Waiting
  BY InFlightWaits DEF AwaitBatches, tables, Sound, TypeInv
<1>2. procResult = <<>> /\ after \in {"query", "close"}
  BY <1>1 DEF Accounted, StatementInv, Sound, TypeInv, MainType
<1>3. Dealt' = Dealt /\ Passed' = Passed
  BY <1>1, <1>2 DEF Dealt, Passed
<1>4. StatementInv'
  BY <1>1, <1>2 DEF Accounted, StatementInv, Barrier
<1>5. Losing({})
  BY AwaitBatchesKeeps DEF Sound
<1>6. Range(procResult') \cap overrun' = {}
  BY <1>1, <1>2 DEF Range
<1> QED
  BY <1>1, <1>2, <1>3, <1>4, <1>5, <1>6, OtherStep

LEMMA ResizedAccount ==
  ASSUME Sound, Sound', OrderInv, Accounted, Resized
  PROVE  Accounted'
<1>1. /\ UNCHANGED <<after, log, state, writer, files, known, procResult, backs, unparsed, overrun>>
      /\ pc = "resize" /\ pc' \in {"deal", "aborted"}
  BY DEF Resized, WriteDDLCompat, queues, tables, faults
<1>2. Dealt' = Dealt /\ Passed' = Passed
  BY <1>1 DEF Dealt, Passed
<1>3. StatementInv'
  BY <1>1 DEF StatementInv
<1>4. Losing({})
  BY <1>1, SameBatches
<1>5. Range(procResult') \cap overrun' = {}
  BY <1>1 DEF Accounted, FlightInv
<1> QED
  BY <1>1, <1>2, <1>3, <1>4, <1>5, OtherStep

(* A step of another thread that takes no row.                             *)
LEMMA OtherThreadAccount ==
  ASSUME Sound, Sound', OrderInv, Accounted, Losing({}),
         UNCHANGED <<pc, after, log, state, writer, files, procResult, overrun>>,
         unparsed \subseteq unparsed'
  PROVE  Accounted'
<1>1. Dealt' = Dealt /\ Passed' = Passed
  BY DEF Dealt, Passed
<1>2. StatementInv'
  <2>1. Keys(Len(log))' = Keys(Len(log)) /\ Keys(Len(log) - 1)' = Keys(Len(log) - 1)
    BY SameLog
  <2> QED
    BY <2>1 DEF Accounted, StatementInv
<1>3. Range(procResult') \cap overrun' = {}
  BY DEF Accounted, FlightInv
<1>4. pc' \in {"close", "done"} \/ (pc' \in {"query", "open", "resize", "drop"} /\ Barrier(Last(log)))
        => Waiting \subseteq overrun'
  BY DEF Accounted, FlightInv
<1> QED
  BY <1>1, <1>2, <1>3, <1>4, OtherStep

CountsNext(t, n) ==
  /\ DropsDb(DbOf[t], n + 1) => Changed(t, n + 1) = {}
  /\ Changes(t, n + 1) => Cardinality(Changed(t, n + 1)) = Cardinality(Changed(t, n)) + 1
  /\ ~Changes(t, n + 1) /\ ~DropsDb(DbOf[t], n + 1) => Changed(t, n + 1) = Changed(t, n)
  /\ ~Changes(t, n + 1) /\ Shut(t, n) => Shut(t, n + 1)

LEMMA Counting == \A t : \A n \in Nat : CountsNext(t, n)
BY ChangedNext, ShutNext DEF CountsNext

(* The log grows by one event.                                             *)
LEMMA AppendKeeps ==
  ASSUME MainType, NEW e, log' = Append(log, e), NEW row \in 1..Len(log)
  PROVE  /\ log'[row] = log[row] /\ FileOf(row)' = FileOf(row)
         /\ WriterClosed(row)' <=> WriterClosed(row)
         /\ Overtaken(row) => Overtaken(row)'
         /\ Nameless(row) => Nameless(row)'
         /\ UNCHANGED <<files, unparsed, overrun>> /\ Settled(row) => Settled(row)'
<1> DEFINE m == Len(log)
<1>0. log \in Seq(Event) /\ Len(log) \in Nat
  BY DEF MainType
<1>1. /\ Len(log') = m + 1 /\ \A i \in 1..m : log'[i] = log[i]
      /\ \A d : \A i \in 1..m : DropsDb(d, i)' <=> DropsDb(d, i)
  BY <1>0, LogGrows
<1>2. /\ FileOf(row)' = FileOf(row)
      /\ WriterClosed(row)' <=> WriterClosed(row)
      /\ Overtaken(row) => Overtaken(row)'
      /\ Nameless(row) => Nameless(row)'
  BY <1>0, CausesStay
<1>3. ASSUME UNCHANGED <<files, unparsed, overrun>>, Settled(row) PROVE Settled(row)'
  <2>1. CASE \E i \in (row + 1)..m : DropsDb(DbOf[log[row].table], i)
    <3>1. PICK i \in (row + 1)..m : DropsDb(DbOf[log[row].table], i)
      BY <2>1
    <3>2. i \in 1..m /\ i \in (row + 1)..(m + 1)
      BY <1>0, <3>1
    <3> QED
      BY <1>1, <3>1, <3>2 DEF Settled
  <2>2. CASE Astray(row)
    <3>1. Astray(row)'
      BY <1>0, <1>3, <2>2, StaysAstray
    <3> QED
      BY <3>1 DEF Settled
  <2>3. CASE FileOf(row) \in 1..Len(files[log[row].table]) /\ row \in Range(files[log[row].table][FileOf(row)])
    BY <1>1, <1>2, <1>3, <2>3 DEF Settled
  <2> QED
    BY <1>3, <2>1, <2>2, <2>3 DEF Settled
<1> QED
  BY <1>1, <1>2, <1>3

(* The main thread reads an event.                                         *)
LEMMA ReadKeeps ==
  ASSUME Sound, OrderInv, Accounted, pc = "deal", NEW e, log' = Append(log, e),
         UNCHANGED <<state, writer, files, unparsed, overrun>>, Waiting \subseteq Waiting',
         Passed' = Len(log) \/ (Passed' = Len(log) + 1 /\ e.quiet)
  PROVE  /\ \A row \in Waiting : row \in overrun \/ InPlace(row)'
         /\ \A row \in 1..Len(log) : log'[row].kind = "rows" => row \in Waiting' \/ Settled(row)'
<1>1. MainType /\ Passed = Len(log) /\ Len(log) \in Nat /\ log \in Seq(Event) /\ DOMAIN log = 1..Len(log)
  BY DEF Sound, TypeInv, MainType, Passed
<1>2. ASSUME NEW row \in Waiting, InPlace(row) PROVE InPlace(row)'
  <2>1. row \in 1..Len(log)
    BY DEF OrderInv, Numbered
  <2>2. /\ log'[row] = log[row] /\ FileOf(row)' = FileOf(row)
        /\ WriterClosed(row)' <=> WriterClosed(row)
        /\ Overtaken(row) => Overtaken(row)'
        /\ Nameless(row) => Nameless(row)'
    BY <1>1, <2>1, AppendKeeps
  <2>3. /\ \A i \in 1..(Len(log) + 1) : Near(row, i)' <=> Near(row, i)
        /\ log'[Len(log) + 1] = e
        /\ \A i \in 1..Len(log) : log'[i] = log[i]
    BY <1>1, <2>1, LogGrows
  <2>4. Near(row, Len(log) + 1)
    BY <1>1, <1>2 DEF InPlace
  <2>5. row < Len(log) + 1 /\ \A j \in (row + 1)..Len(log) : log[j].quiet
    BY <1>1, <2>4 DEF Near
  <2>6. \A j \in (row + 1)..Len(log) : j \in 1..Len(log)
    BY <2>1
  <2>7. Near(row, Passed + 1)'
    <3>1. CASE Passed' = Len(log)
      <4>1. \A j \in (row + 1)..Len(log) : log'[j].quiet
        BY <2>3, <2>5, <2>6
      <4>2. (Passed' + 1) - 1 = Len(log) /\ row < Passed' + 1
        BY <1>1, <2>1, <2>5, <3>1
      <4> QED
        BY <4>1, <4>2 DEF Near
    <3>2. CASE Passed' = Len(log) + 1 /\ e.quiet
      <4>1. \A j \in (row + 1)..(Len(log) + 1) : j \in (row + 1)..Len(log) \/ j = Len(log) + 1
        BY <1>1, <2>1
      <4>2. \A j \in (row + 1)..(Len(log) + 1) : log'[j].quiet
        BY <2>3, <2>5, <2>6, <3>2, <4>1
      <4>3. (Passed' + 1) - 1 = Len(log) + 1 /\ row < Passed' + 1
        BY <1>1, <2>1, <2>5, <3>2
      <4> QED
        BY <4>2, <4>3 DEF Near
    <3> QED
      BY <3>1, <3>2
  <2> QED
    BY <1>2, <2>2, <2>7 DEF InPlace
<1>3. ASSUME NEW row \in 1..Len(log), log'[row].kind = "rows" PROVE row \in Waiting' \/ Settled(row)'
  <2>1. row \in Rows
    BY <1>1, <1>3, AppendKeeps DEF Rows
  <2>2. row \in Waiting \/ Settled(row)
    BY <2>1 DEF Accounted, SettledInv
  <2> QED
    BY <1>1, <2>2, AppendKeeps
<1> QED
  BY <1>2, <1>3 DEF Accounted, FlightInv

LEMMA CountingLater == (\A t : \A n \in Nat : CountsNext(t, n))'
BY Counting, PTL

(* An event that changes no table leaves the counts alone.                 *)
LEMMA SameCounts ==
  ASSUME MainType, NEW e, log' = Append(log, e), NEW n \in Nat, n = Len(log),
         e.kind \notin {"create", "alter", "fails", "dropDb"}
  PROVE  \A t : Changed(t, n + 1)' = Changed(t, n) /\ (Shut(t, n) => Shut(t, n + 1)')
<1>1. log \in Seq(Event) /\ n \in 0..n
  BY DEF MainType
<1>2. /\ log'[n + 1] = e
      /\ \A t : \A k \in 0..n : Changed(t, k)' = Changed(t, k) /\ (Shut(t, k)' <=> Shut(t, k))
  BY <1>1, LogGrows
<1>3. \A t : ~Changes(t, n + 1)' /\ ~DropsDb(DbOf[t], n + 1)'
  BY <1>2 DEF Changes, DropsDb
<1>4. \A t : CountsNext(t, n)'
  BY CountingLater
<1>5. \A t : /\ ~Changes(t, n + 1)' /\ ~DropsDb(DbOf[t], n + 1)' => Changed(t, n + 1)' = Changed(t, n)'
             /\ ~Changes(t, n + 1)' /\ Shut(t, n)' => Shut(t, n + 1)'
  BY <1>4 DEF CountsNext
<1> QED
  BY <1>1, <1>2, <1>3, <1>5

(* A table without a writer has no file that a row could go to.            *)
LEMMA OpenOrShut ==
  ASSUME Sound, StatesInv, WritersInv, pc \notin {"open", "done", "drop"}, NEW t \in Table
  PROVE  /\ state[t] + 1 = Cardinality(Changed(t, Dealt))
         /\ writer[t] = "none" => Cardinality(Changed(t, Dealt)) = 0
         /\ writer[t] = "open" \/ writer[t] = "none" \/ Shut(t, Dealt)
<1>1. state[t] + 1 = Cardinality(Changed(t, Dealt))
  BY DEF StatesInv
<1>2. writer[t] \in {"none", "open", "closed"}
  BY DEF Sound, TypeInv, TablesType
<1> QED
  BY <1>1, <1>2, FS_EmptySet DEF WritersInv, Opening

LEMMA DealRowsAccount ==
  ASSUME Sound, Sound', OrderInv, Accounted, NEW t \in Table, DealRows(t)
  PROVE  Accounted'
<1> DEFINE e == [kind |-> "rows", table |-> t, to |-> t, quiet |-> TRUE]
<1>0. PICK n \in Nat : n = Len(log)
  BY DEF Sound, TypeInv, MainType
<1>1. /\ pc = "deal" /\ log' = Append(log, e) /\ log \in Seq(Event)
      /\ Len(log') = n + 1 /\ procResult \in Seq(Nat) /\ procResult' = Append(procResult, n + 1)
      /\ pc' \in {"flush", "deal"} /\ after' = "deal"
      /\ UNCHANGED <<state, writer, files, hours, unparsed, overrun, backs>>
      /\ e.kind = "rows" /\ e.table = t /\ e.quiet /\ MainType /\ QueuesType
  <2>1. log \in Seq(Event) /\ procResult \in Seq(Nat) /\ MainType /\ QueuesType
    BY DEF Sound, TypeInv, MainType, QueuesType
  <2>2. log' = Append(log, e) /\ Len(log') = n + 1
    BY <1>0, <2>1 DEF DealRows
  <2> QED
    BY <1>0, <2>1, <2>2 DEF DealRows, tables, faults
<1> HIDE DEF e
<1>2. Dealt = n /\ Dealt' = n + 1 /\ Passed = n /\ Passed' = n + 1
  BY <1>0, <1>1 DEF Dealt, Passed
<1>3. /\ log'[n + 1] = e /\ \A i \in 1..n : log'[i] = log[i]
      /\ \A u : Changed(u, n)' = Changed(u, n) /\ (Shut(u, n)' <=> Shut(u, n))
  <2>1. n \in 0..n
    OBVIOUS
  <2> QED
    BY <1>0, <1>1, <2>1, LogGrows
<1>4. \A u : Changed(u, n + 1)' = Changed(u, n) /\ (Shut(u, n) => Shut(u, n + 1)')
  BY <1>0, <1>1, SameCounts
<1>5. StatesInv /\ WritersInv /\ StatementInv /\ FlightInv /\ SettledInv
  BY DEF Accounted
<1>6. Range(procResult') = Range(procResult) \cup {n + 1}
  <2>1. n + 1 \in Nat
    OBVIOUS
  <2> QED
    BY <1>1, <2>1, AppendRising
<1>7. \A B : IsBatch(B)' <=> \/ B = Range(procResult) \cup {n + 1}
                             \/ \E b \in 1..Len(backs) : \E k \in 1..Len(backs[b]) : B = Range(backs[b][k])
  BY <1>1, <1>6 DEF IsBatch
<1>8. Waiting' = Waiting \cup {n + 1}
  <2>1. (QueuesType => \A x : x \in Waiting <=> \E B : IsBatch(B) /\ x \in B)'
    BY WaitingInBatches, PTL
  <2>2. QueuesType'
    BY DEF Sound, TypeInv
  <2>3. \A x : x \in Waiting' <=> \E B : IsBatch(B)' /\ x \in B
    BY <2>1, <2>2
  <2>4. \A x : x \in Waiting <=> \E B : IsBatch(B) /\ x \in B
    BY <1>1, WaitingInBatches
  <2>5. ASSUME NEW x \in Waiting' PROVE x \in Waiting \/ x = n + 1
    <3>1. PICK B : IsBatch(B)' /\ x \in B
      BY <2>3, <2>5
    <3>2. IsBatch(B) \/ (B = Range(procResult) \cup {n + 1})
      BY <1>7, <3>1 DEF IsBatch
    <3>3. IsBatch(Range(procResult))
      BY DEF IsBatch
    <3> QED
      BY <2>4, <3>1, <3>2, <3>3
  <2>6. \E B : IsBatch(B)' /\ B = Range(procResult) \cup {n + 1}
    BY <1>7
  <2>7. ASSUME NEW x \in Waiting PROVE x \in Waiting'
    <3>1. PICK B : IsBatch(B) /\ x \in B
      BY <2>4, <2>7
    <3>2. IsBatch(B)' \/ B = Range(procResult)
      BY <1>7, <3>1 DEF IsBatch
    <3> QED
      BY <2>3, <2>6, <3>1, <3>2
  <2> QED
    BY <2>3, <2>5, <2>6, <2>7
<1>10. StatesInv'
  BY <1>1, <1>2, <1>4, <1>5 DEF StatesInv
<1>11. WritersInv'
  BY <1>1, <1>2, <1>4, <1>5 DEF WritersInv, Opening
<1>12. StatementInv'
  BY <1>1 DEF StatementInv
<1>13. InPlace(n + 1)'
  <2>1. /\ state[t] + 1 = Cardinality(Changed(t, n))
        /\ writer[t] = "none" => Cardinality(Changed(t, n)) = 0
        /\ writer[t] = "open" \/ writer[t] = "none" \/ Shut(t, n)
    BY <1>1, <1>2, <1>5, OpenOrShut
  <2>2. log'[n + 1].table = t /\ log'[n + 1].kind = "rows" /\ log'[n + 1].quiet
    BY <1>1, <1>3
  <2>3. FileOf(n + 1)' = Cardinality(Changed(t, n)') /\ (WriterClosed(n + 1)' <=> Shut(t, n)')
    <3>1. (n + 1) - 1 = n
      OBVIOUS
    <3> QED
      BY <2>2, <3>1 DEF FileOf, WriterClosed, Shut
  <2>6. FileOf(n + 1)' = Cardinality(Changed(t, n)) /\ (WriterClosed(n + 1)' <=> Shut(t, n))
    BY <1>3, <2>3
  <2>7. Cardinality(Changed(t, n)) = 0 => Nameless(n + 1)'
    BY <2>6 DEF Nameless
  <2>4. Near(n + 1, n + 2)'
    <3>1. ((n + 1) + 1)..((n + 2) - 1) = {} /\ n + 1 < n + 2
      OBVIOUS
    <3> QED
      BY <3>1 DEF Near
  <2>5. Near(n + 1, Passed + 1)'
    BY <1>2, <2>4 DEF Near
  <2>8. writer'[t] = "none" => Nameless(n + 1)'
    BY <1>1, <2>1, <2>7
  <2>9. \/ writer'[t] = "open" /\ state'[t] + 1 = FileOf(n + 1)'
        \/ WriterClosed(n + 1)' \/ Nameless(n + 1)'
    BY <1>1, <2>1, <2>6, <2>7
  <2> QED
    BY <2>2, <2>5, <2>8, <2>9 DEF InPlace
<1>14. /\ \A row \in Waiting : row \in overrun \/ InPlace(row)'
       /\ \A row \in 1..n : log'[row].kind = "rows" => row \in Waiting' \/ Settled(row)'
  BY <1>0, <1>1, <1>2, <1>8, ReadKeeps
<1>15. overrun \subseteq Rows /\ n + 1 \notin overrun
  BY <1>0, <1>1, <1>5 DEF FlightInv, Rows
<1>16. FlightInv'
  <2>1. overrun' \subseteq Rows'
    <3>1. DOMAIN log = 1..n /\ DOMAIN log' = 1..(n + 1)
      BY <1>0, <1>1, AppendProperties, LenProperties
    <3> QED
      BY <1>1, <1>3, <1>15, <3>1 DEF Rows
  <2>2. \A row \in Waiting' : row \in overrun' \/ InPlace(row)'
    BY <1>1, <1>8, <1>13, <1>14
  <2>3. \A B : IsBatch(B)' => B \subseteq overrun' \/ B \cap overrun' = {}
    <3>1. \A B : IsBatch(B)' => IsBatch(B) \/ (B = Range(procResult) \cup {n + 1})
      BY <1>7 DEF IsBatch
    <3>2. \A B : B = Range(procResult) \cup {n + 1} => B \cap overrun = {}
      BY <1>5, <1>15 DEF FlightInv
    <3>3. \A B : IsBatch(B) => B \subseteq overrun \/ B \cap overrun = {}
      BY <1>5 DEF FlightInv
    <3> QED
      BY <1>1, <3>1, <3>2, <3>3
  <2>4. Range(procResult') \cap overrun' = {}
    BY <1>1, <1>5, <1>6, <1>15 DEF FlightInv
  <2>5. pc' \notin {"close", "done", "query", "open", "resize", "drop"}
    BY <1>1
  <2> QED
    BY <2>1, <2>2, <2>3, <2>4, <2>5 DEF FlightInv
<1>17. SettledInv'
  <2>1. ASSUME NEW row \in Rows' PROVE row \in Waiting' \/ Settled(row)'
    <3>1. row \in 1..(n + 1) /\ log'[row].kind = "rows"
      <4>1. DOMAIN log' = 1..(n + 1)
        BY <1>1, AppendProperties, LenProperties
      <4> QED
        BY <4>1 DEF Rows
    <3>2. CASE row = n + 1
      BY <1>8, <3>2
    <3>3. CASE row \in 1..n
      BY <1>14, <3>1, <3>3
    <3> QED
      BY <3>1, <3>2, <3>3
  <2> QED
    BY <2>1 DEF SettledInv
<1> QED
  BY <1>10, <1>11, <1>12, <1>16, <1>17 DEF Accounted

LEMMA WaitingIsLogged ==
  ASSUME Sound, OrderInv, NEW row \in Waiting
  PROVE  row \in 1..Len(log) /\ log[row].table \in Table /\ Len(log) \in Nat
<1>1. MainType /\ row \in 1..Len(log) /\ Len(log) \in Nat
  BY DEF Sound, TypeInv, MainType, OrderInv, Numbered
<1> QED
  BY <1>1, TablesOfEvents

LEMMA SameRows ==
  ASSUME MainType, UNCHANGED log \/ \E e : log' = Append(log, e)
  PROVE  Rows \subseteq Rows'
<1>1. CASE UNCHANGED log
  BY <1>1, SameLog
<1>2. ASSUME NEW e, log' = Append(log, e) PROVE Rows \subseteq Rows'
  <2>1. log \in Seq(Event) /\ Len(log) \in Nat
    BY DEF MainType
  <2>2. /\ Len(log') = Len(log) + 1 /\ \A i \in 1..Len(log) : log'[i] = log[i]
    BY <1>2, <2>1, LogGrows
  <2>3. DOMAIN log = 1..Len(log) /\ DOMAIN log' = 1..Len(log')
    BY <1>2, <2>1
  <2> QED
    BY <2>1, <2>2, <2>3 DEF Rows
<1> QED
  BY <1>1, <1>2

(* The rows in flight stay the same.                                       *)
LEMMA SameFlight ==
  ASSUME Sound, Sound', FlightInv, UNCHANGED <<procResult, backs, overrun>>,
         Rows \subseteq Rows',
         \A row \in Waiting : row \in overrun \/ InPlace(row)',
         pc' \in {"close", "done"} \/ (pc' \in {"query", "open", "resize", "drop"} /\ Barrier(Last(log')))
           => Waiting \subseteq overrun
  PROVE  FlightInv' /\ Waiting' = Waiting
<1>1. \A B : IsBatch(B)' <=> IsBatch(B)
  BY DEF IsBatch
<1>2. Waiting' = Waiting
  BY DEF Waiting, Queue
<1> QED
  BY <1>1, <1>2 DEF FlightInv

LEMMA DealQueryAccount ==
  ASSUME EventDealerAssumption, Sound, Sound', OrderInv, Accounted,
         NEW kind, NEW t, NEW to, NEW quiet, Reads(kind, t, to, quiet)
  PROVE  Accounted'
<1> DEFINE e == [kind |-> kind, table |-> t, to |-> to, quiet |-> quiet]
<1>0. PICK n \in Nat : n = Len(log)
  BY DEF Sound, TypeInv, MainType
<1>1. /\ pc = "deal" /\ log' = Append(log, e) /\ log \in Seq(Event)
      /\ Len(log') = n + 1 /\ log' # <<>> /\ pc' = IF Barrier(Last(log')) THEN "flush" ELSE "query"
      /\ after' = "query" /\ kind # "rows"
      /\ UNCHANGED <<state, writer, files, unparsed, overrun, procResult, backs>>
      /\ e.kind = kind /\ MainType
  <2>1. log \in Seq(Event) /\ MainType
    BY DEF Sound, TypeInv, MainType
  <2>2. log' = Append(log, e) /\ Len(log') = n + 1 /\ log' # <<>>
    BY <1>0, <2>1 DEF Reads, DealQuery
  <2>3. kind # "rows"
    BY DEF Reads, Kind
  <2> QED
    BY <1>0, <2>1, <2>2, <2>3 DEF Reads, DealQuery, tables, faults, queues
<1> HIDE DEF e
<1>2. Dealt = n /\ Dealt' = n /\ Passed = n /\ Passed' = n
  BY <1>0, <1>1 DEF Dealt, Passed
<1>3. /\ log'[n + 1] = e /\ \A i \in 1..n : log'[i] = log[i]
      /\ \A u : Changed(u, n)' = Changed(u, n) /\ (Shut(u, n)' <=> Shut(u, n))
  <2>1. n \in 0..n
    OBVIOUS
  <2> QED
    BY <1>0, <1>1, <2>1, LogGrows
<1>4. Last(log') = e
  BY <1>1, <1>3 DEF Last
<1>5. StatesInv /\ WritersInv /\ StatementInv /\ FlightInv /\ SettledInv
  BY DEF Accounted
<1>7. StatesInv'
  BY <1>1, <1>2, <1>3, <1>5 DEF StatesInv
<1>8. WritersInv'
  BY <1>1, <1>2, <1>3, <1>5 DEF WritersInv, Opening
<1>11. StatementInv'
  BY <1>1 DEF StatementInv
<1>12. Waiting' = Waiting
  BY <1>1 DEF Waiting, Queue
<1>13. /\ \A row \in Waiting : row \in overrun \/ InPlace(row)'
       /\ \A row \in 1..n : log'[row].kind = "rows" => row \in Waiting' \/ Settled(row)'
  BY <1>0, <1>1, <1>2, <1>12, ReadKeeps
<1>14. FlightInv'
  <2>1. Rows \subseteq Rows'
    BY <1>1, SameRows
  <2>2. ~(pc' \in {"close", "done"} \/ (pc' \in {"query", "open", "resize", "drop"} /\ Barrier(Last(log'))))
    BY <1>1
  <2> QED
    BY <1>1, <1>5, <1>13, <2>1, <2>2, SameFlight
<1>15. SettledInv'
  <2>1. ASSUME NEW row \in Rows' PROVE row \in Waiting' \/ Settled(row)'
    <3>1. row \in 1..(n + 1) /\ log'[row].kind = "rows"
      <4>1. DOMAIN log' = 1..(n + 1)
        BY <1>1, AppendProperties, LenProperties
      <4> QED
        BY <4>1 DEF Rows
    <3>2. row # n + 1
      BY <1>1, <1>3, <3>1
    <3> QED
      BY <1>13, <3>1, <3>2
  <2> QED
    BY <2>1 DEF SettledInv
<1> QED
  BY <1>7, <1>8, <1>11, <1>14, <1>15 DEF Accounted

-----------------------------------------------------------------------------
(* A statement is carried out.                                             *)

LEMMA InStatement ==
  ASSUME Sound, Accounted, pc \in {"query", "open", "drop"}
  PROVE  \E n \in Nat : \E t \in Table :
           /\ Len(log) = n + 1 /\ Last(log) = log[n + 1] /\ t = Last(log).table
           /\ after = "query" /\ Dealt = n
           /\ \A u : CountsNext(u, n)
           /\ MainType /\ TablesType
<1>1. MainType /\ TablesType /\ log # <<>> /\ Len(log) \in Nat /\ after = "query"
  BY DEF Sound, TypeInv, MainType, Accounted, StatementInv
<1>2. /\ Len(log) \in 1..Len(log) /\ Last(log) = log[Len(log)]
      /\ Last(log).table \in Table
  BY <1>1, LastEvent
<1>3. PICK n \in Nat : Len(log) = n + 1
  <2>1. Len(log) - 1 \in Nat /\ Len(log) = (Len(log) - 1) + 1
    BY <1>1, <1>2
  <2> QED
    BY <2>1
<1>4. Dealt = n
  BY <1>1, <1>3 DEF Dealt
<1> QED
  BY <1>1, <1>2, <1>3, <1>4, Counting

(* A row in flight that no barrier left behind: the statement is quiet and *)
(* comes close behind it.                                                  *)
LEMMA InFlightThen ==
  ASSUME Sound, OrderInv, Accounted, pc \in {"query", "open", "drop"}, NEW n \in Nat, Len(log) = n + 1,
         NEW row \in Waiting, row \notin overrun
  PROVE  /\ InPlace(row) /\ row \in 1..n /\ n + 1 \in DOMAIN log
         /\ log[n + 1].quiet /\ Near(row, n + 1) /\ Near(row, n + 2)
<1>1. PICK m \in Nat : /\ Len(log) = m + 1 /\ Last(log) = log[m + 1]
                        /\ after = "query" /\ Dealt = m /\ MainType
  BY InStatement
<1>2. m = n
  BY <1>1
<1>3. InPlace(row) /\ ~Barrier(Last(log)) /\ row \in 1..(n + 1)
  <2>1. row \in 1..(n + 1)
    BY <1>1, WaitingIsLogged
  <2>2. ~(pc \in {"query", "open", "resize", "drop"} /\ Barrier(Last(log)))
    BY DEF Accounted, FlightInv
  <2> QED
    BY <2>1, <2>2 DEF Accounted, FlightInv
<1>4. n + 1 \in DOMAIN log /\ log[n + 1].quiet /\ log[row].kind = "rows"
  BY <1>1, <1>2, <1>3 DEF Barrier, MainType, InPlace
<1>5. CASE pc = "query"
  <2>1. Near(row, n + 1)
    BY <1>1, <1>2, <1>3, <1>5 DEF InPlace, Passed
  <2>2. row < n + 1 /\ \A j \in (row + 1)..((n + 1) - 1) : log[j].quiet
    BY <2>1 DEF Near
  <2>3. \A j \in (row + 1)..((n + 2) - 1) : j \in (row + 1)..((n + 1) - 1) \/ j = n + 1
    BY <1>3
  <2>4. row < n + 2 /\ \A j \in (row + 1)..((n + 2) - 1) : log[j].quiet
    BY <1>3, <1>4, <2>2, <2>3
  <2>5. Near(row, n + 2)
    BY <2>4 DEF Near
  <2> QED
    BY <1>3, <1>4, <2>1, <2>2, <2>5
<1>6. CASE pc \in {"open", "drop"}
  <2>1. Passed + 1 = n + 2
    BY <1>6 DEF Passed
  <2>2. row < n + 2 /\ \A j \in (row + 1)..((n + 2) - 1) : log[j].quiet
    BY <1>3, <2>1 DEF InPlace, Near
  <2>3. row # n + 1
    BY <1>1, <1>2, <1>4, <1>6 DEF Accounted, StatementInv
  <2>4. row < n + 1 /\ \A j \in (row + 1)..((n + 1) - 1) : j \in (row + 1)..((n + 2) - 1)
    BY <1>3, <2>3
  <2>5. Near(row, n + 1) /\ Near(row, n + 2)
    BY <2>2, <2>4 DEF Near
  <2> QED
    BY <1>3, <1>4, <2>4, <2>5
<1> QED
  BY <1>5, <1>6

(* It is still in place behind the statement...                            *)
LEMMA PassedBy ==
  ASSUME Sound, OrderInv, Accounted, pc \in {"query", "open", "drop"}, NEW n \in Nat, Len(log) = n + 1,
         NEW row \in Waiting, row \notin overrun, UNCHANGED log, Passed' = n + 1,
         writer'[log[row].table] = "none" => Nameless(row),
         \/ writer'[log[row].table] = "open" /\ state'[log[row].table] + 1 = FileOf(row)
         \/ WriterClosed(row) \/ Overtaken(row) \/ Nameless(row)
  PROVE  InPlace(row)'
<1>1. InPlace(row) /\ Near(row, n + 2)
  BY InFlightThen
<1>2. Near(row, Passed + 1)'
  <2>1. Passed' + 1 = n + 2
    OBVIOUS
  <2> QED
    BY <1>1, <2>1 DEF Near
<1> QED
  BY <1>1, <1>2, SameLog DEF InPlace

(* ...and in place or astray, whichever it was, if nothing happened to its *)
(* writer.                                                                 *)
LEMMA PassedAlike ==
  ASSUME Sound, OrderInv, Accounted, pc \in {"query", "open", "drop"}, NEW n \in Nat, Len(log) = n + 1,
         NEW row \in Waiting, row \notin overrun, UNCHANGED log, Passed' = n + 1,
         writer'[log[row].table] = writer[log[row].table],
         state'[log[row].table] = state[log[row].table]
  PROVE  InPlace(row)'
<1>1. InPlace(row)
  BY InFlightThen
<1> QED
  BY <1>1, PassedBy DEF InPlace

(* The rows that are not in flight, if no file changes.                    *)
LEMMA SettledAlike ==
  ASSUME Sound, SettledInv, UNCHANGED <<log, files, unparsed, overrun>>, Waiting' = Waiting
  PROVE  SettledInv'
<1> SUFFICES ASSUME NEW row \in Rows, row \notin Waiting
             PROVE  Settled(row)'
  BY SameLog DEF SettledInv
<1>1. Settled(row) /\ MainType
  BY DEF SettledInv, Sound, TypeInv
<1> QED
  BY <1>1, StaysSettled

LEMMA CloseWriterAccount ==
  ASSUME Sound, Sound', OrderInv, Accounted, CloseWriter
  PROVE  Accounted'
<1>1. pc = "query"
  BY DEF CloseWriter, InQuery
<1>2. PICK n \in Nat : \E t \in Table :
           /\ Len(log) = n + 1 /\ Last(log) = log[n + 1] /\ t = Last(log).table
           /\ after = "query" /\ Dealt = n
           /\ \A u : CountsNext(u, n)
           /\ MainType /\ TablesType
  BY <1>1, InStatement
<1>3. PICK t \in Table :
           /\ Len(log) = n + 1 /\ Last(log) = log[n + 1] /\ t = Last(log).table
           /\ after = "query" /\ Dealt = n
           /\ \A u : CountsNext(u, n)
           /\ MainType /\ TablesType
  BY <1>2
<1>4. /\ log[n + 1].kind \in {"create", "alter", "fails"} /\ log[n + 1].table = t
      /\ state' = [state EXCEPT ![t] = @ + 1]
      /\ writer' = [writer EXCEPT ![t] = IF state[t] = Absent THEN @ ELSE "closed"]
      /\ pc' = "open"
      /\ UNCHANGED <<after, log, procResult, backs, files, unparsed, overrun>>
  BY <1>3 DEF CloseWriter, InQuery, queues, faults
<1>5. Dealt' = n /\ Passed = n /\ Passed' = n + 1
  BY <1>1, <1>3, <1>4 DEF Dealt, Passed
<1>6. StatesInv /\ WritersInv /\ StatementInv /\ FlightInv /\ SettledInv
  BY DEF Accounted
<1>7. \A u \in Table : /\ state[u] \in Int /\ state[u] >= -1 /\ state[u] + 1 = Cardinality(Changed(u, n))
                       /\ state[u] = Absent <=> Changed(u, n) = {}
                       /\ state[u] = Absent <=> writer[u] = "none"
                       /\ writer[u] \in {"none", "open", "closed"}
  <2> SUFFICES ASSUME NEW u \in Table
               PROVE  /\ state[u] \in Int /\ state[u] >= -1 /\ state[u] + 1 = Cardinality(Changed(u, n))
                      /\ state[u] = Absent <=> Changed(u, n) = {}
                      /\ state[u] = Absent <=> writer[u] = "none"
                      /\ writer[u] \in {"none", "open", "closed"}
    OBVIOUS
  <2>1. /\ state[u] \in Int /\ state[u] >= -1 /\ state[u] + 1 = Cardinality(Changed(u, n))
        /\ writer[u] \in {"none", "open", "closed"}
    BY <1>1, <1>3, <1>6 DEF StatesInv, TablesType, Absent
  <2>2. state[u] = Absent <=> Changed(u, n) = {}
    BY <2>1, ChangedFacts DEF Absent
  <2>3. writer[u] = "none" <=> Changed(u, n) = {}
    BY <1>3, <1>6 DEF WritersInv
  <2> QED
    BY <2>1, <2>2, <2>3
<1>8. \A u \in Table : /\ u # t => state'[u] = state[u] /\ writer'[u] = writer[u]
                       /\ u = t => /\ state'[u] = state[u] + 1
                                   /\ writer'[u] = IF state[u] = Absent THEN writer[u] ELSE "closed"
  BY <1>3, <1>4 DEF TablesType
<1>9. StatesInv'
  <2>1. ASSUME NEW u \in Table PROVE state'[u] + 1 = Cardinality(Changed(u, n + 1))
    <3>1. CountsNext(u, n)
      BY <1>3
    <3>2. CASE u = t
      <4>1. Changes(u, n + 1)
        BY <1>4, <3>2 DEF Changes
      <4> QED
        BY <1>7, <1>8, <3>1, <3>2, <4>1 DEF CountsNext
    <3>3. CASE u # t
      <4>1. ~Changes(u, n + 1) /\ ~DropsDb(DbOf[u], n + 1)
        BY <1>4, <3>3 DEF Changes, DropsDb
      <4> QED
        BY <1>7, <1>8, <3>1, <3>3, <4>1 DEF CountsNext
    <3> QED
      BY <3>2, <3>3
  <2>2. \A u : Changed(u, n + 1)' = Changed(u, n + 1)
    BY <1>4, SameLog
  <2> QED
    BY <1>3, <1>4, <2>1, <2>2 DEF StatesInv
<1>10. WritersInv'
  <2>1. \A u : Changed(u, n)' = Changed(u, n) /\ (Shut(u, n)' <=> Shut(u, n))
    BY <1>4, SameLog
  <2>2. \A u \in Table : writer'[u] = "none" <=> Changed(u, n) = {}
    BY <1>7, <1>8
  <2>3. \A u \in Table : u # t /\ writer[u] = "closed" => Shut(u, n)
    BY <1>1, <1>3, <1>6 DEF WritersInv, Opening
  <2>4. \A u \in Table : Opening(u)' <=> u = t
    BY <1>3, <1>4 DEF Opening
  <2> QED
    BY <1>5, <1>8, <2>1, <2>2, <2>3, <2>4 DEF WritersInv
<1>12. StatementInv'
  BY <1>3, <1>4 DEF StatementInv
<1>13. ASSUME NEW row \in Waiting, row \notin overrun PROVE InPlace(row)'
  <2>1. log[row].table \in Table
    BY WaitingIsLogged
  <2>2. CASE log[row].table # t
    <3>1. writer'[log[row].table] = writer[log[row].table] /\ state'[log[row].table] = state[log[row].table]
      BY <1>8, <2>1, <2>2
    <3> QED
      BY <1>1, <1>3, <1>4, <1>5, <1>13, <3>1, PassedAlike
  <2>3. CASE log[row].table = t
    <3>1. InPlace(row) /\ n + 1 \in DOMAIN log /\ log[n + 1].quiet /\ Near(row, n + 1)
      BY <1>1, <1>3, <1>13, InFlightThen
    <3>2. Changes(log[row].table, n + 1)
      BY <1>4, <2>3 DEF Changes
    <3>3. Overtaken(row)
      BY <3>1, <3>2 DEF Overtaken
    <3>4. writer'[log[row].table] = "none" => writer[log[row].table] = "none"
      BY <1>8, <2>1, <2>3
    <3>5. writer'[log[row].table] = "none" => Nameless(row)
      BY <3>1, <3>4 DEF InPlace
    <3> QED
      BY <1>1, <1>3, <1>4, <1>5, <1>13, <3>3, <3>5, PassedBy
  <2> QED
    BY <2>2, <2>3
<1>14. FlightInv' /\ Waiting' = Waiting
  <2>1. Rows \subseteq Rows'
    BY <1>4, SameLog
  <2>2. pc' = "open" /\ (Barrier(Last(log')) => Waiting \subseteq overrun)
    BY <1>1, <1>4, <1>6 DEF FlightInv
  <2> QED
    BY <1>4, <1>6, <1>13, <2>1, <2>2, SameFlight
<1>15. SettledInv'
  BY <1>4, <1>6, <1>14, SettledAlike
<1> QED
  BY <1>9, <1>10, <1>12, <1>14, <1>15 DEF Accounted

LEMMA OpenWriterAccount ==
  ASSUME Sound, Sound', OrderInv, Accounted, OpenWriter
  PROVE  Accounted'
<1>1. pc = "open"
  BY DEF OpenWriter
<1>2. PICK n \in Nat : \E t \in Table :
           /\ Len(log) = n + 1 /\ Last(log) = log[n + 1] /\ t = Last(log).table
           /\ after = "query" /\ Dealt = n
           /\ \A u : CountsNext(u, n)
           /\ MainType /\ TablesType
  BY <1>1, InStatement
<1>3. PICK t \in Table :
           /\ Len(log) = n + 1 /\ Last(log) = log[n + 1] /\ t = Last(log).table
           /\ after = "query" /\ Dealt = n
           /\ \A u : CountsNext(u, n)
           /\ MainType /\ TablesType
  BY <1>2
<1> DEFINE keys == {u \in Table : writer[u] # "none"}
           older == SubSeq(files[t], 1, state[t])
<1>4. /\ state[t] \in 0..Len(files[t]) /\ files[t] \in Seq(Seq(Nat))
      /\ older \in Seq(Seq(Nat)) /\ Len(older) = state[t]
      /\ writer' = [writer EXCEPT ![t] = "open"]
      /\ files' = [files EXCEPT ![t] = Append(older, <<>>)]
      /\ pc' \in {"resize", "deal", "aborted"}
      /\ UNCHANGED <<after, log, state, known, unparsed, overrun, procResult, backs>>
  BY <1>3, OpenWriterFacts DEF queues, faults, Sound
<1>5. pc' = "resize" => t \notin keys /\ Cardinality(keys) + 1 \in ResizeAt
  BY <1>3 DEF OpenWriter, WriteDDLCompat
<1> HIDE DEF keys, older
<1>6. Dealt' = n + 1 /\ Passed = n + 1 /\ Passed' = n + 1
  BY <1>1, <1>3, <1>4 DEF Dealt, Passed
<1>7. StatesInv /\ WritersInv /\ StatementInv /\ FlightInv /\ SettledInv
  BY DEF Accounted
<1>8. log[n + 1].kind \in {"create", "alter", "fails"} /\ log[n + 1].table = t
  BY <1>1, <1>3, <1>7 DEF StatementInv
<1>9. \A u \in Table : IF u = t THEN Changes(u, n + 1) ELSE ~Changes(u, n + 1) /\ ~DropsDb(DbOf[u], n + 1)
  BY <1>8 DEF Changes, DropsDb
<1>10. /\ \A u : Changed(u, n + 1)' = Changed(u, n + 1) /\ (Shut(u, n + 1)' <=> Shut(u, n + 1))
       /\ \A k : Keys(k)' = Keys(k)
  BY <1>4, SameLog
<1>11. StatesInv'
  BY <1>1, <1>3, <1>4, <1>6, <1>7, <1>10 DEF StatesInv
<1>12. \A u \in Table : writer[u] = "none" <=> Changed(u, n) = {}
  BY <1>3, <1>7 DEF WritersInv
<1>13. \A u \in Table : writer'[u] = IF u = t THEN "open" ELSE writer[u]
  BY <1>3, <1>4 DEF TablesType
<1>14. n + 1 \in Changed(t, n + 1)
  <2>1. n + 1 \in 1..(n + 1) /\ ((n + 1) + 1)..(n + 1) = {}
    OBVIOUS
  <2> QED
    BY <1>9, <2>1 DEF Changed
<1>15. \A u \in Table : u # t => Changed(u, n + 1) = Changed(u, n) /\ (Shut(u, n) => Shut(u, n + 1))
  BY <1>3, <1>9 DEF CountsNext
<1>16. WritersInv'
  <2>1. ASSUME NEW u \in Table
        PROVE  /\ writer'[u] = "none" <=> Changed(u, n + 1) = {}
               /\ writer'[u] = "closed" => Shut(u, n + 1)
    <3>1. CASE u = t
      BY <1>13, <1>14, <3>1
    <3>2. CASE u # t
      <4>1. writer[u] = "closed" => Shut(u, n)
        BY <1>1, <1>3, <1>7, <3>2 DEF WritersInv, Opening
      <4> QED
        BY <1>12, <1>13, <1>15, <3>2, <4>1
    <3> QED
      BY <3>1, <3>2
  <2> QED
    BY <1>6, <1>10, <2>1 DEF WritersInv
<1>17. StatementInv'
  <2>1. n \in 0..Len(log) /\ n + 1 \in 0..Len(log)
    BY <1>3
  <2>2. /\ Keys(n) = {u \in Table : Changed(u, n) # {}} /\ IsFiniteSet(Keys(n))
        /\ Keys(n + 1) = {u \in Table : Changed(u, n + 1) # {}}
    BY <1>3, <2>1, KeysAre
  <2>3. Keys(n) = keys
    BY <1>12, <2>2 DEF keys
  <2>4. Keys(n + 1) = keys \cup {t}
    <3>1. \A u \in Table : u \in Keys(n + 1) <=> u \in keys \/ u = t
      BY <1>12, <1>14, <1>15, <2>2 DEF keys
    <3>2. Keys(n + 1) \subseteq Table /\ keys \cup {t} \subseteq Table
      BY <2>2 DEF keys
    <3> QED
      BY <3>1, <3>2
  <2>5. ASSUME pc' = "resize"
        PROVE  Cardinality(Keys(n + 1)) \in ResizeAt /\ Keys(n + 1) # Keys(n)
    <3>1. t \notin keys /\ Cardinality(keys) + 1 \in ResizeAt
      BY <1>5, <2>5
    <3>2. Cardinality(keys \cup {t}) = Cardinality(keys) + 1
      BY <2>2, <2>3, <3>1, FS_AddElement
    <3> QED
      BY <2>3, <2>4, <3>1, <3>2
  <2>6. Keys(Len(log))' = Keys(n + 1) /\ Keys(Len(log) - 1)' = Keys(n)
    <3>1. Len(log') = n + 1 /\ Len(log') - 1 = n
      BY <1>3, <1>4
    <3> QED
      BY <1>10, <3>1
  <2>7. log # <<>>
    BY <1>3 DEF MainType
  <2> QED
    BY <1>3, <1>4, <1>8, <2>5, <2>6, <2>7 DEF StatementInv
<1>18. ASSUME NEW row \in Waiting, row \notin overrun PROVE InPlace(row)'
  <2>1. log[row].table \in Table /\ InPlace(row)
    BY <1>1, <1>3, <1>18, WaitingIsLogged, InFlightThen
  <2>2. CASE log[row].table # t
    <3>1. writer'[log[row].table] = writer[log[row].table] /\ state'[log[row].table] = state[log[row].table]
      BY <1>4, <1>13, <2>1, <2>2
    <3> QED
      BY <1>1, <1>3, <1>4, <1>6, <1>18, <3>1, PassedAlike
  <2>3. CASE log[row].table = t
    <3>1. writer[log[row].table] # "open"
      BY <1>1, <1>3, <2>3 DEF Sound, PlaceInv, Opening
    <3>2. WriterClosed(row) \/ Overtaken(row) \/ Nameless(row)
      BY <2>1, <3>1 DEF InPlace
    <3>3. writer'[log[row].table] # "none"
      BY <1>13, <2>1, <2>3
    <3> QED
      BY <1>1, <1>3, <1>4, <1>6, <1>18, <3>2, <3>3, PassedBy
  <2> QED
    BY <2>2, <2>3
<1>19. FlightInv' /\ Waiting' = Waiting
  <2>1. Rows \subseteq Rows'
    BY <1>4, SameLog
  <2>2. pc' \notin {"close", "done"} /\ (Barrier(Last(log')) => Waiting \subseteq overrun)
    BY <1>1, <1>4, <1>7 DEF FlightInv
  <2> QED
    BY <1>4, <1>7, <1>18, <2>1, <2>2, SameFlight
<1>20. SettledInv'
  <2> SUFFICES ASSUME NEW row \in Rows, row \notin Waiting
               PROVE  Settled(row)'
    BY <1>4, <1>19, SameLog DEF SettledInv
  <2>1. Settled(row)
    BY <1>7 DEF SettledInv
  <2>2. row \in 1..(n + 1) /\ log[row].kind = "rows"
    BY <1>3 DEF Rows, MainType
  <2>3. CASE log[row].table # t
    <3>1. log[row].table \in Table /\ files'[log[row].table] = files[log[row].table]
      BY <1>3, <1>4, <2>2, <2>3, TablesOfEvents DEF TablesType
    <3> QED
      BY <1>3, <1>4, <2>1, <3>1, StaysSettled
  <2>4. CASE log[row].table = t /\ \E i \in (row + 1)..(n + 1) : DropsDb(DbOf[t], i)
    BY <1>3, <1>4, <2>4, SameLog DEF Settled
  <2>5. CASE log[row].table = t /\ ~\E i \in (row + 1)..(n + 1) : DropsDb(DbOf[t], i)
    <3>1. row - 1 \in Nat /\ row - 1 <= n /\ row # n + 1
      BY <1>8, <2>2
    <3>2. \A k \in ((row - 1) + 1)..n : ~DropsDb(DbOf[t], k)
      <4>1. ~DropsDb(DbOf[t], row)
        BY <2>2 DEF DropsDb
      <4>2. \A k \in ((row - 1) + 1)..n : k = row \/ k \in (row + 1)..(n + 1)
        BY <2>2
      <4> QED
        BY <2>5, <4>1, <4>2
    <3>3. FileOf(row) <= Cardinality(Changed(t, n))
      <4>1. FileOf(row) = Cardinality(Changed(t, row - 1))
        BY <2>5, CountedFromTheLog
      <4> QED
        BY <3>1, <3>2, <4>1, ChangedMore
    <3>4. state[t] = Cardinality(Changed(t, n))
      <4>1. state[t] + 1 = Cardinality(Changed(t, n + 1))
        BY <1>1, <1>3, <1>7 DEF StatesInv
      <4>2. Cardinality(Changed(t, n + 1)) = Cardinality(Changed(t, n)) + 1
        BY <1>3, <1>9 DEF CountsNext
      <4>3. Cardinality(Changed(t, n)) \in Nat
        BY ChangedFacts
      <4> QED
        BY <1>4, <4>1, <4>2, <4>3
    <3>5. ASSUME NEW k \in 1..Len(files[t]), row \in Range(files[t][k]), k = FileOf(row)
          PROVE  k \in 1..Len(files'[t]) /\ row \in Range(files'[t][k])
      <4>1. k \in 1..state[t]
        BY <1>4, <3>3, <3>4, <3>5
      <4>2. older[k] = files[t][k]
        BY <1>4, <4>1 DEF older
      <4>3. files'[t] = Append(older, <<>>)
        BY <1>3, <1>4 DEF TablesType
      <4>4. Len(files'[t]) = state[t] + 1 /\ files'[t][k] = older[k]
        <5>1. <<>> \in Seq(Nat)
          OBVIOUS
        <5>2. /\ Len(Append(older, <<>>)) = Len(older) + 1
              /\ \A i \in 1..Len(older) : Append(older, <<>>)[i] = older[i]
          BY <1>4, <5>1, AppendProperties
        <5> QED
          BY <1>4, <4>1, <4>3, <5>2
      <4> QED
        BY <1>4, <3>5, <4>1, <4>2, <4>4
    <3> QED
      BY <1>3, <1>4, <2>1, <2>5, <3>5, StaysSettled
  <2> QED
    BY <2>3, <2>4, <2>5
<1> QED
  BY <1>11, <1>16, <1>17, <1>19, <1>20 DEF Accounted

(* A statement that is none for the writers.                               *)
LEMMA UnhandledAccount ==
  ASSUME Sound, Sound', OrderInv, Accounted, NotHandled \/ Unread
  PROVE  Accounted'
<1>1. /\ pc = "query" /\ pc' \in {"deal", "aborted"}
      /\ Last(log).kind \in {"dropTable", "rename", "other", "unread"}
      /\ UNCHANGED <<after, log, procResult, backs, state, writer, files, unparsed, overrun>>
  BY DEF NotHandled, Unread, InQuery, queues, tables, faults
<1>2. PICK n \in Nat :
        /\ Len(log) = n + 1 /\ Last(log) = log[n + 1] /\ after = "query" /\ Dealt = n
        /\ \A u : CountsNext(u, n)
  BY <1>1, InStatement
<1>3. Dealt' = n + 1 /\ Passed' = n + 1
  BY <1>1, <1>2 DEF Dealt, Passed
<1>4. \A u : Changed(u, n + 1) = Changed(u, n) /\ (Shut(u, n) => Shut(u, n + 1))
  <2>1. \A u : ~Changes(u, n + 1) /\ ~DropsDb(DbOf[u], n + 1)
    BY <1>1, <1>2 DEF Changes, DropsDb
  <2> QED
    BY <1>2, <2>1 DEF CountsNext
<1>5. \A u : Changed(u, n + 1)' = Changed(u, n + 1) /\ (Shut(u, n + 1)' <=> Shut(u, n + 1))
  BY <1>1, SameLog
<1>6. StatesInv'
  BY <1>1, <1>2, <1>3, <1>4, <1>5 DEF StatesInv, Accounted
<1>7. WritersInv'
  BY <1>1, <1>2, <1>3, <1>4, <1>5 DEF WritersInv, Accounted, Opening
<1>8. StatementInv'
  BY <1>1 DEF StatementInv
<1>9. \A row \in Waiting : row \in overrun \/ InPlace(row)'
  BY <1>1, <1>2, <1>3, PassedAlike
<1>10. FlightInv' /\ Waiting' = Waiting
  <2>1. Rows \subseteq Rows'
    BY <1>1, SameLog
  <2> QED
    BY <1>1, <1>9, <2>1, SameFlight DEF Accounted
<1>11. SettledInv'
  BY <1>1, <1>10, SettledAlike DEF Accounted
<1> QED
  BY <1>6, <1>7, <1>8, <1>10, <1>11 DEF Accounted

(* DROP DATABASE, which is carried out in three parts.                     *)
LEMMA DropDatabaseAccount ==
  ASSUME Sound, Sound', OrderInv, Accounted, DropDatabase
  PROVE  Accounted'
<1>1. /\ pc = "query" /\ pc' = "drop" /\ Last(log).kind = "dropDb"
      /\ UNCHANGED <<after, log, procResult, backs, state, writer, files, unparsed, overrun>>
  BY DEF DropDatabase, InQuery, queues, tables, faults
<1>2. PICK n \in Nat : /\ Len(log) = n + 1 /\ after = "query" /\ Dealt = n
  BY <1>1, InStatement
<1>3. Dealt' = n /\ Passed' = n + 1
  BY <1>1, <1>2 DEF Dealt, Passed
<1>4. StatesInv' /\ WritersInv'
  BY <1>1, <1>2, <1>3, SameTables DEF Accounted
<1>5. StatementInv'
  BY <1>1, <1>2 DEF StatementInv
<1>6. \A row \in Waiting : row \in overrun \/ InPlace(row)'
  BY <1>1, <1>2, <1>3, PassedAlike
<1>7. FlightInv' /\ Waiting' = Waiting
  <2>1. Rows \subseteq Rows'
    BY <1>1, SameLog
  <2>2. Barrier(Last(log')) => Waiting \subseteq overrun
    BY <1>1 DEF Accounted, FlightInv
  <2> QED
    BY <1>1, <1>6, <2>1, <2>2, SameFlight DEF Accounted
<1>8. SettledInv'
  BY <1>1, <1>7, SettledAlike DEF Accounted
<1> QED
  BY <1>4, <1>5, <1>7, <1>8 DEF Accounted

LEMMA CloseOneAccount ==
  ASSUME Sound, Sound', OrderInv, Accounted, NEW t \in Table, CloseOne(t)
  PROVE  Accounted'
<1>1. /\ pc = "drop" /\ pc' = "drop" /\ writer[t] = "open"
      /\ UNCHANGED <<after, log, procResult, backs, state, files, unparsed, overrun>>
      /\ writer' = [writer EXCEPT ![t] = "closed"]
  BY DEF CloseOne, queues, faults
<1>2. PICK n \in Nat : /\ Len(log) = n + 1 /\ after = "query" /\ Dealt = n /\ TablesType
                       /\ Last(log) = log[n + 1]
  BY <1>1, InStatement
<1>3. Dealt' = n /\ Passed' = n + 1 /\ log[n + 1].kind = "dropDb"
  BY <1>1, <1>2 DEF Dealt, Passed, Accounted, StatementInv
<1>4. \A u \in Table : writer'[u] = IF u = t THEN "closed" ELSE writer[u]
  BY <1>1, <1>2 DEF TablesType
<1>5. \A u : Changed(u, n)' = Changed(u, n)
  BY <1>1, SameLog
<1>6. StatesInv'
  BY <1>1, <1>2, <1>3, <1>5 DEF StatesInv, Accounted
<1>7. WritersInv'
  BY <1>1, <1>2, <1>3, <1>4, <1>5 DEF WritersInv, Accounted
<1>8. StatementInv'
  BY <1>1 DEF StatementInv, Accounted
<1>9. ASSUME NEW row \in Waiting, row \notin overrun PROVE InPlace(row)'
  <2>1. log[row].table \in Table
    BY WaitingIsLogged
  <2>2. CASE log[row].table # t
    BY <1>1, <1>2, <1>3, <1>4, <1>9, <2>1, <2>2, PassedAlike
  <2>3. CASE log[row].table = t
    <3>1. n + 1 \in DOMAIN log /\ log[n + 1].quiet /\ Near(row, n + 1)
      BY <1>1, <1>2, <1>9, InFlightThen
    <3>2. Overtaken(row)
      BY <1>3, <3>1 DEF Overtaken
    <3>3. writer'[log[row].table] # "none"
      BY <1>4, <2>1, <2>3
    <3> QED
      BY <1>1, <1>2, <1>3, <1>9, <3>2, <3>3, PassedBy
  <2> QED
    BY <2>2, <2>3
<1>10. FlightInv' /\ Waiting' = Waiting
  <2>1. Rows \subseteq Rows'
    BY <1>1, SameLog
  <2>2. Barrier(Last(log')) => Waiting \subseteq overrun
    BY <1>1 DEF Accounted, FlightInv
  <2> QED
    BY <1>1, <1>9, <2>1, <2>2, SameFlight DEF Accounted
<1>11. SettledInv'
  BY <1>1, <1>10, SettledAlike DEF Accounted
<1> QED
  BY <1>6, <1>7, <1>8, <1>10, <1>11 DEF Accounted

LEMMA ForgetAccount ==
  ASSUME Sound, Sound', OrderInv, Accounted, Forget
  PROVE  Accounted'
<1>1. pc = "drop"
  BY DEF Forget
<1>2. PICK n \in Nat :
        /\ Len(log) = n + 1 /\ Last(log) = log[n + 1] /\ after = "query" /\ Dealt = n
        /\ \A u : CountsNext(u, n)
  BY <1>1, InStatement
<1> DEFINE d == DbOf[log[n + 1].table]
<1>3. /\ pc' = "deal"
      /\ writer' = [t \in Table |-> IF DbOf[t] = d THEN "none" ELSE writer[t]]
      /\ state' = [t \in Table |-> IF DbOf[t] = d THEN Absent ELSE state[t]]
      /\ UNCHANGED <<after, log, procResult, backs, files, unparsed, overrun>>
  BY <1>2 DEF Forget, queues, faults
<1>4. log[n + 1].kind = "dropDb"
  BY <1>1, <1>2 DEF Accounted, StatementInv
<1>5. \A t \in Table : DbOf[t] = d <=> DropsDb(DbOf[t], n + 1)
  BY <1>4 DEF DropsDb
<1> HIDE DEF d
<1>6. Dealt' = n + 1 /\ Passed' = n + 1
  BY <1>2, <1>3 DEF Dealt, Passed
<1>7. \A u \in Table : DbOf[u] = d => Changed(u, n + 1) = {}
  BY <1>2, <1>5 DEF CountsNext
<1>8. \A u \in Table : DbOf[u] # d => Changed(u, n + 1) = Changed(u, n) /\ Shut(u, n + 1)
  <2> SUFFICES ASSUME NEW u \in Table, DbOf[u] # d
               PROVE  Changed(u, n + 1) = Changed(u, n) /\ Shut(u, n + 1)
    OBVIOUS
  <2>1. ~Changes(u, n + 1) /\ ~DropsDb(DbOf[u], n + 1)
    BY <1>4, <1>5 DEF Changes
  <2>2. Changed(u, n + 1) = Changed(u, n)
    BY <1>2, <2>1 DEF CountsNext
  <2>3. Shut(u, n + 1)
    BY <1>4, <2>1, ShutNext
  <2> QED
    BY <2>2, <2>3
<1>9. \A u : Changed(u, n + 1)' = Changed(u, n + 1) /\ (Shut(u, n + 1)' <=> Shut(u, n + 1))
  BY <1>3, SameLog
<1>10. StatesInv /\ WritersInv
  BY DEF Accounted
<1>11. StatesInv'
  <2>1. ASSUME NEW u \in Table PROVE state'[u] + 1 = Cardinality(Changed(u, n + 1))
    <3>1. CASE DbOf[u] = d
      BY <1>3, <1>7, <3>1, FS_EmptySet DEF Absent
    <3>2. CASE DbOf[u] # d
      BY <1>1, <1>2, <1>3, <1>8, <1>10, <3>2 DEF StatesInv
    <3> QED
      BY <3>1, <3>2
  <2> QED
    BY <1>3, <1>6, <1>9, <2>1 DEF StatesInv
<1>12. WritersInv'
  <2>1. \A u \in Table : writer[u] = "none" <=> Changed(u, n) = {}
    BY <1>2, <1>10 DEF WritersInv
  <2>2. \A u \in Table : /\ writer'[u] = "none" <=> Changed(u, n + 1) = {}
                         /\ writer'[u] = "closed" => Shut(u, n + 1)
    BY <1>3, <1>7, <1>8, <2>1
  <2> QED
    BY <1>6, <1>9, <2>2 DEF WritersInv
<1>13. StatementInv'
  BY <1>3 DEF StatementInv
<1>14. ASSUME NEW row \in Waiting, row \notin overrun PROVE InPlace(row)'
  <2>1. log[row].table \in Table
    BY WaitingIsLogged
  <2>2. CASE DbOf[log[row].table] # d
    BY <1>1, <1>2, <1>3, <1>6, <1>14, <2>1, <2>2, PassedAlike
  <2>3. CASE DbOf[log[row].table] = d
    <3>1. n + 1 \in DOMAIN log /\ log[n + 1].quiet /\ Near(row, n + 1)
      BY <1>1, <1>2, <1>14, InFlightThen
    <3>2. DropsDb(DbOf[log[row].table], n + 1)
      BY <1>5, <2>1, <2>3
    <3>3. Nameless(row)
      BY <3>1, <3>2 DEF Nameless
    <3> QED
      BY <1>1, <1>2, <1>3, <1>6, <1>14, <3>3, PassedBy
  <2> QED
    BY <2>2, <2>3
<1>15. FlightInv' /\ Waiting' = Waiting
  <2>1. Rows \subseteq Rows'
    BY <1>3, SameLog
  <2> QED
    BY <1>3, <1>14, <2>1, SameFlight DEF Accounted
<1>16. SettledInv'
  BY <1>3, <1>15, SettledAlike DEF Accounted
<1> QED
  BY <1>11, <1>12, <1>13, <1>15, <1>16 DEF Accounted

LEMMA CloseAllAccount ==
  ASSUME Sound, Sound', OrderInv, Accounted, CloseAll
  PROVE  Accounted'
<1>1. /\ pc = "close" /\ UNCHANGED <<after, log, procResult, backs, state, files, unparsed, overrun>>
      /\ \/ pc' = "done" /\ writer' = [t \in Table |-> IF writer[t] = "none" THEN "none" ELSE "closed"]
         \/ pc' = "aborted" /\ UNCHANGED writer
  BY DEF CloseAll, queues, faults
<1>2. StatesInv /\ WritersInv /\ after = "close" /\ Waiting \subseteq overrun
  BY <1>1 DEF Accounted, StatementInv, FlightInv
<1>3. Dealt' = Dealt
  BY <1>1 DEF Dealt
<1>4. PICK n : n = Dealt
  OBVIOUS
<1>5. \A u : Changed(u, n)' = Changed(u, n) /\ (Shut(u, n)' <=> Shut(u, n))
  BY <1>1, SameLog
<1>6. StatesInv'
  BY <1>1, <1>2, <1>3, <1>4, <1>5 DEF StatesInv
<1>7. WritersInv'
  <2>1. CASE pc' = "done"
    BY <1>1, <1>2, <1>3, <1>4, <1>5, <2>1 DEF WritersInv
  <2>2. CASE pc' = "aborted" /\ UNCHANGED writer
    BY <1>1, <1>2, <1>3, <1>4, <1>5, <2>2 DEF WritersInv, Opening
  <2> QED
    BY <1>1, <2>1, <2>2
<1>8. StatementInv'
  BY <1>1, <1>2 DEF StatementInv
<1>9. FlightInv' /\ Waiting' = Waiting
  <2>1. Rows \subseteq Rows'
    BY <1>1, SameLog
  <2> QED
    BY <1>1, <1>2, <2>1, SameFlight DEF Accounted
<1>10. SettledInv'
  BY <1>1, <1>9, SettledAlike DEF Accounted
<1> QED
  BY <1>6, <1>7, <1>8, <1>9, <1>10 DEF Accounted

(* A row that is written is in its file, and nothing leaves a file.        *)
LEMMA PutGrows ==
  ASSUME TypeInv, PlaceInv, NEW t \in Table, NEW row \in Nat, Put(t, row)
  PROVE  /\ \A u \in Table : \A k \in 1..Len(files[u]) :
              k \in 1..Len(files'[u]) /\ Range(files[u][k]) \subseteq Range(files'[u][k])
         /\ state[t] + 1 \in 1..Len(files'[t]) /\ row \in Range(files'[t][state[t] + 1])
<1> DEFINE s == files[t]
           n == state[t] + 1
           q == s[n]
           h == Append(q, row)
<1>1. s \in Seq(Seq(Nat)) /\ Len(s) = n /\ n \in 1..n
  <2>1. s \in Seq(Seq(Nat)) /\ state[t] \in Int /\ state[t] >= -1
    BY DEF TypeInv, TablesType, Absent
  <2>2. state[t] # Absent /\ Len(s) = n
    BY DEF Put, PlaceInv
  <2> QED
    BY <2>1, <2>2 DEF Absent
<1>2. q \in Seq(Nat)
  BY <1>1, ElementOfSeq
<1>3. h \in Seq(Nat) /\ Range(h) = Range(q) \cup {row}
  <2> HIDE DEF q
  <2>1. h \in Seq(Nat)
    BY <1>2, AppendProperties
  <2>2. Range(Append(q, row)) = Range(q) \cup {row}
    BY <1>2, AppendRising
  <2> QED
    BY <2>1, <2>2
<1>4. files' = [files EXCEPT ![t] = [s EXCEPT ![n] = h]]
  BY DEF Put
<1>5. files'[t] = [s EXCEPT ![n] = h] /\ \A u \in Table : u # t => files'[u] = files[u]
  BY <1>4 DEF TypeInv, TablesType
<1>6. s = files[t] /\ n = state[t] + 1
  OBVIOUS
<1> HIDE DEF s, n, q, h
<1>7. Len(files'[t]) = n /\ \A j \in 1..n : files'[t][j] = IF j = n THEN h ELSE s[j]
  BY <1>1, <1>3, <1>5, ExceptSeq
<1> QED
  BY <1>1, <1>3, <1>5, <1>6, <1>7 DEF q

(* While the HashMap rehashes, the rows in flight are astray.              *)
LEMMA Resizing ==
  ASSUME MainType, StatementInv, pc = "resize",
         NEW row, log[row].kind = "rows", Near(row, Len(log) + 1), row \in Nat
  PROVE  Rehashed(row)
<1>1. PICK n \in Nat : n = Len(log)
  BY DEF MainType
<1>2. /\ n \in DOMAIN log /\ log[n].kind \in {"create", "alter", "fails"}
      /\ Cardinality(Keys(n)) \in ResizeAt /\ Keys(n) # Keys(n - 1)
  <2>1. log # <<>>
    BY DEF StatementInv
  <2>2. Len(log) \in 1..Len(log) /\ Last(log) = log[Len(log)] /\ DOMAIN log = 1..Len(log)
    BY <2>1, LastEvent DEF MainType
  <2> QED
    BY <1>1, <2>2 DEF StatementInv
<1>3. row < n + 1 /\ \A j \in (row + 1)..((n + 1) - 1) : log[j].quiet
  BY <1>1 DEF Near
<1>4. row # n
  BY <1>2
<1>5. /\ row < n /\ n \in (row + 1)..((n + 1) - 1)
      /\ \A j \in (row + 1)..(n - 1) : j \in (row + 1)..((n + 1) - 1)
  BY <1>3, <1>4
<1>6. Near(row, n) /\ log[n].quiet /\ Changes(log[n].table, n)
  BY <1>2, <1>3, <1>5 DEF Near, Changes
<1> QED
  BY <1>2, <1>6 DEF Rehashed

(* A batch holds neighbours among the rows, and no more than BatchSize.    *)
BatchInv ==
  /\ \A B : IsBatch(B) => \A r, x \in B : r < x => Short(r, x)
  /\ Len(procResult) <= BatchSize
  /\ pc # "flush" => Len(procResult) < BatchSize
  /\ \A r \in Range(procResult) : \A x \in Rows : r <= x => x \in Range(procResult)

LEMMA InitBatches == EventDealerAssumption /\ Init => BatchInv
<1> SUFFICES ASSUME EventDealerAssumption, Init PROVE BatchInv
  OBVIOUS
<1>1. /\ Len(procResult) = 0 /\ Range(procResult) = {} /\ Len(backs) = 1 /\ Len(backs[1]) = 0
      /\ BatchSize \in Nat \ {0}
  BY DEF Init, Range, EventDealerAssumption
<1>2. \A B : IsBatch(B) => B = {}
  BY <1>1 DEF IsBatch
<1> QED
  BY <1>1, <1>2 DEF BatchInv

LEMMA BatchesStay ==
  ASSUME BatchInv, NEW lost, Losing(lost), UNCHANGED <<log, procResult>>, pc = "flush" => pc' = "flush"
  PROVE  BatchInv'
<1>1. (\A r, x : Short(r, x)' <=> Short(r, x)) /\ Rows' = Rows
  BY DEF Short, Rows
<1>2. ASSUME NEW B, IsBatch(B)', NEW r \in B, NEW x \in B, r < x PROVE Short(r, x)'
  <2>1. PICK C : IsBatch(C) /\ B \subseteq C
    BY <1>2 DEF Losing
  <2> QED
    BY <1>1, <1>2, <2>1 DEF BatchInv
<1> QED
  BY <1>1, <1>2 DEF BatchInv

LEMMA WriteBackBatched ==
  ASSUME EventDealerAssumption, Sound, BatchInv, WriteBack
  PROVE  BatchInv'
<1>1. UNCHANGED log /\ procResult' = <<>> /\ Losing({})
  BY WriteBackBatches DEF WriteBack, Sound
<1>2. (\A r, x : Short(r, x)' <=> Short(r, x)) /\ BatchSize \in Nat \ {0}
  BY <1>1 DEF Short, EventDealerAssumption
<1>3. ASSUME NEW B, IsBatch(B)', NEW r \in B, NEW x \in B, r < x PROVE Short(r, x)'
  <2>1. PICK C : IsBatch(C) /\ B \subseteq C
    BY <1>1, <1>3 DEF Losing
  <2> QED
    BY <1>2, <1>3, <2>1 DEF BatchInv
<1>4. Len(procResult') = 0 /\ Range(procResult') = {}
  BY <1>1 DEF Range
<1> QED
  BY <1>2, <1>3, <1>4 DEF BatchInv

LEMMA DealRowsBatched ==
  ASSUME EventDealerAssumption, Sound, OrderInv, BatchInv, NEW t \in Table, DealRows(t)
  PROVE  BatchInv'
<1> DEFINE e == [kind |-> "rows", table |-> t, to |-> t, quiet |-> TRUE]
<1>0. PICK n \in Nat : n = Len(log)
  BY DEF Sound, TypeInv, MainType
<1>1. /\ pc = "deal" /\ log' = Append(log, e) /\ log \in Seq(Event) /\ Len(log') = n + 1
      /\ procResult \in Seq(Nat) /\ procResult' = Append(procResult, n + 1)
      /\ UNCHANGED backs /\ e.kind = "rows" /\ MainType /\ QueuesType /\ Waiting \subseteq 1..n
      /\ pc' = IF BatchFull(procResult') THEN "flush" ELSE "deal"
  <2>1. log \in Seq(Event) /\ procResult \in Seq(Nat) /\ MainType /\ QueuesType /\ Waiting \subseteq 1..n
    BY <1>0 DEF Sound, TypeInv, MainType, QueuesType, OrderInv, Numbered
  <2>2. log' = Append(log, e) /\ Len(log') = n + 1
    BY <1>0, <2>1 DEF DealRows
  <2> QED
    BY <1>0, <2>1, <2>2 DEF DealRows
<1> HIDE DEF e
<1>2. /\ log'[n + 1] = e /\ \A i \in 1..n : log'[i] = log[i]
      /\ \A r, x \in 1..n : Short(r, x)' <=> Short(r, x)
  BY <1>0, <1>1, LogGrows
<1>3. n + 1 \in Nat /\ BatchSize \in Nat \ {0} /\ Len(procResult) \in Nat
  BY <1>1 DEF EventDealerAssumption
<1>4. /\ procResult' \in Seq(Nat) /\ Range(procResult') = Range(procResult) \cup {n + 1}
      /\ Len(procResult') = Len(procResult) + 1
  BY <1>1, <1>3, AppendRising, AppendProperties
<1>5. Len(procResult') <= BatchSize /\ (pc' # "flush" => Len(procResult') < BatchSize)
  <2>1. Len(procResult) < BatchSize
    BY <1>1 DEF BatchInv
  <2> QED
    BY <1>1, <1>3, <1>4, <2>1 DEF BatchFull
<1>6. ASSUME NEW x \in Rows' PROVE x \in Rows \/ x = n + 1
  <2>1. DOMAIN log = 1..n /\ DOMAIN log' = 1..(n + 1)
    BY <1>0, <1>1, AppendProperties, LenProperties
  <2> QED
    BY <1>2, <2>1 DEF Rows
<1>7. Rows \subseteq 1..n /\ Range(procResult) \subseteq 1..n
  <2>1. DOMAIN log = 1..n
    BY <1>0, <1>1, LenProperties
  <2> QED
    BY <1>1, <2>1, WaitingIs DEF Rows, Waiting
<1>8. \A r \in Range(procResult') : \A x \in Rows' : r <= x => x \in Range(procResult')
  <2>1. ASSUME NEW r \in Range(procResult'), NEW x \in Rows', r <= x PROVE x \in Range(procResult')
    <3>1. CASE x = n + 1
      BY <1>4, <3>1
    <3>2. CASE x \in Rows
      <4>1. r # n + 1
        BY <1>7, <2>1, <3>2
      <4> QED
        BY <1>4, <2>1, <3>2, <4>1 DEF BatchInv
    <3> QED
      BY <1>6, <3>1, <3>2
  <2> QED
    BY <2>1
<1>9. IsFiniteSet(Range(procResult')) /\ Cardinality(Range(procResult')) <= BatchSize
      /\ Cardinality(Range(procResult')) \in Nat
  <2> DEFINE f == procResult'
             k == Len(f)
             R == Range(f)
  <2>1. f \in [1..k -> R] /\ R = {f[i] : i \in 1..k} /\ k \in Nat
    <3>1. f \in Seq(Nat)
      BY <1>4
    <3> HIDE DEF f
    <3>2. DOMAIN f = 1..k /\ k \in Nat /\ R = {f[i] : i \in 1..k} /\ f \in [1..k -> Nat]
      BY <3>1, LenProperties, RangeIs
    <3> QED
      BY <3>2
  <2>2. f \in Surjection(1..k, R)
    <3> HIDE DEF f, R
    <3> QED
      BY <2>1 DEF Surjection
  <2>3. IsFiniteSet(R) /\ Cardinality(R) <= Cardinality(1..k) /\ Cardinality(1..k) = k
    <3> HIDE DEF f, R, k
    <3>1. IsFiniteSet(1..k) /\ Cardinality(1..k) = k
      <4>1. k \in Int /\ 1 \in Int
        BY <2>1
      <4>2. IsFiniteSet(1..k) /\ Cardinality(1..k) = IF 1 > k THEN 0 ELSE k - 1 + 1
        BY <4>1, FS_Interval
      <4> QED
        BY <2>1, <4>2
    <3> QED
      BY <2>2, <3>1, FS_Surjection
  <2>4. Cardinality(R) \in Nat
    BY <2>3, FS_CardinalityType
  <2> QED
    BY <1>3, <1>5, <2>1, <2>3, <2>4
<1>10. ASSUME NEW r \in Range(procResult') PROVE Short(r, n + 1)'
  <2> DEFINE J == {j \in r..(n + 1) : log'[j].kind = "rows"}
  <2>1. r \in 1..(n + 1)
    BY <1>4, <1>7
  <2>2. J \subseteq Range(procResult')
    <3>1. DOMAIN log' = 1..(n + 1)
      BY <1>1, AppendProperties, LenProperties
    <3>2. \A j \in r..(n + 1) : j \in 1..(n + 1) /\ r <= j
      BY <2>1
    <3>3. \A j \in J : j \in Rows' /\ r <= j
      BY <3>1, <3>2 DEF Rows
    <3> QED
      BY <1>8, <3>3
  <2>3. Cardinality(J) <= Cardinality(Range(procResult')) /\ Cardinality(J) \in Nat
    BY <1>9, <2>2, FS_Subset, FS_CardinalityType
  <2>4. Cardinality(J) <= BatchSize
    <3> HIDE DEF J
    <3> QED
      BY <1>3, <1>9, <2>3
  <2> QED
    BY <2>4 DEF Short
<1>11. ASSUME NEW B, IsBatch(B)', NEW r \in B, NEW x \in B, r < x PROVE Short(r, x)'
  <2>1. IsBatch(B) \/ B = Range(procResult')
    BY <1>1, <1>11 DEF IsBatch
  <2>2. ASSUME NEW C, IsBatch(C), r \in C, x \in C PROVE Short(r, x)'
    <3>1. r \in 1..n /\ x \in 1..n
      BY <1>1, <2>2, WaitingInBatches
    <3> QED
      BY <1>2, <1>11, <2>2, <3>1 DEF BatchInv
  <2>3. CASE B = Range(procResult')
    <3>1. CASE x = n + 1
      BY <1>10, <1>11, <2>3, <3>1
    <3>2. CASE x # n + 1
      <4>1. x \in Range(procResult) /\ r \in Range(procResult)
        BY <1>4, <1>7, <1>11, <2>3, <3>2
      <4>2. IsBatch(Range(procResult))
        BY DEF IsBatch
      <4> QED
        BY <2>2, <4>1, <4>2
    <3> QED
      BY <3>1, <3>2
  <2> QED
    BY <1>11, <2>1, <2>2, <2>3
<1> QED
  BY <1>5, <1>8, <1>11 DEF BatchInv

LEMMA DealQueryBatched ==
  ASSUME Sound, OrderInv, BatchInv, NEW kind, NEW t, NEW to, NEW quiet, Reads(kind, t, to, quiet)
  PROVE  BatchInv'
<1> DEFINE e == [kind |-> kind, table |-> t, to |-> to, quiet |-> quiet]
<1>0. PICK n \in Nat : n = Len(log)
  BY DEF Sound, TypeInv, MainType
<1>1. /\ pc = "deal" /\ log' = Append(log, e) /\ log \in Seq(Event) /\ Len(log') = n + 1
      /\ e.kind # "rows" /\ MainType /\ QueuesType /\ Waiting \subseteq 1..n
      /\ UNCHANGED <<procResult, backs>>
  <2>1. log \in Seq(Event) /\ MainType /\ QueuesType /\ Waiting \subseteq 1..n
    BY <1>0 DEF Sound, TypeInv, MainType, OrderInv, Numbered
  <2>2. log' = Append(log, e) /\ Len(log') = n + 1
    BY <1>0, <2>1 DEF Reads, DealQuery
  <2>3. e.kind # "rows"
    BY DEF Reads, Kind
  <2> QED
    BY <1>0, <2>1, <2>2, <2>3 DEF Reads, DealQuery, queues
<1> HIDE DEF e
<1>2. /\ log'[n + 1] = e /\ \A i \in 1..n : log'[i] = log[i]
      /\ \A r, x \in 1..n : Short(r, x)' <=> Short(r, x)
  BY <1>0, <1>1, LogGrows
<1>3. Rows' = Rows
  <2>1. DOMAIN log = 1..n /\ DOMAIN log' = 1..(n + 1)
    BY <1>0, <1>1, AppendProperties, LenProperties
  <2> QED
    BY <1>1, <1>2, <2>1 DEF Rows
<1>4. ASSUME NEW B, IsBatch(B)', NEW r \in B, NEW x \in B, r < x PROVE Short(r, x)'
  <2>1. IsBatch(B)
    BY <1>1, <1>4 DEF IsBatch
  <2>2. r \in 1..n /\ x \in 1..n
    BY <1>1, <1>4, <2>1, WaitingInBatches
  <2> QED
    BY <1>2, <1>4, <2>1, <2>2 DEF BatchInv
<1> QED
  BY <1>1, <1>3, <1>4 DEF BatchInv

LEMMA BatchesKept ==
  ASSUME EventDealerAssumption, Sound, OrderInv, BatchInv, [Next]_vars
  PROVE  BatchInv'
<1>1. CASE Deal
  <2>1. CASE DealEnd
    <3>1. UNCHANGED <<log, procResult, backs>> /\ pc # "flush"
      BY <2>1 DEF DealEnd, queues
    <3> QED
      BY <3>1, SameBatches, BatchesStay
  <2> QED
    BY <1>1, <2>1, DealIs, DealRowsBatched, DealQueryBatched
<1>2. CASE WriteBack
  BY <1>2, WriteBackBatched
<1>3. CASE AwaitBatches
  <2>1. UNCHANGED <<log, procResult>> /\ pc # "flush"
    BY <1>3 DEF AwaitBatches
  <2> QED
    BY <1>3, <2>1, AwaitBatchesKeeps, BatchesStay DEF Sound
<1>4. CASE AwaitTasks \/ CloseWriter \/ OpenWriter \/ Resized \/ NotHandled \/ Unread \/ CloseAll
            \/ DropDatabase \/ (\E t \in Table : CloseOne(t)) \/ Forget
  <2>1. UNCHANGED <<log, procResult, backs>> /\ pc # "flush"
    BY <1>4 DEF AwaitTasks, CloseWriter, OpenWriter, Resized, NotHandled, Unread, CloseAll, DropDatabase,
                CloseOne, Forget, InQuery, queues
  <2> QED
    BY <2>1, SameBatches, BatchesStay
<1>5. CASE FinishTask
  <2>1. UNCHANGED <<pc, log, procResult, backs>>
    BY <1>5 DEF FinishTask
  <2> QED
    BY <2>1, SameBatches, BatchesStay
<1>6. CASE BackWrite
  <2>1. PICK b \in DOMAIN backs : WriteNext(b) \/ NextBatch(b)
    BY <1>6 DEF BackWrite
  <2>2. UNCHANGED <<pc, log, procResult>>
    BY <2>1 DEF WriteNext, NextBatch
  <2>3. \E lost : Losing(lost)
    BY <2>1, WriteNextOutcome, NextBatchKeeps DEF Sound
  <2> QED
    BY <2>2, <2>3, BatchesStay
<1>7. CASE UNCHANGED vars
  <2>1. UNCHANGED <<pc, log, procResult, backs>>
    BY <1>7 DEF vars, queues
  <2> QED
    BY <2>1, SameBatches, BatchesStay
<1> QED
  BY <1>1, <1>2, <1>3, <1>4, <1>5, <1>6, <1>7 DEF Next, Main

LEMMA WriteNextAccount ==
  ASSUME Sound, Sound', OrderInv, BatchInv, Accounted, NEW b \in DOMAIN backs, WriteNext(b)
  PROVE  Accounted'
<1>1. UNCHANGED <<pc, after, log, state, writer, procResult, unparsed, overrun>>
  BY DEF WriteNext, faults
<1>2. PICK B : \E row \in B :
        /\ IsBatch(B) /\ \A x \in B : x = row \/ row < x
        /\ \/ Losing({row}) /\ (Put(log[row].table, row) \/ (UNCHANGED files /\ Caught(row)))
           \/ Losing(B) /\ UNCHANGED files /\ NullPointer(row)
  BY WriteNextOutcome DEF Sound
<1>3. PICK row \in B :
        /\ IsBatch(B) /\ \A x \in B : x = row \/ row < x
        /\ \/ Losing({row}) /\ (Put(log[row].table, row) \/ (UNCHANGED files /\ Caught(row)))
           \/ Losing(B) /\ UNCHANGED files /\ NullPointer(row)
  BY <1>2
<1>4. /\ StatesInv /\ WritersInv /\ StatementInv /\ FlightInv /\ SettledInv
      /\ TypeInv /\ PlaceInv /\ MainType /\ QueuesType /\ QueuesType'
  BY DEF Accounted, Sound, TypeInv
<1>5. B \subseteq Waiting
  BY <1>3, <1>4, WaitingInBatches
<1>6. PICK lost : /\ Losing(lost)
                  /\ \/ lost = {row} /\ (Put(log[row].table, row) \/ (UNCHANGED files /\ Caught(row)))
                     \/ lost = B /\ UNCHANGED files /\ NullPointer(row)
  BY <1>3
<1>7. Waiting' \subseteq Waiting /\ Waiting \subseteq Waiting' \cup lost
  BY <1>4, <1>6, LosingWaits
<1>8. Dealt' = Dealt /\ Passed' = Passed
  BY <1>1 DEF Dealt, Passed
<1>9. StatesInv' /\ WritersInv'
  BY <1>1, <1>4, <1>8, SameTables
<1>10. StatementInv'
  <2>1. Keys(Len(log))' = Keys(Len(log)) /\ Keys(Len(log) - 1)' = Keys(Len(log) - 1)
    BY <1>1, SameLog
  <2> QED
    BY <1>1, <1>4, <1>8, <2>1 DEF StatementInv
<1>11. FlightInv'
  <2>1. ASSUME NEW r \in Waiting' PROVE r \in overrun' \/ InPlace(r)'
    <3>1. r \in Waiting /\ log[r].table \in Table
      BY <1>7, WaitingIsLogged
    <3>2. CASE r \in overrun
      BY <1>1, <3>2
    <3>3. CASE InPlace(r)
      BY <1>1, <1>8, <3>3, StaysInPlace
    <3> QED
      BY <1>4, <3>1, <3>2, <3>3 DEF FlightInv
  <2>2. ASSUME NEW A, IsBatch(A)' PROVE A \subseteq overrun' \/ A \cap overrun' = {}
    <3>1. A = {} \/ \E C : IsBatch(C) /\ A \subseteq C
      BY <1>6, <2>2 DEF Losing
    <3>2. \A C : IsBatch(C) => C \subseteq overrun \/ C \cap overrun = {}
      BY <1>4 DEF FlightInv
    <3> QED
      BY <1>1, <3>1, <3>2
  <2>3. overrun' \subseteq Rows'
    BY <1>1, <1>4, SameLog DEF FlightInv
  <2> QED
    BY <1>1, <1>4, <1>7, <2>1, <2>2, <2>3 DEF FlightInv
<1>12. log[row].table \in Table /\ row \in Nat /\ row \in Waiting
  BY <1>5, WaitingIsLogged
<1>13. \A u \in Table : \A k \in 1..Len(files[u]) :
         k \in 1..Len(files'[u]) /\ Range(files[u][k]) \subseteq Range(files'[u][k])
  BY <1>4, <1>6, <1>12, PutGrows
<1>14. ASSUME NEW r \in Waiting, r \notin Waiting', log[r].kind = "rows", r \notin overrun
       PROVE  Settled(r)'
  <2>0. r \in 1..Len(log) /\ r \in lost
    BY <1>7, <1>14, WaitingIsLogged
  <2>1. InPlace(r)
    BY <1>4, <1>14 DEF FlightInv
  <2>2. ASSUME Astray(r) PROVE Settled(r)'
    <3>1. Len(log) \in Nat
      BY <1>4 DEF MainType
    <3>2. Astray(r)'
      BY <1>1, <2>0, <2>2, <3>1, StaysAstray
    <3> QED
      BY <3>2 DEF Settled
  <2>3. CASE lost = {row} /\ Put(log[row].table, row)
    <3>1. r = row
      BY <2>0, <2>3
    <3>2. \/ state[log[row].table] + 1 = FileOf(row)
          \/ WriterClosed(row) \/ Overtaken(row) \/ Nameless(row)
      BY <2>1, <3>1 DEF InPlace
    <3>3. CASE state[log[row].table] + 1 = FileOf(row)
      <4>1. /\ state[log[row].table] + 1 \in 1..Len(files'[log[row].table])
            /\ row \in Range(files'[log[row].table][state[log[row].table] + 1])
        BY <1>4, <1>12, <2>3, PutGrows
      <4>2. FileOf(row)' = FileOf(row)
        BY <1>1, SameLog
      <4> QED
        BY <1>1, <3>1, <3>3, <4>1, <4>2 DEF Settled
    <3> QED
      BY <2>2, <3>1, <3>2, <3>3 DEF Astray
  <2>4. CASE lost = {row} /\ Caught(row)
    <3>1. r = row
      BY <2>0, <2>4
    <3> QED
      BY <2>1, <2>2, <2>4, <3>1 DEF Astray, Caught, InPlace
  <2>5. CASE lost = B /\ NullPointer(row)
    <3>1. r \in B /\ B \cap overrun = {}
      BY <1>3, <1>4, <1>14, <2>0, <2>5 DEF FlightInv
    <3>2. InPlace(row)
      BY <1>3, <1>4, <1>12, <3>1 DEF FlightInv
    <3>3. CASE pc = "resize"
      <4>1. r \in Nat /\ log[r].kind = "rows" /\ Near(r, Len(log) + 1)
        BY <1>14, <2>0, <2>1, <3>3 DEF InPlace, Passed
      <4>2. Rehashed(r)
        BY <1>4, <3>3, <4>1, Resizing
      <4> QED
        BY <2>2, <4>2 DEF Astray
    <3>4. CASE pc # "resize"
      <4>1. Nameless(row)
        BY <2>5, <3>2, <3>4 DEF NullPointer, InPlace
      <4>2. CASE r = row
        BY <2>2, <4>1, <4>2 DEF Astray
      <4>3. CASE r # row
        <5>1. row < r /\ row \in 1..(r - 1)
          BY <1>3, <1>12, <2>0, <3>1, <4>3, WaitingIsLogged
        <5>2. Short(row, r)
          BY <1>3, <3>1, <5>1 DEF BatchInv
        <5>3. /\ log[row].kind = "rows" /\ log[row].quiet /\ Near(row, Passed + 1) /\ Near(r, Passed + 1)
          BY <2>1, <3>2 DEF InPlace
        <5>4. Passed \in Nat
          BY <1>4 DEF Passed, Dealt, MainType
        <5>5. /\ \A j \in (row + 1)..((Passed + 1) - 1) : log[j].quiet
              /\ r < Passed + 1
          BY <5>3 DEF Near
        <5>6. \A j \in row..r : j = row \/ j \in (row + 1)..((Passed + 1) - 1)
          BY <1>12, <2>0, <5>4, <5>5
        <5>7. \A j \in row..r : log[j].quiet
          BY <5>3, <5>5, <5>6
        <5>8. LostWith(r)
          BY <4>1, <5>1, <5>2, <5>3, <5>7, LostWithIs
        <5> QED
          BY <2>2, <5>8 DEF Astray
      <4> QED
        BY <4>2, <4>3
    <3> QED
      BY <3>3, <3>4
  <2> QED
    BY <1>6, <2>3, <2>4, <2>5
<1>15. SettledInv'
  <2> SUFFICES ASSUME NEW r \in Rows, r \notin Waiting'
               PROVE  Settled(r)'
    BY <1>1, SameLog DEF SettledInv
  <2>1. CASE r \notin Waiting
    <3>1. Settled(r)
      BY <1>4, <2>1 DEF SettledInv
    <3>2. r \in 1..Len(log) /\ log[r].table \in Table
      BY <1>4, TablesOfEvents DEF Rows, MainType
    <3>3. \A k \in 1..Len(files[log[r].table]) :
            r \in Range(files[log[r].table][k]) /\ k = FileOf(r) =>
              k \in 1..Len(files'[log[r].table]) /\ r \in Range(files'[log[r].table][k])
      BY <1>13, <3>2
    <3> QED
      BY <1>1, <1>4, <3>1, <3>3, StaysSettled
  <2>2. CASE r \in Waiting /\ r \in overrun
    BY <1>1, <2>2 DEF Settled, Astray
  <2>3. CASE r \in Waiting /\ r \notin overrun
    BY <1>14, <2>3 DEF Rows
  <2> QED
    BY <2>1, <2>2, <2>3
<1> QED
  BY <1>9, <1>10, <1>11, <1>15 DEF Accounted

LEMMA AccountKept ==
  ASSUME EventDealerAssumption, Sound, Sound', OrderInv, BatchInv, Accounted, [Next]_vars
  PROVE  Accounted'
<1>1. CASE Deal
  BY <1>1, DealIs, DealRowsAccount, DealQueryAccount, DealEndAccount
<1>2. CASE WriteBack \/ AwaitTasks \/ AwaitBatches
  BY <1>2, WriteBackAccount, AwaitTasksAccount, AwaitBatchesAccount
<1>3. CASE CloseWriter \/ OpenWriter \/ Resized
  BY <1>3, CloseWriterAccount, OpenWriterAccount, ResizedAccount
<1>4. CASE NotHandled \/ Unread
  BY <1>4, UnhandledAccount
<1>5. CASE DropDatabase \/ (\E t \in Table : CloseOne(t)) \/ Forget
  BY <1>5, DropDatabaseAccount, CloseOneAccount, ForgetAccount
<1>6. CASE CloseAll
  BY <1>6, CloseAllAccount
<1>7. CASE FinishTask
  <2>1. /\ UNCHANGED <<pc, after, log, state, writer, files, procResult, backs, overrun>>
        /\ unparsed \subseteq unparsed'
    BY <1>7 DEF FinishTask, tables
  <2>2. Losing({})
    BY <2>1, SameBatches
  <2> QED
    BY <2>1, <2>2, OtherThreadAccount
<1>8. CASE BackWrite
  <2>1. PICK b \in DOMAIN backs : WriteNext(b) \/ NextBatch(b)
    BY <1>8 DEF BackWrite
  <2>2. CASE WriteNext(b)
    BY <2>2, WriteNextAccount
  <2>3. CASE NextBatch(b)
    <3>1. Losing({})
      BY <2>3, NextBatchKeeps DEF Sound
    <3>2. UNCHANGED <<pc, after, log, state, writer, files, procResult, overrun, unparsed>>
      BY <2>3 DEF NextBatch, tables, faults
    <3> QED
      BY <3>1, <3>2, OtherThreadAccount
  <2> QED
    BY <2>1, <2>2, <2>3
<1>9. CASE UNCHANGED vars
  <2>1. UNCHANGED <<pc, after, log, state, writer, files, procResult, backs, overrun, unparsed>>
    BY <1>9 DEF vars, queues, tables, faults
  <2>2. Losing({})
    BY <2>1, SameBatches
  <2> QED
    BY <2>1, <2>2, OtherThreadAccount
<1> QED
  BY <1>1, <1>2, <1>3, <1>4, <1>5, <1>6, <1>7, <1>8, <1>9 DEF Next, Main

LEMMA AccountGives ==
  ASSUME Sound, Accounted
  PROVE  RowsAccounted
<1> SUFFICES ASSUME pc = "done", NEW row \in Rows
             PROVE  LET t == log[row].table
                    IN  \/ \E i \in (row + 1)..Len(log) : DropsDb(DbOf[t], i)
                        \/ Astray(row)
                        \/ Contains(files[t][FileOf(row)], row)
  BY DEF RowsAccounted
<1>1. row \in overrun \/ Settled(row)
  BY DEF Accounted, FlightInv, SettledInv
<1>2. CASE FileOf(row) \in 1..Len(files[log[row].table]) /\ row \in Range(files[log[row].table][FileOf(row)])
  <2> DEFINE s == files[log[row].table]
             f == s[FileOf(row)]
  <2>1. log[row].table \in Table
    BY TablesOfEvents DEF Sound, TypeInv, MainType, Rows
  <2>2. f \in Seq(Nat) /\ row \in Range(f)
    <3>1. s \in Seq(Seq(Nat))
      BY <2>1 DEF Sound, TypeInv, TablesType
    <3> QED
      BY <1>2, <3>1, ElementOfSeq
  <2>3. Contains(f, row)
    <3> HIDE DEF f
    <3> QED
      BY <2>2, RangeIs DEF Contains
  <2> QED
    BY <2>3
<1> QED
  BY <1>1, <1>2 DEF Settled, Astray

(* When the split is done, every row of a table that was not dropped with  *)
(* its database is in the file of its state, but for the causes the code   *)
(* has to lose or misplace it: a quiet statement on its table, or a quiet  *)
(* DROP DATABASE of any database, overtook it; DROP DATABASE of another    *)
(* database had closed its writer; a HashMap rehashed; there was no writer *)
(* for its table's name, or for that of a row in front of it in its batch; *)
(* its task failed; a barrier gave up.  No queue length, batch size,       *)
(* number of threads or order of steps adds another.                       *)
THEOREM EveryRowAccounted == Spec => []RowsAccounted
<1>1. Init => OrderInv /\ Accounted /\ BatchInv
  BY EventDealerAssumption, InitOrder, InitAccount, InitBatches
<1>2. Sound /\ OrderInv /\ [Next]_vars => OrderInv'
  BY EventDealerAssumption, OrderKept
<1>3. Sound /\ OrderInv /\ BatchInv /\ [Next]_vars => BatchInv'
  BY EventDealerAssumption, BatchesKept
<1>4. Sound /\ Sound' /\ OrderInv /\ BatchInv /\ Accounted /\ [Next]_vars => Accounted'
  BY EventDealerAssumption, AccountKept
<1>5. Sound /\ Accounted => RowsAccounted
  BY AccountGives
<1> QED
  BY <1>1, <1>2, <1>3, <1>4, <1>5, TypeAndPlace, PTL DEF Spec

-----------------------------------------------------------------------------
(* The sequential splitter.  Until a row goes astray, every row in flight  *)
(* finds the writer of its table open, and whatever has happened to the    *)
(* main thread: also after an exception ended it.                          *)

(* What a step may do to the log, and what it leaves behind.               *)
LEMMA Onwards ==
  ASSUME EventDealerAssumption, Sound, [Next]_vars
  PROVE  /\ UNCHANGED log \/ \E e : log' = Append(log, e)
         /\ unparsed \subseteq unparsed'
         /\ overrun' = overrun \/ overrun' = overrun \cup Waiting
<1>1. Range(InFlight(backs)) = Waiting
  BY InFlightWaits DEF Sound, TypeInv
<1>2. CASE Deal
  <2>1. ASSUME NEW t \in Table, DealRows(t)
        PROVE  UNCHANGED <<unparsed, overrun>> /\ \E e : log' = Append(log, e)
    BY <2>1 DEF DealRows, faults
  <2>2. ASSUME NEW k, NEW t, NEW to, NEW quiet, Reads(k, t, to, quiet)
        PROVE  UNCHANGED <<unparsed, overrun>> /\ \E e : log' = Append(log, e)
    BY <2>2 DEF Reads, DealQuery, faults
  <2>3. CASE DealEnd
    BY <2>3 DEF DealEnd, faults
  <2> QED
    BY <1>2, <2>1, <2>2, <2>3, DealIs
<1>3. CASE WriteBack \/ AwaitTasks \/ AwaitBatches
  BY <1>1, <1>3 DEF WriteBack, AwaitTasks, AwaitBatches, faults
<1>4. CASE CloseWriter \/ OpenWriter \/ Resized \/ NotHandled \/ Unread \/ CloseAll
            \/ DropDatabase \/ (\E t \in Table : CloseOne(t)) \/ Forget
  BY <1>4 DEF CloseWriter, OpenWriter, Resized, NotHandled, DropDatabase, CloseOne, Forget, Unread, CloseAll, faults
<1>5. CASE FinishTask \/ BackWrite \/ UNCHANGED vars
  BY <1>5 DEF FinishTask, BackWrite, WriteNext, NextBatch, vars, faults
<1> QED
  BY <1>2, <1>3, <1>4, <1>5 DEF Next, Main

(* A row that is not astray after a step was not astray before it; what is *)
(* in flight then finds its writer open.                                   *)
LEMMA Orderly ==
  ASSUME EventDealerAssumption, Sound, Sound', Accounted, Accounted', [Next]_vars, NoneAstray'
  PROVE  NoneAstray /\ overrun = {} /\ overrun' = {}
<1>1. MainType /\ Len(log) \in Nat /\ log \in Seq(Event)
  BY DEF Sound, TypeInv, MainType
<1>2. overrun' = {}
  BY DEF Accounted, FlightInv, NoneAstray, Astray
<1>3. /\ UNCHANGED log \/ \E e : log' = Append(log, e)
      /\ unparsed \subseteq unparsed' /\ overrun \subseteq overrun'
  BY Onwards
<1>4. ASSUME NEW row \in Rows, Astray(row) PROVE FALSE
  <2>1. row \in 1..Len(log) /\ row \in Rows'
    BY <1>1, <1>3, SameRows DEF Rows
  <2>2. Astray(row)'
    BY <1>1, <1>3, <1>4, <2>1, StaysAstray
  <2> QED
    BY <2>1, <2>2 DEF NoneAstray
<1> QED
  BY <1>2, <1>3, <1>4 DEF NoneAstray

LEMMA InFlightOpen ==
  Sound /\ OrderInv /\ Accounted /\ NoneAstray =>
    \A row \in Waiting : /\ row \in Rows /\ row \notin unparsed
                         /\ log[row].table \in Table /\ writer[log[row].table] = "open"
                         /\ ~Opening(log[row].table) /\ state[log[row].table] # Absent
<1> SUFFICES ASSUME Sound, OrderInv, Accounted, NoneAstray, NEW row \in Waiting
             PROVE  /\ row \in Rows /\ row \notin unparsed
                    /\ log[row].table \in Table /\ writer[log[row].table] = "open"
                    /\ ~Opening(log[row].table) /\ state[log[row].table] # Absent
  OBVIOUS
<1>1. row \in 1..Len(log) /\ log[row].table \in Table /\ DOMAIN log = 1..Len(log)
  BY WaitingIsLogged DEF Sound, TypeInv, MainType
<1>2. row \in overrun \/ InPlace(row)
  BY DEF Accounted, FlightInv
<1>3. row \in Rows
  BY <1>1, <1>2 DEF Accounted, FlightInv, InPlace, Rows
<1>4. ~Astray(row)
  BY <1>3 DEF NoneAstray
<1>5. writer[log[row].table] = "open" /\ row \notin unparsed
  BY <1>2, <1>4 DEF InPlace, Astray
<1>6. ~Opening(log[row].table) /\ state[log[row].table] # Absent
  BY <1>1, <1>5 DEF Sound, PlaceInv
<1> QED
  BY <1>1, <1>3, <1>5, <1>6

LEMMA InFlightOpenLater ==
  (Sound /\ OrderInv /\ Accounted /\ NoneAstray =>
    \A row \in Waiting : /\ row \in Rows /\ row \notin unparsed
                         /\ log[row].table \in Table /\ writer[log[row].table] = "open"
                         /\ ~Opening(log[row].table) /\ state[log[row].table] # Absent)'
BY InFlightOpen, PTL

-----------------------------------------------------------------------------
(* What waits for a table.                                                 *)

Picked(L, t, rows) ==
  FlattenSeq([k \in DOMAIN rows |-> IF L[rows[k]].table = t THEN <<rows[k]>> ELSE <<>>])

LEMMA PickedFacts ==
  ASSUME NEW L, NEW t, NEW p \in Seq(Nat), NEW q \in Seq(Nat)
  PROVE  /\ Picked(L, t, p) \in Seq(Nat)
         /\ Picked(L, t, p \o q) = Picked(L, t, p) \o Picked(L, t, q)
<1> DEFINE F(r) == [k \in DOMAIN r |-> IF L[r[k]].table = t THEN <<r[k]>> ELSE <<>>]
<1>1. ASSUME NEW r \in Seq(Nat)
      PROVE  /\ F(r) \in Seq(Seq(Nat)) /\ Len(F(r)) = Len(r)
             /\ \A k \in 1..Len(r) : F(r)[k] = IF L[r[k]].table = t THEN <<r[k]>> ELSE <<>>
  <2>1. Len(r) \in Nat /\ DOMAIN r = 1..Len(r)
    OBVIOUS
  <2>2. \A k \in 1..Len(r) : r[k] \in Nat /\ <<r[k]>> \in Seq(Nat) /\ <<>> \in Seq(Nat)
    BY <2>1
  <2>3. F(r) \in [1..Len(r) -> Seq(Nat)]
    BY <2>1, <2>2
  <2> QED
    BY <2>1, <2>3, FunctionIsSeq
<1>2. Picked(L, t, p) = FlattenSeq(F(p)) /\ Picked(L, t, q) = FlattenSeq(F(q))
      /\ Picked(L, t, p \o q) = FlattenSeq(F(p \o q))
  BY DEF Picked
<1> HIDE DEF F
<1>3. p \o q \in Seq(Nat) /\ Len(p \o q) = Len(p) + Len(q) /\ Len(p) \in Nat /\ Len(q) \in Nat
      /\ \A i \in 1..(Len(p) + Len(q)) : (p \o q)[i] = IF i <= Len(p) THEN p[i] ELSE q[i - Len(p)]
  BY ConcatProperties
<1>4. F(p \o q) = F(p) \o F(q)
  <2> DEFINE a == F(p)
             b == F(q)
             c == F(p \o q)
  <2>1. /\ a \in Seq(Seq(Nat)) /\ Len(a) = Len(p)
        /\ b \in Seq(Seq(Nat)) /\ Len(b) = Len(q)
        /\ c \in Seq(Seq(Nat)) /\ Len(c) = Len(p) + Len(q)
    BY <1>1, <1>3
  <2>2. /\ \A k \in 1..Len(p) : a[k] = IF L[p[k]].table = t THEN <<p[k]>> ELSE <<>>
        /\ \A k \in 1..Len(q) : b[k] = IF L[q[k]].table = t THEN <<q[k]>> ELSE <<>>
        /\ \A k \in 1..(Len(p) + Len(q)) :
             c[k] = IF L[(p \o q)[k]].table = t THEN <<(p \o q)[k]>> ELSE <<>>
    BY <1>1, <1>3
  <2> HIDE DEF a, b, c
  <2>3. a \o b \in Seq(Seq(Nat)) /\ Len(a \o b) = Len(a) + Len(b)
        /\ \A i \in 1..(Len(a) + Len(b)) : (a \o b)[i] = IF i <= Len(a) THEN a[i] ELSE b[i - Len(a)]
    <3>1. a \in Seq(Seq(Nat)) /\ b \in Seq(Seq(Nat))
      BY <2>1
    <3> QED
      BY <3>1, ConcatProperties
  <2>4. ASSUME NEW i \in 1..Len(c) PROVE c[i] = (a \o b)[i]
    <3>1. i \in 1..(Len(p) + Len(q)) /\ i \in 1..(Len(a) + Len(b))
      BY <2>1
    <3>2. CASE i <= Len(p)
      <4>1. (p \o q)[i] = p[i] /\ (a \o b)[i] = a[i] /\ i \in 1..Len(p)
        BY <1>3, <2>1, <2>3, <3>1, <3>2
      <4> QED
        BY <2>2, <3>1, <4>1
    <3>3. CASE ~(i <= Len(p))
      <4>1. i - Len(p) \in 1..Len(q)
        BY <1>3, <3>1, <3>3
      <4>2. (p \o q)[i] = q[i - Len(p)] /\ (a \o b)[i] = b[i - Len(p)]
        BY <1>3, <2>1, <2>3, <3>1, <3>3
      <4> QED
        BY <2>2, <3>1, <4>1, <4>2
    <3> QED
      BY <3>2, <3>3
  <2>5. c = a \o b
    BY <2>1, <2>3, <2>4, SeqEqual
  <2> QED
    BY <2>5 DEF a, b, c
<1>5. F(p) \in Seq(Seq(Nat)) /\ F(q) \in Seq(Seq(Nat))
  BY <1>1
<1>6. FlattenSeq(F(p)) \in Seq(Nat) /\ FlattenSeq(F(p) \o F(q)) = FlattenSeq(F(p)) \o FlattenSeq(F(q))
  BY <1>5, FlattenType, FlattenConcat
<1> QED
  BY <1>2, <1>4, <1>6

LEMMA PickedOne ==
  ASSUME NEW L, NEW t, NEW row \in Nat
  PROVE  Picked(L, t, <<row>>) = IF L[row].table = t THEN <<row>> ELSE <<>>
<1> DEFINE x == IF L[row].table = t THEN <<row>> ELSE <<>>
<1>1. x \in Seq(Nat)
  OBVIOUS
<1>2. [k \in DOMAIN <<row>> |-> IF L[<<row>>[k]].table = t THEN <<(<<row>>)[k]>> ELSE <<>>] = <<x>>
  OBVIOUS
<1>3. Picked(L, t, <<row>>) = FlattenSeq(<<x>>)
  BY <1>2 DEF Picked
<1> HIDE DEF x
<1>4. FlattenSeq(<<x>>) = x
  BY <1>1, FlattenSingle
<1> QED
  BY <1>3, <1>4 DEF x

LEMMA PickedNone ==
  ASSUME NEW L, NEW t, NEW p \in Seq(Nat), \A k \in 1..Len(p) : L[p[k]].table # t
  PROVE  Picked(L, t, p) = <<>>
<1> DEFINE f == [k \in DOMAIN p |-> IF L[p[k]].table = t THEN <<p[k]>> ELSE <<>>]
<1>1. \A k \in DOMAIN p : f[k] = <<>>
  OBVIOUS
<1>2. DOMAIN p = 1..Len(p) /\ Len(p) \in Nat /\ <<>> \in Seq(Nat)
  OBVIOUS
<1>3. f \in [1..Len(p) -> Seq(Nat)]
  BY <1>1, <1>2
<1>4. Picked(L, t, p) = FlattenSeq(f)
  BY DEF Picked
<1> HIDE DEF f
<1>5. f \in Seq(Seq(Nat)) /\ Len(f) = Len(p)
  BY <1>2, <1>3, FunctionIsSeq
<1>6. FlattenSeq(f) = <<>>
  BY <1>1, <1>2, <1>5, FlattenNothing
<1> QED
  BY <1>4, <1>6

(* The same rows, of a log that has grown.                                 *)
LEMMA PickedLater ==
  ASSUME NEW L, NEW M, NEW t, NEW p \in Seq(Nat), \A k \in 1..Len(p) : M[p[k]].table = L[p[k]].table
  PROVE  Picked(M, t, p) = Picked(L, t, p)
<1> DEFINE f == [k \in DOMAIN p |-> IF L[p[k]].table = t THEN <<p[k]>> ELSE <<>>]
           g == [k \in DOMAIN p |-> IF M[p[k]].table = t THEN <<p[k]>> ELSE <<>>]
<1>1. DOMAIN p = 1..Len(p)
  OBVIOUS
<1>2. f = g
  BY <1>1
<1>3. Picked(L, t, p) = FlattenSeq(f) /\ Picked(M, t, p) = FlattenSeq(g)
  BY DEF Picked
<1> QED
  BY <1>2, <1>3, Zenon

LEMMA NothingInRange ==
  ASSUME NEW q \in Seq(Nat), Range(q) = {}
  PROVE  q = <<>>
<1>1. Len(q) \in Nat /\ \A i \in 1..Len(q) : q[i] \in Range(q)
  BY RangeIs
<1>2. Len(q) = 0
  BY <1>1
<1> QED
  BY <1>2, EmptySeq

(* Only the newest back-writer has rows, as long as no barrier gave up.    *)
LEMMA OneQueue ==
  TypeInv /\ OrderInv /\ overrun = {} =>
    /\ Queue(Len(backs)) \in Seq(Nat) /\ procResult \in Seq(Nat)
    /\ InFlight(backs) \in Seq(Nat) /\ Range(InFlight(backs)) = Waiting
    /\ InFlight(backs) = Queue(Len(backs)) \o procResult
    /\ \A b \in 1..Len(backs) : b # Len(backs) => Queue(b) = <<>>
<1> SUFFICES ASSUME TypeInv, OrderInv, overrun = {}
             PROVE  /\ Queue(Len(backs)) \in Seq(Nat) /\ procResult \in Seq(Nat)
                    /\ InFlight(backs) \in Seq(Nat) /\ Range(InFlight(backs)) = Waiting
                    /\ InFlight(backs) = Queue(Len(backs)) \o procResult
                    /\ \A b \in 1..Len(backs) : b # Len(backs) => Queue(b) = <<>>
  OBVIOUS
<1>1. QueuesType /\ procResult \in Seq(Nat) /\ backs \in Seq(Seq(Seq(Nat))) /\ backs # <<>>
  BY DEF TypeInv, QueuesType
<1>2. \A b \in 1..Len(backs) : backs[b] \in Seq(Seq(Nat)) /\ Queue(b) \in Seq(Nat)
  BY <1>1, QueueType
<1> DEFINE s == backs
           n == Len(s)
           f == Front(s)
           l == Last(s)
<1>3. /\ n \in 1..n /\ f \in Seq(Seq(Seq(Nat))) /\ Len(f) = n - 1 /\ l \in Seq(Seq(Nat))
      /\ \A i \in 1..(n - 1) : f[i] = s[i]
      /\ l = s[n] /\ s = Append(f, l)
  BY <1>1, LastOf, FrontAndLast
<1>4. ASSUME NEW b \in 1..n, b # n PROVE Queue(b) = <<>>
  <2>1. Range(Queue(b)) = {}
    BY <1>4 DEF OrderInv, QueuesInv
  <2>2. Queue(b) \in Seq(Nat)
    BY <1>2
  <2> DEFINE q == Queue(b)
  <2>3. q \in Seq(Nat) /\ Range(q) = {}
    BY <2>1, <2>2
  <2> HIDE DEF q
  <2>4. q = <<>>
    BY <2>3, NothingInRange
  <2> QED
    BY <2>4 DEF q
<1> DEFINE F == FlattenSeq(f)
           L == FlattenSeq(l)
<1>5. L = Queue(n)
  BY <1>3 DEF Queue
<1>6. F \in Seq(Seq(Nat)) /\ FlattenSeq(s) = F \o l
  <2> HIDE DEF f, l, s
  <2> QED
    BY <1>3, FlattenType, FlattenAppend
<1>7. FlattenSeq(F) = <<>>
  <2> HIDE DEF F
  <2> SUFFICES ASSUME NEW k \in 1..Len(F) PROVE F[k] = <<>>
    BY <1>6, FlattenNothing
  <2>1. F[k] \in Range(F) /\ F[k] \in Seq(Nat)
    BY <1>6, RangeIs
  <2> DEFINE y == F[k]
  <2>2. y \in Range(F) /\ y \in Seq(Nat)
    BY <2>1
  <2> HIDE DEF y
  <2>3. PICK i \in 1..Len(f) : y \in Range(f[i])
    <3> HIDE DEF f
    <3> QED
      BY <1>3, <2>2, FlattenMember DEF F
  <2>4. i \in 1..n /\ i # n /\ f[i] = s[i]
    <3> HIDE DEF f, s, n
    <3> QED
      BY <1>3
  <2>5. FlattenSeq(s[i]) = <<>> /\ s[i] \in Seq(Seq(Nat)) /\ y \in Range(s[i])
    BY <1>2, <1>4, <2>3, <2>4 DEF Queue
  <2>6. PICK j \in 1..Len(s[i]) : s[i][j] = y
    <3> DEFINE z == s[i]
    <3>1. z \in Seq(Seq(Nat)) /\ y \in Range(z)
      BY <2>5
    <3> HIDE DEF z
    <3>2. Range(z) = {z[j] : j \in 1..Len(z)}
      BY <3>1, RangeIs
    <3>3. \E j \in 1..Len(z) : z[j] = y
      BY <3>1, <3>2
    <3> QED
      BY <3>3 DEF z
  <2>7. y = <<>>
    BY <2>5, <2>6, FlattenNothing
  <2> QED
    BY <2>7 DEF y
<1>8. FlattenSeq(F \o l) = FlattenSeq(F) \o L
  <2> HIDE DEF F, l
  <2> QED
    BY <1>3, <1>6, FlattenConcat DEF L
<1>9. Queue(n) \in Seq(Nat)
  BY <1>2, <1>3
<1>10. <<>> \o Queue(n) = Queue(n)
  BY <1>9, ConcatEmptySeq
<1>11. InFlight(backs) = Queue(n) \o procResult
  <2>1. FlattenSeq(FlattenSeq(backs)) = Queue(n)
    BY <1>5, <1>6, <1>7, <1>8, <1>10, Zenon
  <2> QED
    BY <2>1 DEF InFlight
<1>12. Queue(n) \o procResult \in Seq(Nat)
  BY <1>1, <1>9, ConcatProperties
<1> QED
  BY <1>1, <1>4, <1>9, <1>11, <1>12, InFlightWaits

LEMMA OneQueueLater ==
  (TypeInv /\ OrderInv /\ overrun = {} =>
    /\ Queue(Len(backs)) \in Seq(Nat) /\ procResult \in Seq(Nat)
    /\ InFlight(backs) \in Seq(Nat) /\ Range(InFlight(backs)) = Waiting
    /\ InFlight(backs) = Queue(Len(backs)) \o procResult
    /\ \A b \in 1..Len(backs) : b # Len(backs) => Queue(b) = <<>>)'
BY OneQueue, PTL

(* The rows of a table that are in flight.                                 *)
Owed(t) == Picked(log, t, InFlight(backs))

LEMMA SplitFilesAre ==
  /\ SplitFiles = [t \in Table |-> SplitFiles[t]]
  /\ \A t \in Table :
       SplitFiles[t] = IF state[t] = Absent THEN <<>>
                       ELSE IF Opening(t) THEN SubSeq(files[t], 1, state[t])
                       ELSE Append(Front(files[t]), Last(files[t]) \o Owed(t))
BY DEF SplitFiles, Opening, Owed, RowsOf, Picked

LEMMA SplitFilesLater ==
  (/\ SplitFiles = [t \in Table |-> SplitFiles[t]]
   /\ \A t \in Table :
       SplitFiles[t] = IF state[t] = Absent THEN <<>>
                       ELSE IF Opening(t) THEN SubSeq(files[t], 1, state[t])
                       ELSE Append(Front(files[t]), Last(files[t]) \o Owed(t)))'
BY SplitFilesAre, PTL

(* A step that touches neither the files nor what is owed to them.         *)
LEMMA NothingSplit ==
  ASSUME UNCHANGED <<state, files>>,
         \A t \in Table : Owed(t)' = Owed(t) /\ (Opening(t)' <=> Opening(t))
  PROVE  SplitFiles' = SplitFiles
<1>1. \A t \in Table : SplitFiles'[t] = SplitFiles[t]
  BY SplitFilesAre, SplitFilesLater
<1> QED
  BY <1>1, SplitFilesAre, SplitFilesLater

LEMMA SameOwed ==
  ASSUME UNCHANGED <<log, backs, procResult>>
  PROVE  \A t : Owed(t)' = Owed(t)
BY DEF Owed, InFlight

(* Before and after a step that leads no row astray.                       *)
Straight == Sound /\ OrderInv /\ Accounted /\ NoneAstray /\ overrun = {}

LEMMA StraightFlight ==
  ASSUME Straight
  PROVE  /\ InFlight(backs) \in Seq(Nat)
         /\ \A k \in 1..Len(InFlight(backs)) :
              InFlight(backs)[k] \in Waiting /\ InFlight(backs)[k] \in 1..Len(log)
         /\ \A t \in Table : Owed(t) \in Seq(Nat)
<1>1. InFlight(backs) \in Seq(Nat) /\ Range(InFlight(backs)) = Waiting
  BY OneQueue DEF Straight, Sound
<1> DEFINE q == InFlight(backs)
<1>2. q \in Seq(Nat) /\ Range(q) = Waiting
  BY <1>1
<1> HIDE DEF q
<1>3. \A k \in 1..Len(q) : q[k] \in Waiting
  BY <1>2, RangeIs
<1>4. \A k \in 1..Len(q) : q[k] \in 1..Len(log)
  BY <1>3, WaitingIsLogged DEF Straight
<1>5. \A t \in Table : Picked(log, t, q) \in Seq(Nat)
  BY <1>2, PickedFacts
<1> QED
  BY <1>2, <1>3, <1>4, <1>5 DEF q, Owed

LEMMA ThreeInARow ==
  ASSUME NEW a \in Seq(Nat), NEW b \in Seq(Nat), NEW c \in Seq(Nat)
  PROVE  (a \o b) \o c = a \o (b \o c)
BY ConcatAssociative, SMTT(30)

LEMMA AppendInside ==
  ASSUME NEW a \in Seq(Nat), NEW b \in Seq(Nat), NEW n \in Nat
  PROVE  a \o (b \o <<n>>) = Append(a \o b, n) /\ Append(a, n) \o b = a \o (<<n>> \o b)
<1> DEFINE w == <<n>>
<1>1. w \in Seq(Nat) /\ a \o b \in Seq(Nat)
  OBVIOUS
<1>2. Append(a \o b, n) = (a \o b) \o w /\ Append(a, n) = a \o w
  BY <1>1, AppendIsConcat
<1> HIDE DEF w
<1>3. (a \o b) \o w = a \o (b \o w) /\ (a \o w) \o b = a \o (w \o b)
  BY <1>1, ThreeInARow
<1> QED
  BY <1>2, <1>3 DEF w

(* The log grows: what waited for a table still does.                      *)
LEMMA OwedRead ==
  ASSUME Straight, NEW e, log' = Append(log, e)
  PROVE  \E q \in Seq(Nat) : /\ q = InFlight(backs)
                             /\ \A t \in Table : Owed(t) = Picked(log, t, q) /\ Picked(log', t, q) = Picked(log, t, q)
<1>1. PICK q \in Seq(Nat) : q = InFlight(backs)
  BY StraightFlight
<1>2. \A k \in 1..Len(q) : q[k] \in 1..Len(log)
  BY <1>1, StraightFlight
<1>3. log \in Seq(Event) /\ Len(log) \in Nat
  BY DEF Straight, Sound, TypeInv, MainType
<1>4. \A i \in 1..Len(log) : log'[i] = log[i]
  BY <1>3, LogGrows
<1>5. \A t \in Table : Picked(log', t, q) = Picked(log, t, q)
  BY <1>2, <1>4, PickedLater
<1> QED
  BY <1>1, <1>5 DEF Owed

LEMMA DealRowsSplits ==
  ASSUME Straight, Straight', NEW t \in Table, DealRows(t)
  PROVE  Split!Row(t)
<1> DEFINE n == Len(log) + 1
           e == [kind |-> "rows", table |-> t, to |-> t, quiet |-> TRUE]
<1>1. /\ log' = Append(log, e) /\ pc = "deal" /\ pc' # "open"
      /\ procResult' = Append(procResult, Len(log')) /\ UNCHANGED <<backs, state, files>>
  BY DEF DealRows, tables
<1>2. log \in Seq(Event) /\ Len(log) \in Nat /\ e.table = t /\ e.kind = "rows"
  BY DEF Straight, Sound, TypeInv, MainType
<1> HIDE DEF e
<1>3. Len(log)' = n /\ log'[n] = e /\ n \in Nat /\ procResult' = Append(procResult, n)
  <2>1. Len(log') = Len(log) + 1 /\ log'[Len(log) + 1] = e
    BY <1>1, <1>2, LogGrows
  <2> QED
    BY <1>1, <1>2, <2>1
<1>0. state[t] # Absent
  <2>1. PICK m \in Nat : m = Len(log)
    BY <1>2
  <2>2. PICK k \in Nat : k = n /\ k = m + 1 /\ k - 1 = m /\ m \in 0..m
    BY <2>1
  <2> HIDE DEF n
  <2>3. k \in Rows'
    <3>1. DOMAIN log' = 1..k /\ k \in 1..k
      BY <1>1, <1>2, <1>3, <2>1, <2>2, AppendProperties, LenProperties
    <3> QED
      BY <1>2, <1>3, <2>2, <3>1 DEF Rows
  <2>4. ~Nameless(k)'
    BY <2>3 DEF Straight, NoneAstray, Astray
  <2>5. FileOf(k)' # 0
    BY <2>4 DEF Nameless
  <2>6. FileOf(k)' = Cardinality(Changed(t, m)')
    <3>1. log'[k].table = t
      BY <1>2, <1>3, <2>2
    <3> QED
      BY <2>2, <3>1 DEF FileOf
  <2>7. Changed(t, m)' = Changed(t, m)
    BY <1>1, <1>2, <2>1, <2>2, LogGrows
  <2>8. Dealt = m
    BY <1>1, <2>1 DEF Dealt
  <2>9. state[t] + 1 = Cardinality(Changed(t, m))
    BY <1>1, <2>8 DEF Straight, Accounted, StatesInv
  <2> QED
    BY <2>5, <2>6, <2>7, <2>9 DEF Absent
<1> HIDE DEF n
<1>4. PICK q \in Seq(Nat) : /\ q = InFlight(backs)
                           /\ \A u \in Table : Owed(u) = Picked(log, u, q) /\ Picked(log', u, q) = Picked(log, u, q)
  BY <1>1, OwedRead
<1>5. PICK r \in Seq(Nat) : r = InFlight(backs)'
  <2>1. InFlight(backs)' \in Seq(Nat)
    BY OneQueueLater DEF Straight, Sound
  <2> QED
    BY <2>1
<1>6. r = q \o <<n>>
  <2> DEFINE X == FlattenSeq(FlattenSeq(backs))
             P == procResult
  <2>1. X \in Seq(Nat) /\ P \in Seq(Nat)
    <3>1. backs \in Seq(Seq(Seq(Nat))) /\ P \in Seq(Nat)
      BY DEF Straight, Sound, TypeInv, QueuesType
    <3>2. FlattenSeq(backs) \in Seq(Seq(Nat))
      BY <3>1, FlattenType
    <3> QED
      BY <3>1, <3>2, FlattenType
  <2>2. q = X \o P /\ r = X \o Append(P, n)
    BY <1>1, <1>3, <1>4, <1>5 DEF InFlight
  <2> HIDE DEF X, P
  <2>3. Append(P, n) = P \o <<n>> /\ <<n>> \in Seq(Nat)
    BY <1>3, <2>1, AppendIsConcat
  <2>4. (X \o P) \o <<n>> = X \o (P \o <<n>>)
    BY <2>1, <2>3, ThreeInARow
  <2> QED
    BY <2>2, <2>3, <2>4
<1>7. ASSUME NEW u \in Table
      PROVE  Owed(u)' = Owed(u) \o (IF u = t THEN <<n>> ELSE <<>>)
  <2>1. Owed(u)' = Picked(log', u, r)
    BY <1>5 DEF Owed
  <2>2. <<n>> \in Seq(Nat)
    BY <1>3
  <2>3. Picked(log', u, r) = Picked(log', u, q) \o Picked(log', u, <<n>>)
    BY <1>6, <2>2, PickedFacts
  <2>4. Picked(log', u, <<n>>) = IF log'[n].table = u THEN <<n>> ELSE <<>>
    BY <1>3, PickedOne
  <2> QED
    BY <1>2, <1>3, <1>4, <2>1, <2>3, <2>4
<1>8. ASSUME NEW u \in Table PROVE ~Opening(u) /\ ~Opening(u)'
  BY <1>1 DEF Opening
<1>9. ASSUME NEW u \in Table, u # t PROVE SplitFiles'[u] = SplitFiles[u]
  <2>1. Owed(u)' = Owed(u)
    <3>1. Owed(u) \in Seq(Nat)
      BY StraightFlight
    <3>2. Owed(u) \o <<>> = Owed(u)
      BY <3>1, ConcatEmptySeq
    <3> QED
      BY <1>7, <1>9, <3>2
  <2> QED
    BY <1>1, <1>8, <2>1, SplitFilesAre, SplitFilesLater
<1>10. /\ SplitFiles[t] # <<>>
       /\ SplitFiles'[t] = Append(Front(SplitFiles[t]), Append(Last(SplitFiles[t]), n))
  <2> DEFINE f == files[t]
             a == Front(f)
             l == Last(f)
             o == Owed(t)
  <2>1. f \in Seq(Seq(Nat)) /\ f # <<>>
    <3>1. f \in Seq(Seq(Nat)) /\ Len(f) = state[t] + 1 /\ state[t] \in Int /\ state[t] >= Absent
      BY <1>0, <1>1, <1>8 DEF Straight, Sound, TypeInv, TablesType, PlaceInv
    <3>2. Len(f) # 0
      BY <1>0, <3>1 DEF Absent
    <3> QED
      BY <3>1, <3>2, EmptySeq
  <2>2. a \in Seq(Seq(Nat)) /\ l \in Seq(Nat)
    <3> HIDE DEF f
    <3> QED
      BY <2>1, FrontAndLast
  <2>3. o \in Seq(Nat)
    BY StraightFlight
  <2>4. SplitFiles[t] = Append(a, l \o o)
    BY <1>0, <1>1, <1>8, SplitFilesAre
  <2>5. SplitFiles'[t] = Append(a, l \o (o \o <<n>>))
    <3>1. Owed(t)' = o \o <<n>>
      BY <1>7
    <3> QED
      BY <1>0, <1>1, <1>8, <3>1, SplitFilesLater
  <2> HIDE DEF f, a, l, o
  <2>6. <<n>> \in Seq(Nat) /\ l \o o \in Seq(Nat)
    BY <1>3, <2>2, <2>3
  <2>7. l \o (o \o <<n>>) = Append(l \o o, n)
    BY <1>3, <2>2, <2>3, AppendInside
  <2>8. /\ Append(a, l \o o) # <<>>
        /\ Front(Append(a, l \o o)) = a /\ Last(Append(a, l \o o)) = l \o o
    BY <2>2, <2>6, FrontOfAppend
  <2> QED
    BY <2>4, <2>5, <2>7, <2>8
<1>11. SplitFiles' = [SplitFiles EXCEPT ![t] = Append(Front(@), Append(Last(@), n))]
  <2>1. \A u \in Table :
          SplitFiles'[u] = IF u = t THEN Append(Front(SplitFiles[t]), Append(Last(SplitFiles[t]), n))
                           ELSE SplitFiles[u]
    BY <1>9, <1>10
  <2>2. SplitFiles' = [u \in Table |-> SplitFiles'[u]] /\ SplitFiles = [u \in Table |-> SplitFiles[u]]
    BY SplitFilesAre, SplitFilesLater
  <2> QED
    BY <2>1, <2>2
<1>12. Len(log)' = Len(log) + 1
  BY <1>3 DEF n
<1> QED
  BY <1>3, <1>10, <1>11, <1>12 DEF Split!Row, Split!Front, Split!Last, Front, Last

LEMMA DealQuerySplits ==
  ASSUME Straight, NEW kind, NEW t, NEW to, NEW quiet, Reads(kind, t, to, quiet)
  PROVE  Split!Query
<1> DEFINE e == [kind |-> kind, table |-> t, to |-> to, quiet |-> quiet]
<1>1. /\ log' = Append(log, e) /\ pc = "deal" /\ pc' # "open"
      /\ UNCHANGED <<procResult, backs, state, files>>
  BY DEF Reads, DealQuery, queues, tables
<1>2. log \in Seq(Event) /\ Len(log) \in Nat
  BY DEF Straight, Sound, TypeInv, MainType
<1> HIDE DEF e
<1>3. Len(log)' = Len(log) + 1
  BY <1>1, <1>2, LogGrows
<1>4. PICK q \in Seq(Nat) :
        /\ q = InFlight(backs)
        /\ \A u \in Table : Owed(u) = Picked(log, u, q) /\ Picked(log', u, q) = Picked(log, u, q)
  BY <1>1, OwedRead
<1>5. q = InFlight(backs)'
  BY <1>1, <1>4 DEF InFlight
<1>6. \A u \in Table : Owed(u)' = Owed(u) /\ (Opening(u)' <=> Opening(u))
  BY <1>1, <1>4, <1>5 DEF Owed, Opening
<1>7. SplitFiles' = SplitFiles
  BY <1>1, <1>6, NothingSplit
<1> QED
  BY <1>3, <1>7 DEF Split!Query

(* The barriers: the rows only move from procResult to a batch.            *)
LEMMA WriteBackSplits ==
  ASSUME Straight, WriteBack
  PROVE  UNCHANGED <<Len(log), SplitFiles>>
<1>1. /\ backs' = Submitted(backs, procResult) /\ procResult' = <<>>
      /\ UNCHANGED <<log, state, files>> /\ pc # "open" /\ pc' # "open"
  BY DEF WriteBack, tables
<1>2. /\ backs \in Seq(Seq(Seq(Nat))) /\ backs # <<>> /\ procResult \in Seq(Nat)
  BY DEF Straight, Sound, TypeInv, QueuesType
<1>3. FlattenSeq(backs') = Append(FlattenSeq(backs), procResult) /\ FlattenSeq(backs) \in Seq(Seq(Nat))
  <2>1. Submitted(backs, procResult) = Grown(backs, procResult)
    BY DEF Submitted, Grown
  <2>2. FlattenSeq(Grown(backs, procResult)) = Append(FlattenSeq(backs), procResult)
    BY <1>2, FlattenGrows
  <2> QED
    BY <1>1, <1>2, <2>1, <2>2, FlattenType
<1>4. /\ FlattenSeq(FlattenSeq(backs')) = FlattenSeq(FlattenSeq(backs)) \o procResult
      /\ FlattenSeq(FlattenSeq(backs)) \o procResult \in Seq(Nat)
  <2>1. FlattenSeq(FlattenSeq(backs)) \in Seq(Nat)
    BY <1>3, FlattenType
  <2> QED
    BY <1>2, <1>3, <2>1, FlattenAppend, ConcatProperties
<1>5. InFlight(backs)' = InFlight(backs)
  <2> DEFINE X == FlattenSeq(FlattenSeq(backs)) \o procResult
  <2>1. X \in Seq(Nat)
    BY <1>4
  <2>2. InFlight(backs) = X /\ InFlight(backs)' = X \o <<>>
    BY <1>1, <1>4 DEF InFlight
  <2> HIDE DEF X
  <2>3. X \o <<>> = X
    BY <2>1, ConcatEmptySeq
  <2> QED
    BY <2>2, <2>3
<1>6. \A t \in Table : Owed(t)' = Owed(t) /\ (Opening(t)' <=> Opening(t))
  BY <1>1, <1>5 DEF Owed, Opening
<1> QED
  BY <1>1, <1>6, NothingSplit

LEMMA AwaitBatchesSplits ==
  ASSUME Straight, AwaitBatches
  PROVE  UNCHANGED <<Len(log), SplitFiles>>
<1>1. /\ backs' = Replaced(backs) /\ pc' = after
      /\ UNCHANGED <<log, state, files, procResult>> /\ pc # "open"
  BY DEF AwaitBatches, tables
<1>2. /\ backs \in Seq(Seq(Seq(Nat))) /\ backs # <<>> /\ pc' # "open"
  BY <1>1 DEF Straight, Sound, TypeInv, QueuesType, MainType
<1>3. FlattenSeq(backs') = FlattenSeq(backs)
  <2>1. CASE backs' = backs
    BY <2>1
  <2>2. CASE backs' = Append(backs, <<>>)
    <3>1. <<>> \in Seq(Seq(Nat)) /\ FlattenSeq(backs) \in Seq(Seq(Nat))
      BY <1>2, FlattenType
    <3>2. FlattenSeq(Append(backs, <<>>)) = FlattenSeq(backs) \o <<>>
      BY <1>2, <3>1, FlattenAppend
    <3>3. FlattenSeq(backs) \o <<>> = FlattenSeq(backs)
      BY <3>1, ConcatEmptySeq
    <3> QED
      BY <2>2, <3>2, <3>3
  <2> QED
    BY <1>1, <2>1, <2>2 DEF Replaced
<1>4. InFlight(backs)' = InFlight(backs)
  BY <1>1, <1>3 DEF InFlight
<1>5. \A t \in Table : Owed(t)' = Owed(t) /\ (Opening(t)' <=> Opening(t))
  BY <1>1, <1>2, <1>4 DEF Owed, Opening
<1> QED
  BY <1>1, <1>5, NothingSplit

LEMMA OtherMainSplits ==
  ASSUME \/ DealEnd \/ AwaitTasks \/ Resized \/ NotHandled \/ Unread \/ CloseAll
         \/ DropDatabase \/ \E t \in Table : CloseOne(t)
  PROVE  UNCHANGED <<Len(log), SplitFiles>>
<1>1. UNCHANGED <<log, backs, procResult, state, files>> /\ pc # "open" /\ pc' # "open"
  BY DEF DealEnd, AwaitTasks, Resized, WriteDDLCompat, NotHandled, Unread, CloseAll, DropDatabase, CloseOne,
         InQuery, queues, tables
<1>2. \A t \in Table : Owed(t)' = Owed(t) /\ (Opening(t)' <=> Opening(t))
  BY <1>1, SameOwed DEF Opening
<1> QED
  BY <1>1, <1>2, NothingSplit

(* While a table waits for its new file, none of its rows are in flight.   *)
LEMMA NothingOwed ==
  Straight => \A t \in Table : (\A row \in Waiting : log[row].table # t) => Owed(t) = <<>>
<1> SUFFICES ASSUME Straight, NEW t \in Table, \A row \in Waiting : log[row].table # t
             PROVE  Owed(t) = <<>>
  OBVIOUS
<1>1. PICK q \in Seq(Nat) : q = InFlight(backs)
  BY StraightFlight
<1>2. \A k \in 1..Len(q) : q[k] \in Waiting
  BY <1>1, StraightFlight
<1>3. Picked(log, t, q) = <<>>
  BY <1>2, PickedNone
<1> QED
  BY <1>1, <1>3 DEF Owed

LEMMA OpeningOwesNothing ==
  Straight => \A t \in Table : Opening(t) => Owed(t) = <<>>
<1> SUFFICES ASSUME Straight, NEW t \in Table, Opening(t) PROVE Owed(t) = <<>>
  OBVIOUS
<1>1. \A row \in Waiting : log[row].table # t
  BY InFlightOpen DEF Straight
<1> QED
  BY <1>1, NothingOwed

LEMMA OpeningOwesNothingLater ==
  (Straight => \A t \in Table : Opening(t) => Owed(t) = <<>>)'
BY OpeningOwesNothing, PTL

LEMMA CloseWriterSplits ==
  ASSUME Straight, Straight', CloseWriter
  PROVE  UNCHANGED <<Len(log), SplitFiles>>
<1>1. /\ MainType /\ log # <<>> /\ pc = "query" /\ pc' = "open"
      /\ UNCHANGED <<log, backs, procResult, files>>
  BY DEF CloseWriter, InQuery, queues, Straight, Sound, TypeInv, MainType
<1>2. PICK t \in Table : t = Last(log).table
  BY <1>1, LastEvent
<1>3. state' = [state EXCEPT ![t] = @ + 1] /\ state \in [Table -> {n \in Int : n >= Absent}]
  BY <1>2 DEF CloseWriter, Straight, Sound, TypeInv, TablesType
<1>4. \A u \in Table : Owed(u)' = Owed(u) /\ ~Opening(u) /\ (Opening(u)' <=> u = t)
  BY <1>1, <1>2, SameOwed DEF Opening
<1>5. Owed(t) = <<>>
  BY <1>4, OpeningOwesNothingLater
<1>6. SplitFiles'[t] = SubSeq(files[t], 1, state[t] + 1)
  <2>1. state'[t] = state[t] + 1 /\ state'[t] # Absent /\ files' = files
    BY <1>1, <1>3 DEF Absent
  <2> QED
    BY <1>4, <2>1, SplitFilesLater
<1>7. SplitFiles[t] = SubSeq(files[t], 1, state[t] + 1)
  <2>1. CASE state[t] = Absent
    <3>1. state[t] + 1 = 0
      BY <2>1 DEF Absent
    <3>2. files[t] \in Seq(Seq(Nat))
      BY DEF Straight, Sound, TypeInv, TablesType
    <3>3. SubSeq(files[t], 1, 0) = <<>>
      BY <3>2
    <3> QED
      BY <2>1, <3>1, <3>3, SplitFilesAre
  <2>2. CASE state[t] # Absent
    <3> DEFINE f == files[t]
    <3>1. f \in Seq(Seq(Nat)) /\ Len(f) = state[t] + 1 /\ state[t] + 1 # 0
      BY <1>3, <1>4, <2>2 DEF Straight, Sound, TypeInv, TablesType, PlaceInv, Absent
    <3>2. SplitFiles[t] = Append(Front(f), Last(f) \o <<>>)
      BY <1>4, <1>5, <2>2, SplitFilesAre
    <3> HIDE DEF f
    <3>3. Last(f) \in Seq(Nat) /\ f = Append(Front(f), Last(f))
      BY <3>1, FrontAndLast, EmptySeq
    <3>4. Last(f) \o <<>> = Last(f)
      BY <3>3, ConcatEmptySeq
    <3>5. SubSeq(f, 1, Len(f)) = f
      BY <3>1
    <3>6. SplitFiles[t] = f
      BY <3>2, <3>3, <3>4
    <3> QED
      BY <3>1, <3>5, <3>6 DEF f
  <2> QED
    BY <2>1, <2>2
<1>8. ASSUME NEW u \in Table, u # t PROVE SplitFiles'[u] = SplitFiles[u]
  <2>1. state'[u] = state[u] /\ files'[u] = files[u]
    BY <1>1, <1>3, <1>8
  <2> QED
    BY <1>4, <1>8, <2>1, SplitFilesAre, SplitFilesLater
<1>9. SplitFiles' = SplitFiles
  <2>1. \A u \in Table : SplitFiles'[u] = SplitFiles[u]
    BY <1>6, <1>7, <1>8
  <2> QED
    BY <2>1, SplitFilesAre, SplitFilesLater
<1> QED
  BY <1>1, <1>9

LEMMA OpenWriterSplits ==
  ASSUME Straight, OpenWriter
  PROVE  \E t \in Table : Split!Change(t)
<1>1. PICK t \in Table :
        /\ t = Last(log).table /\ state[t] \in 0..Len(files[t])
        /\ files[t] \in Seq(Seq(Nat))
        /\ SubSeq(files[t], 1, state[t]) \in Seq(Seq(Nat))
        /\ Len(SubSeq(files[t], 1, state[t])) = state[t]
        /\ writer' = [writer EXCEPT ![t] = "open"]
        /\ files' = [files EXCEPT ![t] = Append(SubSeq(files[t], 1, state[t]), <<>>)]
        /\ pc = "open" /\ pc' \in {"resize", "deal", "aborted"}
        /\ UNCHANGED <<after, log, queues, state, known, faults>>
  BY OpenWriterFacts DEF Straight, Sound
<1>2. /\ UNCHANGED <<log, backs, procResult, state>> /\ state[t] # Absent
      /\ files \in [Table -> Seq(Seq(Nat))]
  BY <1>1 DEF queues, Absent, Straight, Sound, TypeInv, TablesType
<1>3. \A u \in Table : Owed(u)' = Owed(u) /\ (Opening(u) <=> u = t) /\ ~Opening(u)'
  BY <1>1, <1>2, SameOwed DEF Opening
<1>4. Owed(t) = <<>>
  BY <1>3, OpeningOwesNothing
<1> DEFINE f == SubSeq(files[t], 1, state[t])
<1>5. SplitFiles[t] = f
  BY <1>2, <1>3, SplitFilesAre
<1>6. SplitFiles'[t] = Append(f, <<>>)
  <2>1. files'[t] = Append(f, <<>>) /\ f \in Seq(Seq(Nat)) /\ <<>> \in Seq(Nat)
    BY <1>1, <1>2
  <2>2. SplitFiles'[t] = Append(Front(files'[t]), Last(files'[t]) \o <<>>)
    BY <1>2, <1>3, <1>4, SplitFilesLater
  <2> HIDE DEF f
  <2>3. Front(Append(f, <<>>)) = f /\ Last(Append(f, <<>>)) = <<>>
    BY <2>1, FrontOfAppend
  <2>4. <<>> \o <<>> = <<>>
    OBVIOUS
  <2> QED
    BY <2>1, <2>2, <2>3, <2>4
<1> HIDE DEF f
<1>7. ASSUME NEW u \in Table, u # t PROVE SplitFiles'[u] = SplitFiles[u]
  <2>1. files'[u] = files[u]
    BY <1>1, <1>2, <1>7
  <2> QED
    BY <1>2, <1>3, <1>7, <2>1, SplitFilesAre, SplitFilesLater
<1>8. SplitFiles' = [SplitFiles EXCEPT ![t] = Append(@, <<>>)]
  <2>1. \A u \in Table : SplitFiles'[u] = IF u = t THEN Append(SplitFiles[t], <<>>) ELSE SplitFiles[u]
    BY <1>5, <1>6, <1>7
  <2>2. SplitFiles' = [u \in Table |-> SplitFiles'[u]] /\ SplitFiles = [u \in Table |-> SplitFiles[u]]
    BY SplitFilesAre, SplitFilesLater
  <2> QED
    BY <2>1, <2>2
<1>9. UNCHANGED Len(log)
  BY <1>2
<1> QED
  BY <1>8, <1>9 DEF Split!Change

LEMMA ForgetSplits ==
  ASSUME EventDealerAssumption, Straight, Forget
  PROVE  \E d \in Database : Split!Drop(d)
<1>1. /\ MainType /\ log # <<>> /\ pc = "drop" /\ pc' = "deal"
      /\ UNCHANGED <<log, backs, procResult, files>>
  BY DEF Forget, queues, Straight, Sound, TypeInv, MainType
<1>2. PICK d \in Database : d = DbOf[Last(log).table]
  BY <1>1, LastEvent, EventDealerAssumption DEF EventDealerAssumption
<1>3. state' = [t \in Table |-> IF DbOf[t] = d THEN Absent ELSE state[t]]
  BY <1>2 DEF Forget
<1>4. \A u \in Table : Owed(u)' = Owed(u) /\ ~Opening(u) /\ ~Opening(u)'
  BY <1>1, SameOwed DEF Opening
<1>5. \A u \in Table : SplitFiles'[u] = IF DbOf[u] = d THEN <<>> ELSE SplitFiles[u]
  <2> TAKE u \in Table
  <2>1. state'[u] = IF DbOf[u] = d THEN Absent ELSE state[u]
    BY <1>3
  <2> QED
    BY <1>1, <1>4, <2>1, SplitFilesAre, SplitFilesLater
<1>6. SplitFiles' = [u \in Table |-> IF DbOf[u] = d THEN <<>> ELSE SplitFiles[u]]
  <2>1. SplitFiles' = [u \in Table |-> SplitFiles'[u]]
    BY SplitFilesLater
  <2> QED
    BY <1>5, <2>1
<1>7. UNCHANGED Len(log)
  BY <1>1
<1> QED
  BY <1>6, <1>7 DEF Split!Drop

-----------------------------------------------------------------------------
(* The other threads.                                                      *)

LEMMA QuietSplits ==
  ASSUME FinishTask \/ UNCHANGED vars
  PROVE  UNCHANGED <<Len(log), SplitFiles>>
<1>1. UNCHANGED <<pc, log, backs, procResult, state, files>>
  BY DEF FinishTask, vars, queues, tables
<1>2. \A t \in Table : Owed(t)' = Owed(t) /\ (Opening(t)' <=> Opening(t))
  BY <1>1, SameOwed DEF Opening
<1> QED
  BY <1>1, <1>2, NothingSplit

LEMMA QueueTypeLater == (QueuesType => \A b \in 1..Len(backs) : Queue(b) \in Seq(Nat))'
<1>1. QueuesType => \A b \in 1..Len(backs) : Queue(b) \in Seq(Nat)
  BY QueueType
<1> QED
  BY <1>1, PTL

LEMMA NextBatchSplits ==
  ASSUME Straight, Straight', NEW b \in DOMAIN backs, NextBatch(b)
  PROVE  UNCHANGED <<Len(log), SplitFiles>>
<1>1. UNCHANGED <<pc, log, procResult, state, files>>
  BY DEF NextBatch, tables
<1>2. /\ Len(backs') = Len(backs) /\ Len(backs) \in 1..Len(backs)
      /\ \A e \in 1..Len(backs) : Queue(e)' = Queue(e)
  BY NextBatchTakesNothing, LastOf DEF Straight, Sound, TypeInv, QueuesType
<1>3. InFlight(backs) = Queue(Len(backs)) \o procResult
  BY OneQueue DEF Straight, Sound
<1>4. InFlight(backs)' = Queue(Len(backs))' \o procResult'
  BY OneQueueLater DEF Straight, Sound
<1>5. PICK n \in 1..Len(backs) : n = Len(backs)
  BY <1>2
<1>6. Queue(Len(backs))' = Queue(n)'
  BY <1>2, <1>5 DEF Queue
<1>7. InFlight(backs)' = InFlight(backs)
  BY <1>1, <1>2, <1>3, <1>4, <1>5, <1>6
<1>8. \A t \in Table : Owed(t)' = Owed(t) /\ (Opening(t)' <=> Opening(t))
  BY <1>1, <1>7 DEF Owed, Opening
<1> QED
  BY <1>1, <1>8, NothingSplit

(* An exception of the back-writer would lead a row astray.                *)
LEMMA NoNullPointer ==
  ASSUME Straight, NEW row \in Waiting
  PROVE  ~Caught(row) /\ ~NullPointer(row)
<1>1. row \notin unparsed /\ writer[log[row].table] = "open" /\ row \in Rows /\ row \notin overrun
  BY InFlightOpen DEF Straight
<1>2. ~Astray(row)
  BY <1>1 DEF Straight, NoneAstray
<1>3. ASSUME pc = "resize" PROVE FALSE
  <2>1. Accounted /\ StatementInv /\ InPlace(row) /\ MainType
    BY <1>1, <1>3 DEF Accounted, FlightInv, Straight, Sound, TypeInv
  <2>2. Near(row, Len(log) + 1) /\ log[row].kind = "rows"
    BY <1>3, <2>1 DEF InPlace, Passed
  <2>3. Rehashed(row)
    BY <1>3, <2>1, <2>2, Resizing, WaitingIsLogged DEF Straight
  <2> QED
    BY <1>2, <2>3 DEF Astray
<1> QED
  BY <1>1, <1>3 DEF Caught, NullPointer

LEMMA WriteNextSplits ==
  ASSUME Straight, Straight', NEW b \in DOMAIN backs, WriteNext(b)
  PROVE  UNCHANGED <<Len(log), SplitFiles>>
<1>1. UNCHANGED <<pc, log, procResult, state>>
  BY DEF WriteNext
<1>2. PICK row \in Nat : Taken(b, row) /\ Written(b, row)
  BY WriteNextTakes DEF Straight, Sound
<1>3. /\ backs \in Seq(Seq(Seq(Nat))) /\ b \in 1..Len(backs) /\ Len(backs') = Len(backs)
      /\ QueuesType /\ QueuesType'
  <2>1. QueuesType /\ QueuesType'
    BY DEF Straight, Sound, TypeInv
  <2>2. backs \in Seq(Seq(Seq(Nat))) /\ b \in 1..Len(backs)
    BY <2>1 DEF QueuesType
  <2> QED
    BY <1>2, <2>1, <2>2 DEF Taken
<1>4. row \in Waiting
  <2>1. PICK p \in Seq(Nat) : p # <<>> /\ p[1] = row /\ Queue(b) = p \o Queue(b)'
    BY <1>2 DEF Taken
  <2>2. Queue(b) \in Seq(Nat)
    BY <1>3, QueueType
  <2>3. PICK r \in Seq(Nat) : r = Queue(b)'
    <3>1. \A e \in 1..Len(backs') : Queue(e)' \in Seq(Nat)
      BY QueueTypeLater, <1>3
    <3> QED
      BY <1>3, <3>1
  <2>4. row \in Range(p)
    <3>1. Len(p) \in Nat /\ Len(p) # 0
      BY <2>1, EmptySeq
    <3> QED
      BY <2>1, <3>1, RangeIs
  <2>5. row \in Range(Queue(b))
    BY <2>1, <2>3, <2>4, RangeConcatenation
  <2> QED
    BY <1>3, <2>5, WaitingIs
<1>5. Put(log[row].table, row) /\ Queue(b) = <<row>> \o Queue(b)'
  BY <1>2, <1>4, NoNullPointer DEF Written
<1>6. PICK t \in Table : /\ t = log[row].table /\ state[t] # Absent /\ ~Opening(t)
  BY <1>4, InFlightOpen DEF Straight
<1>7. InFlight(backs) = <<row>> \o InFlight(backs)' /\ InFlight(backs)' \in Seq(Nat)
  <2>1. PICK n \in 1..Len(backs) : n = Len(backs)
    BY <1>3
  <2>2. /\ InFlight(backs) = Queue(n) \o procResult /\ procResult \in Seq(Nat)
        /\ \A e \in 1..Len(backs) : e # n => Queue(e) = <<>>
    BY <2>1, OneQueue DEF Straight, Sound
  <2>3. /\ InFlight(backs)' = Queue(n)' \o procResult /\ InFlight(backs)' \in Seq(Nat)
        /\ Queue(n)' \in Seq(Nat)
    <3>1. /\ InFlight(backs)' = Queue(Len(backs))' \o procResult' /\ InFlight(backs)' \in Seq(Nat)
          /\ Queue(Len(backs))' \in Seq(Nat)
      BY OneQueueLater DEF Straight, Sound
    <3>2. Queue(Len(backs))' = Queue(n)'
      BY <1>3, <2>1 DEF Queue
    <3> QED
      BY <1>1, <3>1, <3>2
  <2>4. b = n
    <3>1. row \in Waiting /\ Queue(b) # <<>>
      <4>1. PICK r \in Seq(Nat) : r = Queue(b)'
        <5>1. \A e \in 1..Len(backs') : Queue(e)' \in Seq(Nat)
          BY QueueTypeLater, <1>3
        <5> QED
          BY <1>3, <5>1
      <4>2. <<row>> \o r # <<>>
        BY <4>1
      <4> QED
        BY <1>4, <1>5, <4>1, <4>2
    <3> QED
      BY <1>3, <2>2, <3>1
  <2>5. PICK r \in Seq(Nat) : r = Queue(n)'
    BY <2>3
  <2>6. InFlight(backs) = (<<row>> \o r) \o procResult /\ InFlight(backs)' = r \o procResult
    BY <1>5, <2>2, <2>3, <2>4, <2>5
  <2>7. <<row>> \in Seq(Nat)
    OBVIOUS
  <2>8. (<<row>> \o r) \o procResult = <<row>> \o (r \o procResult)
    BY <2>2, <2>7, ThreeInARow
  <2> QED
    BY <2>3, <2>6, <2>8
<1>8. PICK q \in Seq(Nat) : q = InFlight(backs)'
  BY <1>7
<1>9. \A u \in Table : /\ Owed(u)' \in Seq(Nat)
                       /\ Owed(u) = (IF u = t THEN <<row>> ELSE <<>>) \o Owed(u)'
  <2> TAKE u \in Table
  <2>1. Owed(u)' = Picked(log, u, q)
    BY <1>1, <1>8 DEF Owed
  <2>2. Owed(u) = Picked(log, u, <<row>> \o q)
    BY <1>7, <1>8 DEF Owed
  <2>3. <<row>> \in Seq(Nat)
    OBVIOUS
  <2>4. Picked(log, u, <<row>> \o q) = Picked(log, u, <<row>>) \o Picked(log, u, q)
        /\ Picked(log, u, q) \in Seq(Nat)
    BY <2>3, PickedFacts
  <2>5. Picked(log, u, <<row>>) = IF u = t THEN <<row>> ELSE <<>>
    BY <1>6, PickedOne
  <2> QED
    BY <2>1, <2>2, <2>4, <2>5
<1>10. \A u \in Table : Opening(u)' <=> Opening(u)
  BY <1>1 DEF Opening
<1>11. /\ \A u \in Table : u # t => files'[u] = files[u]
       /\ files[t] \in Seq(Seq(Nat)) /\ files[t] # <<>>
       /\ files'[t] = Append(Front(files[t]), Append(Last(files[t]), row))
  BY <1>5, <1>6, PutFacts DEF Straight, Sound
<1>12. ASSUME NEW u \in Table, u # t PROVE SplitFiles'[u] = SplitFiles[u]
  <2>1. Owed(u)' = Owed(u)
    <3>1. Owed(u) = <<>> \o Owed(u)' /\ Owed(u)' \in Seq(Nat)
      BY <1>9, <1>12
    <3> QED
      BY <3>1, ConcatEmptySeq
  <2>2. files'[u] = files[u] /\ state'[u] = state[u] /\ (Opening(u)' <=> Opening(u))
    BY <1>1, <1>10, <1>11, <1>12
  <2> QED
    BY <2>1, <2>2, SplitFilesAre, SplitFilesLater
<1>13. SplitFiles'[t] = SplitFiles[t]
  <2> DEFINE f == files[t]
             a == Front(f)
             l == Last(f)
  <2>1. PICK o \in Seq(Nat) : o = Owed(t)' /\ Owed(t) = <<row>> \o o
    BY <1>9
  <2>2. a \in Seq(Seq(Nat)) /\ l \in Seq(Nat)
    <3>1. f \in Seq(Seq(Nat)) /\ f # <<>>
      BY <1>11
    <3> HIDE DEF f
    <3> QED
      BY <3>1, FrontAndLast
  <2>3. SplitFiles[t] = Append(a, l \o (<<row>> \o o))
    <3>1. SplitFiles[t] = Append(a, l \o Owed(t))
      BY <1>6, SplitFilesAre
    <3> HIDE DEF a, l
    <3> QED
      BY <2>1, <3>1
  <2>4. files'[t] = Append(a, Append(l, row))
    BY <1>11
  <2>5. SplitFiles'[t] = Append(Front(files'[t]), Last(files'[t]) \o o)
    BY <1>1, <1>6, <1>10, <2>1, SplitFilesLater
  <2> HIDE DEF f, a, l
  <2>6. Append(l, row) \in Seq(Nat) /\ Append(l, row) = l \o <<row>> /\ <<row>> \in Seq(Nat)
    BY <2>2, AppendIsConcat
  <2>7. Front(files'[t]) = a /\ Last(files'[t]) = Append(l, row)
    <3> DEFINE y == Append(l, row)
    <3>1. y \in Seq(Nat) /\ files'[t] = Append(a, y)
      BY <2>4, <2>6
    <3> HIDE DEF y
    <3>2. Front(Append(a, y)) = a /\ Last(Append(a, y)) = y
      BY <2>2, <3>1, FrontOfAppend
    <3> QED
      BY <3>1, <3>2 DEF y
  <2>8. Append(l, row) \o o = l \o (<<row>> \o o)
    BY <2>1, <2>2, <2>6, AppendInside
  <2> QED
    BY <2>3, <2>5, <2>7, <2>8
<1>14. SplitFiles' = SplitFiles
  <2>1. \A u \in Table : SplitFiles'[u] = SplitFiles[u]
    BY <1>12, <1>13
  <2> QED
    BY <2>1, SplitFilesAre, SplitFilesLater
<1> QED
  BY <1>1, <1>14

-----------------------------------------------------------------------------
LEMMA InitSplits == Init => Split!Init
<1> SUFFICES ASSUME Init PROVE Split!Init
  OBVIOUS
<1>1. Len(log) = 0
  BY DEF Init
<1>2. SplitFiles = [t \in Table |-> <<>>]
  BY SplitFilesAre DEF Init
<1> QED
  BY <1>1, <1>2 DEF Split!Init

LEMMA StepSplits ==
  ASSUME EventDealerAssumption, Sound, Sound', OrderInv, OrderInv', Accounted, Accounted',
         [Next]_vars, NoneAstray'
  PROVE  Split!Next \/ UNCHANGED <<Len(log), SplitFiles>>
<1>1. Straight /\ Straight'
  BY Orderly DEF Straight
<1>2. CASE Deal /\ ~DealEnd
  BY <1>1, <1>2, DealIs, DealRowsSplits, DealQuerySplits DEF Split!Next
<1>3. CASE WriteBack \/ AwaitBatches \/ CloseWriter
  BY <1>1, <1>3, WriteBackSplits, AwaitBatchesSplits, CloseWriterSplits
<1>4. CASE \/ DealEnd \/ AwaitTasks \/ Resized \/ NotHandled \/ Unread \/ CloseAll
           \/ DropDatabase \/ \E t \in Table : CloseOne(t)
  BY <1>4, OtherMainSplits
<1>5. CASE OpenWriter \/ Forget
  BY <1>1, <1>5, OpenWriterSplits, ForgetSplits DEF Split!Next
<1>6. CASE FinishTask \/ UNCHANGED vars
  BY <1>6, QuietSplits
<1>7. CASE BackWrite
  BY <1>1, <1>7, WriteNextSplits, NextBatchSplits DEF BackWrite
<1> QED
  BY <1>2, <1>3, <1>4, <1>5, <1>6, <1>7 DEF Next, Main

(* The code implements the sequential splitter: whatever the order of its  *)
(* threads, the lengths of their queues and the hours that pass, what is   *)
(* in the files and what is in flight change together as if every row went *)
(* to its file when it was read, as long as no row goes astray.            *)
THEOREM SplitsLikeTheSequentialOne == Spec => SequentialSplit
<1>1. Init => OrderInv /\ Accounted /\ BatchInv /\ Split!Init
  BY EventDealerAssumption, InitOrder, InitAccount, InitBatches, InitSplits
<1>2. Sound /\ OrderInv /\ [Next]_vars => OrderInv'
  BY EventDealerAssumption, OrderKept
<1>3. Sound /\ OrderInv /\ BatchInv /\ [Next]_vars => BatchInv'
  BY EventDealerAssumption, BatchesKept
<1>4. Sound /\ Sound' /\ OrderInv /\ BatchInv /\ Accounted /\ [Next]_vars => Accounted'
  BY EventDealerAssumption, AccountKept
<1>5. Sound /\ Sound' /\ OrderInv /\ OrderInv' /\ Accounted /\ Accounted' /\ [Next]_vars
      => [NoneAstray' => Split!Next]_<<Len(log), SplitFiles>>
  BY EventDealerAssumption, StepSplits
<1> QED
  BY <1>1, <1>2, <1>3, <1>4, <1>5, TypeAndPlace, PTL DEF Spec, SequentialSplit
=============================================================================
