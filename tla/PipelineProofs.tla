--------------------------- MODULE PipelineProofs ---------------------------
(***************************************************************************)
(* Proofs about Pipeline, for any number of tables, threads, batches,      *)
(* deaths and refusals.                                                    *)
(***************************************************************************)
EXTENDS Pipeline, FiniteSetTheorems, SequenceTheorems, TLAPS

LEMMA Constants ==
  /\ IsFiniteSet(Table) /\ Threads \in Nat \ {0}
  /\ BatchCount \in [Table -> Nat] /\ MaxFaults \in Nat
BY PipelineAssumption DEF PipelineAssumption

-----------------------------------------------------------------------------
(* Type correctness, variable group by variable group.                     *)

DiskType ==
  /\ finished \subseteq Source \cup {Both} /\ bin \in [Source -> Extent]
  /\ dat \in [Source -> Extent] /\ csv \in [Table -> Extent]

TargetType == target \in [Table -> [made : BOOLEAN, from : Extent, rows : Seq(Nat)]]

MainType ==
  /\ pc \in {"start", "source", "fetch", "split", "mark", "jvm", "load", "work", "dump",
             "join", "delete", "exit"}
  /\ source \in 0..Both /\ todo \subseteq Table /\ current \subseteq Table

LingerType == lingering \in BOOLEAN

PushersType ==
  /\ posted \in Seq(Table) /\ step \in [Table -> {"idle", "posted", "done"} \cup Steps]
  /\ sent \in [Table -> Nat] /\ \A t \in Table : sent[t] <= BatchCount[t]

PoolType ==
  /\ sqlPool \in BOOLEAN
  /\ opened \in Nat /\ free \subseteq 1..opened /\ held \in [Table -> {Connecting} \cup 0..opened]

FaultsType ==
  /\ swallowed \subseteq Source /\ refused \subseteq Table
  /\ crashes \in Nat /\ refusals \in Nat /\ crashes + refusals <= MaxFaults

LEMMA TypeParts ==
  TypeOK <=> DiskType /\ TargetType /\ MainType /\ LingerType /\ PushersType /\ PoolType /\ FaultsType
BY DEF TypeOK, DiskType, TargetType, MainType, LingerType, PushersType, PoolType, FaultsType

LEMMA TypePartsPrimed ==
  TypeOK' <=> /\ DiskType' /\ TargetType' /\ MainType' /\ LingerType'
              /\ PushersType' /\ PoolType' /\ FaultsType'
BY DEF TypeOK, DiskType, TargetType, MainType, LingerType, PushersType, PoolType, FaultsType

LEMMA TypeKept ==
  ASSUME TypeOK
  PROVE  /\ UNCHANGED disk => DiskType'
         /\ UNCHANGED target => TargetType'
         /\ UNCHANGED main => MainType' /\ LingerType'
         /\ UNCHANGED <<posted, step, sent>> => PushersType'
         /\ UNCHANGED pool => PoolType'
         /\ UNCHANGED faults => FaultsType'
<1> USE TypeParts
<1>1. UNCHANGED disk => DiskType' BY DEF disk, DiskType
<1>2. UNCHANGED target => TargetType' BY DEF TargetType
<1>3. UNCHANGED main => MainType' /\ LingerType' BY DEF main, MainType, LingerType
<1>4. UNCHANGED <<posted, step, sent>> => PushersType' BY DEF PushersType
<1>5. UNCHANGED pool => PoolType' BY DEF pool, PoolType
<1>6. UNCHANGED faults => FaultsType' BY DEF faults, FaultsType
<1> QED BY <1>1, <1>2, <1>3, <1>4, <1>5, <1>6

LEMMA InitType == Init => TypeOK
<1> SUFFICES ASSUME Init PROVE TypeOK
  OBVIOUS
<1>1. DiskType BY DEF Init, DiskType, Extent
<1>2. TargetType BY Constants DEF Init, TargetType, Extent, NoTable
<1>3. MainType BY DEF Init, MainType, Both
<1>7. LingerType BY DEF Init, LingerType
<1>4. PushersType BY Constants DEF Init, PushersType, Steps
<1>5. PoolType BY DEF Init, PoolType, Connecting
<1>6. FaultsType BY Constants DEF Init, FaultsType
<1> QED
  BY <1>1, <1>2, <1>3, <1>4, <1>5, <1>6, <1>7, TypeParts

(* The source that evokeFetch is on is one of the two, not yet marked.     *)
Phase ==
  /\ pc \in {"source", "fetch", "split", "mark"} => Both \notin finished
  /\ pc \in {"fetch", "split", "mark"} => source \in Source \ finished

LEMMA FetchType == TypeOK /\ Phase /\ Fetch => TypeOK'
<1> SUFFICES ASSUME TypeOK, Phase, Fetch PROVE TypeOK'
  OBVIOUS
<1> USE DEF EvokeFetchAll, SkipSource, BeginFetch, EndFetch, EndSplit, Mark, MarkBoth, DestroyJVM
<1>1. DiskType'
  <2>1. CASE UNCHANGED disk
    BY <2>1, TypeKept
  <2>2. CASE BeginFetch
    BY <2>2, TypeParts DEF DiskType, Extent
  <2>3. CASE EndFetch
    BY <2>3, TypeParts DEF DiskType, Extent, MarksAfterFetch
  <2>4. CASE EndSplit
    BY <2>4, TypeParts DEF DiskType, Extent
  <2>5. CASE Mark \/ MarkBoth
    BY <2>5, TypeParts DEF DiskType, Phase, Source, Both
  <2> QED
    BY <2>1, <2>2, <2>3, <2>4, <2>5 DEF Fetch
<1>2. MainType'
  <2>1. CASE SkipSource \/ Mark
    BY <2>1, TypeParts DEF MainType, Phase, Source, Both
  <2>2. CASE ~(SkipSource \/ Mark)
    BY <2>2, TypeParts DEF Fetch, MainType
  <2> QED
    BY <2>1, <2>2
<1>3. FaultsType'
  <2>1. CASE EndSplit
    BY <2>1, TypeParts DEF FaultsType, Phase
  <2>2. CASE ~EndSplit
    BY <2>2, TypeKept DEF Fetch
  <2> QED
    BY <2>1, <2>2
<1>4. LingerType'
  BY TypeParts DEF Fetch, LingerType
<1>5. UNCHANGED pushers /\ UNCHANGED target
  BY DEF Fetch
<1> QED
  BY <1>1, <1>2, <1>3, <1>4, <1>5, TypeKept, TypePartsPrimed DEF pushers

(* ~Worker comes first, ~Module second, and that is the end.               *)
LEMMA Endings ==
  Head(Destructors) = "join" /\ Then("join") = "delete" /\ Then("delete") = "exit"
BY DEF Destructors, Then, Last

LEMMA WorkType == TypeOK /\ Work => TypeOK'
<1> SUFFICES ASSUME TypeOK, Work PROVE TypeOK'
  OBVIOUS
<1> USE DEF LoadWorks, BeginTable, EndTable, EndWork, JoinPushers, DeletePool
<1>1. DiskType'
  BY TypeParts, TypeKept DEF Work, DiskType, disk, Extent
<1>2. MainType'
  BY TypeParts, Endings DEF Work, MainType
<1>3. PushersType'
  <2>1. ASSUME NEW t \in Table, EndTable(t) PROVE PushersType'
    <3>1. Append(posted, t) \in Seq(Table)
      BY TypeParts DEF PushersType
    <3> QED
      BY <2>1, <3>1, TypeParts DEF PushersType
  <2>2. CASE UNCHANGED <<posted, step, sent>>
    BY <2>2, TypeKept
  <2> QED
    BY <2>1, <2>2 DEF Work, pushers
<1>4. /\ UNCHANGED target /\ UNCHANGED faults
      /\ UNCHANGED lingering
  BY DEF Work
<1>5. PoolType'
  BY TypeParts DEF Work, pushers, pool, PoolType
<1> QED
  BY <1>1, <1>2, <1>3, <1>4, <1>5, TypeParts, TypeKept, TypePartsPrimed DEF LingerType

LEMMA PushType == TypeOK /\ Push => TypeOK'
<1> SUFFICES ASSUME TypeOK, Push PROVE TypeOK'
  OBVIOUS
<1>1. CASE BeginPush
  <2>1. PushersType'
    BY <1>1, TypeParts DEF BeginPush, PushersType, Steps
  <2> QED
    BY <1>1, <2>1, TypeKept, TypePartsPrimed DEF BeginPush, faults
<1>2. ASSUME NEW t \in Table, GetInstance(t) PROVE TypeOK'
  <2>1. PoolType'
    BY <1>2, TypeParts DEF GetInstance, Popped, PoolType, Connecting
  <2> QED
    BY <1>2, <2>1, TypeKept, TypePartsPrimed DEF GetInstance
<1>3. ASSUME NEW t \in Table, Connect(t) PROVE TypeOK'
  <2>1. PoolType'
    BY <1>3, TypeParts DEF Connect, PoolType, Connecting
  <2> QED
    BY <1>3, <2>1, TypeKept, TypePartsPrimed DEF Connect
<1>4. ASSUME NEW t \in Table, step[t] \in Steps, held[t] > 0, Delete(t) PROVE PoolType'
  BY <1>4, TypeParts DEF Delete, Returned, PoolType, Connecting
<1>5. ASSUME NEW t \in Table, Refuse(t) PROVE FaultsType'
  BY <1>5, TypeParts, Constants DEF Refuse, FaultsType
<1>6. ASSUME NEW t \in Table, CreateSchema(t) PROVE TypeOK'
  <2>1. PushersType'
    BY <1>6, TypeParts DEF CreateSchema, PushersType, Steps
  <2> QED
    BY <1>4, <1>6, <2>1, TypeKept, TypePartsPrimed DEF CreateSchema, Steps
<1>7. ASSUME NEW t \in Table, CreateFinalTable(t) PROVE TypeOK'
  <2>1. PushersType'
    BY <1>7, TypeParts DEF CreateFinalTable, PushersType, Steps
  <2>2. TargetType'
    <3>1. NewTable(t) \in [made : BOOLEAN, from : Extent, rows : Seq(Nat)]
      BY TypeParts DEF DiskType, NewTable
    <3>2. NoTable \in [made : BOOLEAN, from : Extent, rows : Seq(Nat)]
      BY DEF NoTable, Extent
    <3> QED
      BY <1>7, <3>1, <3>2, TypeParts DEF CreateFinalTable, TargetType
  <2>3. FaultsType'
    BY <1>5, <1>7, TypeKept DEF CreateFinalTable
  <2> QED
    BY <1>4, <1>7, <2>1, <2>2, <2>3, TypeKept, TypePartsPrimed DEF CreateFinalTable, Steps
<1>8. ASSUME NEW t \in Table, FlushSQL(t) PROVE TypeOK'
  <2>1. sent[t] + 1 \in Nat /\ sent[t] + 1 <= BatchCount[t]
    BY <1>8, TypeParts, Constants DEF FlushSQL, More, PushersType
  <2>2. PushersType'
    BY <1>8, <2>1, TypeParts DEF FlushSQL, PushersType
  <2>3. sent'[t] = sent[t] + 1
    BY <1>8, TypeParts DEF FlushSQL, PushersType
  <2>4. Append(target[t].rows, sent'[t]) \in Seq(Nat)
    BY <2>1, <2>3, TypeParts DEF TargetType
  <2>5. TargetType'
    BY <1>8, <2>4, TypeParts DEF FlushSQL, TargetType
  <2>6. FaultsType'
    BY <1>5, <1>8, TypeKept DEF FlushSQL
  <2> QED
    BY <1>8, <2>2, <2>5, <2>6, TypeKept, TypePartsPrimed DEF FlushSQL
<1>9. ASSUME NEW t \in Table, EndPush(t) PROVE TypeOK'
  <2>1. PushersType'
    BY <1>9, TypeParts DEF EndPush, PushersType
  <2> QED
    BY <1>9, <2>1, TypeKept, TypePartsPrimed DEF EndPush
<1> QED
  BY <1>1, <1>2, <1>3, <1>6, <1>7, <1>8, <1>9 DEF Push, PushStep

LEMMA CrashType == TypeOK /\ Crash => TypeOK'
<1> SUFFICES ASSUME TypeOK, Crash PROVE TypeOK'
  OBVIOUS
<1> USE DEF Crash, Fresh
<1>1. MainType' BY DEF MainType, Both
<1>5. LingerType' BY DEF LingerType
<1>2. PushersType' BY Constants DEF PushersType, Steps
<1>3. PoolType' BY DEF PoolType, Connecting
<1>4. FaultsType' BY TypeParts, Constants DEF FaultsType
<1> QED
  BY <1>1, <1>2, <1>3, <1>4, <1>5, TypeKept, TypePartsPrimed

LEMMA StutterType == TypeOK /\ UNCHANGED vars => TypeOK'
BY TypeKept, TypePartsPrimed DEF vars, pushers

LEMMA NextType == TypeOK /\ Phase /\ [Next]_vars => TypeOK'
BY FetchType, WorkType, PushType, CrashType, StutterType DEF Next

-----------------------------------------------------------------------------
(* What the marks mean.                                                    *)

MarkInv ==
  /\ MarkedIsWhole /\ Phase
  /\ pc \in {"split", "mark"} => bin[source] = "whole"
  /\ pc = "mark" => dat[source] = "whole" \/ source \in swallowed

LEMMA FetchMarks == TypeOK /\ MarkInv /\ Fetch => MarkInv'
<1> SUFFICES ASSUME TypeOK, MarkInv, Fetch PROVE MarkInv'
  OBVIOUS
<1> USE DEF MarkInv, Phase, MarkedIsWhole
<1>1. CASE EvokeFetchAll
  BY <1>1 DEF EvokeFetchAll, disk, faults
<1>2. CASE SkipSource
  BY <1>2 DEF SkipSource, disk, faults
<1>3. CASE BeginFetch
  BY <1>3, TypeParts DEF BeginFetch, faults, DiskType, MainType
<1>4. CASE EndFetch
  BY <1>4, TypeParts DEF EndFetch, MarksAfterFetch, faults, DiskType, MainType
<1>5. CASE EndSplit
  BY <1>5, TypeParts DEF EndSplit, DiskType, MainType
<1>6. CASE Mark
  BY <1>6, TypeParts DEF Mark, faults, Source, Both
<1>7. CASE MarkBoth
  BY <1>7, TypeParts DEF MarkBoth, faults, Source, Both
<1>8. CASE DestroyJVM
  BY <1>8 DEF DestroyJVM, disk, faults
<1> QED
  BY <1>1, <1>2, <1>3, <1>4, <1>5, <1>6, <1>7, <1>8 DEF Fetch

LEMMA OthersMark == MarkInv /\ (Work \/ Push \/ Crash \/ UNCHANGED vars) => MarkInv'
<1> SUFFICES ASSUME MarkInv, Work \/ Push \/ Crash \/ UNCHANGED vars PROVE MarkInv'
  OBVIOUS
<1> USE DEF MarkInv, Phase, MarkedIsWhole
<1>1. CASE Work
  BY <1>1, Endings
     DEF Work, LoadWorks, BeginTable, EndTable, EndWork, JoinPushers, DeletePool, disk, faults
<1>2. CASE Push
  BY <1>2 DEF Push, BeginPush, PushStep, GetInstance, Connect, CreateSchema, CreateFinalTable,
              FlushSQL, EndPush, Refuse, disk, main, faults
<1>3. CASE Crash
  BY <1>3 DEF Crash, Fresh, disk
<1>4. CASE UNCHANGED vars
  BY <1>4 DEF vars, disk, main, faults
<1> QED
  BY <1>1, <1>2, <1>3, <1>4

-----------------------------------------------------------------------------
(* The order in which a table is loaded, posted and pushed.                *)

Before == {"start", "source", "fetch", "split", "mark", "jvm", "load"}

(* Once the pool is joined nobody is to push any more.                     *)
Quiet == pc \in {"delete", "exit"} => posted = <<>> /\ Joined

WorkInv ==
  /\ \A i, j \in DOMAIN posted : posted[i] = posted[j] => i = j
  /\ \A i \in DOMAIN posted : step[posted[i]] = "posted"
  /\ pc \in Before => posted = <<>> /\ \A t \in Table : step[t] = "idle"
  /\ \A t \in todo \cup current : step[t] = "idle"
  /\ todo \cap current = {} /\ (pc # "dump" => current = {})
  /\ Quiet /\ (~sqlPool => pc = "exit")

LEMMA FetchWorks == TypeOK /\ WorkInv /\ Fetch => WorkInv'
BY DEF Fetch, EvokeFetchAll, SkipSource, BeginFetch, EndFetch, EndSplit, Mark, MarkBoth,
       DestroyJVM, WorkInv, Quiet, Joined, Before, pushers, pool

LEMMA WorkWorks == TypeOK /\ WorkInv /\ Work => WorkInv'
<1> SUFFICES ASSUME TypeOK, WorkInv, Work PROVE WorkInv'
  OBVIOUS
<1> USE DEF WorkInv, Quiet, Joined, Before
<1>1. CASE LoadWorks
  BY <1>1 DEF LoadWorks, pushers, pool
<1>2. ASSUME NEW t \in Table, BeginTable(t) PROVE WorkInv'
  BY <1>2 DEF BeginTable, pushers, pool
<1>3. ASSUME NEW t \in Table, EndTable(t) PROVE WorkInv'
  <2>1. /\ posted \in Seq(Table) /\ Len(posted) \in Nat /\ DOMAIN posted = 1..Len(posted)
        /\ step \in [Table -> {"idle", "posted", "done"} \cup Steps] /\ current \subseteq Table
        /\ todo \subseteq Table
    BY TypeParts DEF PushersType, MainType
  <2>2. \A i \in DOMAIN posted : posted[i] # t
    BY <1>3 DEF EndTable
  <2>3. /\ DOMAIN posted' = 1..(Len(posted) + 1) /\ posted'[Len(posted) + 1] = t
        /\ \A i \in DOMAIN posted : posted'[i] = posted[i]
    BY <1>3, <2>1 DEF EndTable
  <2>4. \A i, j \in DOMAIN posted' : posted'[i] = posted'[j] => i = j
    BY <2>1, <2>2, <2>3
  <2>5. \A i \in DOMAIN posted' : step'[posted'[i]] = "posted"
    BY <1>3, <2>1, <2>3 DEF EndTable
  <2> QED
    BY <1>3, <2>1, <2>4, <2>5 DEF EndTable, pool
<1>4. CASE EndWork
  BY <1>4, Endings DEF EndWork, pushers, pool
<1>5. CASE JoinPushers
  <2>1. posted = <<>>
    BY <1>5, TypeParts DEF JoinPushers, PushersType
  <2> QED
    BY <1>5, <2>1, Endings DEF JoinPushers, pushers, pool
<1>6. CASE DeletePool
  BY <1>6, Endings DEF DeletePool
<1> QED
  BY <1>1, <1>2, <1>3, <1>4, <1>5, <1>6 DEF Work

LEMMA PushWorks == TypeOK /\ WorkInv /\ Push => WorkInv'
<1> SUFFICES ASSUME TypeOK, WorkInv, Push PROVE WorkInv'
  OBVIOUS
<1> USE DEF WorkInv, Quiet, Joined, Before
<1>1. /\ posted \in Seq(Table) /\ Len(posted) \in Nat /\ DOMAIN posted = 1..Len(posted)
      /\ step \in [Table -> {"idle", "posted", "done"} \cup Steps]
      /\ current \subseteq Table /\ todo \subseteq Table
  BY TypeParts DEF PushersType, MainType
<1>a. UNCHANGED sqlPool
  BY DEF Push, BeginPush, PushStep, GetInstance, Connect, CreateSchema, CreateFinalTable, FlushSQL,
         EndPush, Delete, pool
<1>2. CASE BeginPush
  <2>1. /\ posted[1] \in Table /\ step[posted[1]] = "posted" /\ Len(posted) > 0
        /\ Head(posted) = posted[1]
    BY <1>1, <1>2 DEF BeginPush
  <2>2. /\ DOMAIN posted' = 1..(Len(posted) - 1)
        /\ \A i \in DOMAIN posted' : posted'[i] = posted[i + 1] /\ i + 1 \in DOMAIN posted
    BY <1>1, <1>2, <2>1 DEF BeginPush
  <2>3. \A i, j \in DOMAIN posted' : posted'[i] = posted'[j] => i = j
    BY <1>1, <2>1, <2>2
  <2>4. \A i \in DOMAIN posted' : posted'[i] # posted[1]
    BY <1>1, <2>1, <2>2
  <2>5. \A i \in DOMAIN posted' : step'[posted'[i]] = "posted"
    BY <1>1, <1>2, <2>1, <2>2, <2>4 DEF BeginPush
  <2> QED
    BY <1>1, <1>a, <1>2, <2>1, <2>3, <2>5 DEF BeginPush, main, Steps
<1>3. ASSUME NEW t \in Table, PushStep(t) PROVE WorkInv'
  <2>1. CASE UNCHANGED step
    BY <1>a, <1>3, <2>1 DEF PushStep, GetInstance, Connect, CreateSchema, CreateFinalTable, FlushSQL,
                      EndPush, main, Steps
  <2>2. CASE CreateSchema(t) \/ CreateFinalTable(t) \/ EndPush(t)
    BY <1>1, <1>a, <2>2 DEF CreateSchema, CreateFinalTable, EndPush, main, Steps
  <2> QED
    BY <1>3, <2>1, <2>2 DEF PushStep, GetInstance, Connect, FlushSQL
<1> QED
  BY <1>2, <1>3 DEF Push

-----------------------------------------------------------------------------
(* The connections: who has them, and how many there are.                  *)

Busy     == {t \in Table : step[t] \in Steps}
Finished == {t \in Table : step[t] = "done"}
Using    == {t \in Table : held[t] > 0}
Waiting  == {t \in Table : held[t] = Connecting}

PoolInv ==
  /\ OneUserPerConnection
  /\ Using \cup Waiting \subseteq Busy \cup Finished /\ Waiting \subseteq Busy

(* A connection that is made, or on the way, is one that some thread could *)
(* not do without, or that a Pusher kept.                                  *)
CountInv ==
  /\ Cardinality(Busy) <= Threads
  /\ sqlPool => opened = Cardinality(free) + Cardinality(Using)
  /\ opened + Cardinality(Waiting) <= Cardinality(Finished) + Threads

LEMMA SetsFinite ==
  ASSUME TypeOK
  PROVE  /\ IsFiniteSet(Busy) /\ IsFiniteSet(Finished)
         /\ IsFiniteSet(Using) /\ IsFiniteSet(Waiting) /\ IsFiniteSet(free)
         /\ Cardinality(Busy) \in Nat /\ Cardinality(Finished) \in Nat
         /\ Cardinality(Using) \in Nat /\ Cardinality(Waiting) \in Nat
         /\ Cardinality(free) \in Nat
<1>1. /\ IsFiniteSet(Busy) /\ IsFiniteSet(Finished)
      /\ IsFiniteSet(Using) /\ IsFiniteSet(Waiting)
  BY Constants, FS_Subset DEF Busy, Finished, Using, Waiting
<1>2. IsFiniteSet(1..opened) /\ free \subseteq 1..opened
  BY FS_Interval, TypeParts DEF PoolType
<1>3. IsFiniteSet(free)
  BY <1>2, FS_Subset
<1> QED
  BY <1>1, <1>3, FS_CardinalityType

(* One more, and one less.                                                 *)
LEMMA OneMore ==
  ASSUME NEW S, IsFiniteSet(S), NEW x, x \notin S, NEW T, T = S \cup {x}
  PROVE  Cardinality(T) = Cardinality(S) + 1 /\ IsFiniteSet(T)
BY FS_AddElement

LEMMA OneLess ==
  ASSUME NEW S, IsFiniteSet(S), NEW x, x \in S, NEW T, T = S \ {x}
  PROVE  Cardinality(T) = Cardinality(S) - 1 /\ IsFiniteSet(T)
BY FS_RemoveElement

LEMMA Apart ==
  ASSUME NEW S, IsFiniteSet(S), NEW T, IsFiniteSet(T), S \cap T = {}
  PROVE  /\ IsFiniteSet(S \cup T)
         /\ Cardinality(S \cup T) = Cardinality(S) + Cardinality(T)
<1>1. Cardinality(S \cup T) = Cardinality(S) + Cardinality(T) - Cardinality(S \cap T)
  BY FS_Union
<1>2. Cardinality(S \cap T) = 0
  BY FS_EmptySet
<1>3. Cardinality(S) \in Nat /\ Cardinality(T) \in Nat
  BY FS_CardinalityType
<1> QED
  BY <1>1, <1>2, <1>3, FS_Union

(* What a step does to the four sets, table by table.                      *)
LEMMA SetsKept ==
  /\ UNCHANGED step => UNCHANGED Busy /\ UNCHANGED Finished
  /\ UNCHANGED held => UNCHANGED Using /\ UNCHANGED Waiting
BY DEF Busy, Finished, Using, Waiting

LEMMA PoolSame ==
  ASSUME PoolInv, CountInv,
         UNCHANGED <<sqlPool, free, held, opened>>, UNCHANGED Busy, UNCHANGED Finished
  PROVE  PoolInv' /\ CountInv'
<1>1. UNCHANGED Using /\ UNCHANGED Waiting
  BY SetsKept
<1>2. OneUserPerConnection'
  BY DEF PoolInv, OneUserPerConnection
<1> QED
  BY <1>1, <1>2 DEF PoolInv, CountInv

LEMMA MainPool ==
  TypeOK /\ WorkInv /\ PoolInv /\ CountInv /\ (Fetch \/ Work \/ UNCHANGED vars)
    => PoolInv' /\ CountInv'
<1> SUFFICES ASSUME TypeOK, WorkInv, PoolInv, CountInv, Fetch \/ Work \/ UNCHANGED vars
             PROVE  PoolInv' /\ CountInv'
  OBVIOUS
<1>1. CASE UNCHANGED pushers
  BY <1>1, SetsKept, PoolSame DEF pushers, pool
<1>2. ASSUME NEW t \in Table, EndTable(t) PROVE PoolInv' /\ CountInv'
  <2>1. step[t] = "idle" /\ step' = [step EXCEPT ![t] = "posted"]
    BY <1>2 DEF EndTable, WorkInv
  <2>2. UNCHANGED Busy /\ UNCHANGED Finished
    BY <2>1, TypeParts DEF Busy, Finished, Steps, PushersType
  <2> QED
    BY <1>2, <2>2, PoolSame DEF EndTable, pool
<1>3. CASE DeletePool
  <2>1. /\ UNCHANGED <<step, opened, held>> /\ free' = {} /\ sqlPool' = FALSE
    BY <1>3 DEF DeletePool
  <2>2. OneUserPerConnection'
    BY <2>1 DEF PoolInv, OneUserPerConnection
  <2> QED
    BY <2>1, <2>2, SetsKept DEF PoolInv, CountInv
<1>4. UNCHANGED pushers \/ DeletePool \/ \E t \in Table : EndTable(t)
  BY DEF Fetch, Work, EvokeFetchAll, SkipSource, BeginFetch, EndFetch, EndSplit, Mark, MarkBoth,
         DestroyJVM, LoadWorks, BeginTable, EndWork, JoinPushers, vars
<1> QED
  BY <1>1, <1>2, <1>3, <1>4

LEMMA CrashPool == TypeOK /\ Crash => PoolInv' /\ CountInv'
<1> SUFFICES ASSUME TypeOK, Crash PROVE PoolInv' /\ CountInv'
  OBVIOUS
<1>1. /\ free' = {} /\ opened' = 0 /\ held' = [t \in Table |-> 0]
      /\ step' = [t \in Table |-> "idle"]
  BY DEF Crash, Fresh
<1>2. Busy' = {} /\ Finished' = {} /\ Using' = {} /\ Waiting' = {}
  BY <1>1 DEF Busy, Finished, Using, Waiting, Connecting, Steps
<1>3. OneUserPerConnection'
  BY <1>1 DEF OneUserPerConnection
<1> QED
  BY <1>1, <1>2, <1>3, FS_EmptySet, Constants DEF PoolInv, CountInv

LEMMA InitPool == Init => PoolInv /\ CountInv
<1> SUFFICES ASSUME Init PROVE PoolInv /\ CountInv
  OBVIOUS
<1>1. Busy = {} /\ Finished = {} /\ Using = {} /\ Waiting = {} /\ free = {} /\ opened = 0
  BY DEF Init, Busy, Finished, Using, Waiting, Connecting, Steps
<1>2. OneUserPerConnection
  BY DEF Init, OneUserPerConnection
<1> QED
  BY <1>1, <1>2, FS_EmptySet, Constants DEF PoolInv, CountInv

(* A Pusher that has found no free connection: those there are, and those  *)
(* on the way, are with other Pushers, one each.                           *)
LEMMA NoneFree ==
  ASSUME TypeOK, PoolInv, CountInv, sqlPool, free = {}, NEW t \in Busy, held[t] = 0
  PROVE  opened + Cardinality(Waiting) + 1 <= Cardinality(Finished) + Threads
<1> DEFINE taken == Using \cup Waiting
<1>1. Using \cap Waiting = {} /\ Busy \cap Finished = {}
  BY DEF Using, Waiting, Connecting, Busy, Finished, Steps
<1>2. IsFiniteSet(taken) /\ Cardinality(taken) = Cardinality(Using) + Cardinality(Waiting)
  BY <1>1, SetsFinite, Apart
<1>3. t \notin taken
  BY DEF Using, Waiting, Connecting
<1>4. /\ IsFiniteSet(taken \cup {t})
      /\ Cardinality(taken \cup {t}) = Cardinality(Using) + Cardinality(Waiting) + 1
  BY <1>2, <1>3, FS_AddElement
<1>5. /\ IsFiniteSet(Busy \cup Finished)
      /\ Cardinality(Busy \cup Finished) = Cardinality(Busy) + Cardinality(Finished)
  BY <1>1, SetsFinite, Apart
<1>6. taken \cup {t} \subseteq Busy \cup Finished
  BY DEF PoolInv
<1>7. Cardinality(taken \cup {t}) <= Cardinality(Busy \cup Finished)
  BY <1>5, <1>6, FS_Subset
<1>8. opened = Cardinality(Using) /\ Cardinality(Busy) <= Threads
  BY SetsFinite, FS_EmptySet DEF CountInv
<1> HIDE DEF taken
<1> QED
  BY <1>4, <1>5, <1>7, <1>8, SetsFinite, Constants

LEMMA PushPool ==
  TypeOK /\ WorkInv /\ PoolInv /\ CountInv /\ Push => PoolInv' /\ CountInv'
<1> SUFFICES ASSUME TypeOK, WorkInv, PoolInv, CountInv, Push
             PROVE  PoolInv' /\ CountInv'
  OBVIOUS
<1> USE SetsFinite, Constants
<1>0. /\ step \in [Table -> {"idle", "posted", "done"} \cup Steps] /\ posted \in Seq(Table)
      /\ opened \in Nat /\ free \subseteq 1..opened
      /\ held \in [Table -> {Connecting} \cup 0..opened]
  BY TypeParts DEF PushersType, PoolType
<1>a. UNCHANGED sqlPool
  BY DEF Push, BeginPush, PushStep, GetInstance, Connect, CreateSchema, CreateFinalTable, Delete,
         FlushSQL, EndPush, pool
<1>b. \A t \in Busy : sqlPool
  BY DEF Busy, WorkInv, Quiet, Joined, Steps
<1>1. CASE BeginPush
  <2>1. /\ posted[1] \in Table /\ step[posted[1]] = "posted" /\ Head(posted) = posted[1]
    BY <1>0, <1>1 DEF BeginPush, WorkInv
  <2>2. Cardinality(Busy) < Threads /\ UNCHANGED <<free, held, opened>>
    BY <1>1 DEF BeginPush, Busy, pool
  <2>3. posted[1] \notin Busy /\ Busy' = Busy \cup {posted[1]} /\ UNCHANGED Finished
    BY <1>0, <1>1, <2>1 DEF BeginPush, Busy, Finished, Steps
  <2>4. Cardinality(Busy') = Cardinality(Busy) + 1
    BY <2>3, OneMore
  <2>5. UNCHANGED Using /\ UNCHANGED Waiting /\ OneUserPerConnection'
    BY <2>2, SetsKept DEF PoolInv, OneUserPerConnection
  <2> QED
    BY <1>a, <2>2, <2>3, <2>4, <2>5 DEF PoolInv, CountInv
<1>2. ASSUME NEW t \in Table, GetInstance(t) PROVE PoolInv' /\ CountInv'
  <2>1. t \in Busy /\ held[t] = 0 /\ UNCHANGED Busy /\ UNCHANGED Finished /\ opened' = opened
    BY <1>2 DEF GetInstance, Busy, Finished
  <2>2. CASE free = {} /\ held' = [held EXCEPT ![t] = Connecting] /\ UNCHANGED free
    <3>1. t \notin Waiting /\ Waiting' = Waiting \cup {t} /\ UNCHANGED Using
      BY <1>0, <2>1, <2>2 DEF Waiting, Using, Connecting
    <3>2. Cardinality(Waiting') = Cardinality(Waiting) + 1
      BY <3>1, OneMore
    <3>3. OneUserPerConnection'
      BY <1>0, <2>1, <2>2 DEF PoolInv, OneUserPerConnection, Connecting
    <3> QED
      BY <1>a, <1>b, <2>1, <2>2, <3>1, <3>2, <3>3, NoneFree DEF PoolInv, CountInv
  <2>3. ASSUME NEW c \in free, held' = [held EXCEPT ![t] = c], free' = Popped(c)
        PROVE  PoolInv' /\ CountInv'
    <3>1. t \notin Using /\ Using' = Using \cup {t} /\ UNCHANGED Waiting
      BY <1>0, <2>1, <2>3 DEF Waiting, Using, Connecting
    <3>2. Cardinality(Using') = Cardinality(Using) + 1
      BY <3>1, OneMore
    <3>3. Cardinality(free') = Cardinality(free) - 1
      BY <2>3, OneLess DEF Popped
    <3>4. OneUserPerConnection'
      BY <1>0, <2>1, <2>3 DEF PoolInv, OneUserPerConnection, Popped
    <3> QED
      BY <1>0, <1>a, <2>1, <3>1, <3>2, <3>3, <3>4, SMTT(30) DEF PoolInv, CountInv
  <2> QED
    BY <1>2, <2>2, <2>3 DEF GetInstance
<1>3. ASSUME NEW t \in Table, Connect(t) PROVE PoolInv' /\ CountInv'
  <2>1. /\ held[t] = Connecting /\ opened' = opened + 1
        /\ held' = [held EXCEPT ![t] = opened + 1] /\ UNCHANGED <<free, step>>
    BY <1>3 DEF Connect
  <2>2. /\ t \notin Using /\ Using' = Using \cup {t}
        /\ t \in Waiting /\ Waiting' = Waiting \ {t}
    BY <1>0, <2>1 DEF Using, Waiting, Connecting
  <2>3. /\ Cardinality(Using') = Cardinality(Using) + 1
        /\ Cardinality(Waiting') = Cardinality(Waiting) - 1
    BY <2>2, OneMore, OneLess
  <2>4. OneUserPerConnection'
    BY <1>0, <2>1 DEF PoolInv, OneUserPerConnection, Connecting
  <2>5. UNCHANGED Busy /\ UNCHANGED Finished
    BY <2>1, SetsKept
  <2>6. PoolInv'
    BY <2>2, <2>4, <2>5 DEF PoolInv
  <2>7. CountInv'
    <3>1. opened' + Cardinality(Waiting') = opened + Cardinality(Waiting)
      BY <1>0, <2>1, <2>3
    <3>2. sqlPool' => opened' = Cardinality(free') + Cardinality(Using')
      BY <1>0, <1>a, <2>1, <2>3 DEF CountInv
    <3> QED
      BY <2>5, <3>1, <3>2 DEF CountInv
  <2> QED
    BY <2>6, <2>7
<1>4. ASSUME NEW t \in Table, held[t] > 0, Delete(t), UNCHANGED Busy, UNCHANGED Finished
      PROVE  PoolInv' /\ CountInv'
  <2>1. /\ held[t] \notin free /\ free' = free \cup {held[t]} /\ opened' = opened
        /\ held' = [held EXCEPT ![t] = 0]
    BY <1>4 DEF PoolInv, OneUserPerConnection, Delete, Returned
  <2>2. t \in Using /\ Using' = Using \ {t} /\ UNCHANGED Waiting
    BY <1>0, <1>4, <2>1 DEF Using, Waiting, Connecting
  <2>3. /\ Cardinality(Using') = Cardinality(Using) - 1
        /\ Cardinality(free') = Cardinality(free) + 1
    BY <2>1, <2>2, OneMore, OneLess
  <2>4. OneUserPerConnection'
    BY <1>0, <1>4, <2>1 DEF PoolInv, OneUserPerConnection
  <2>5. PoolInv'
    BY <1>4, <2>2, <2>4 DEF PoolInv
  <2>6. CountInv'
    BY <1>0, <1>a, <1>4, <2>1, <2>2, <2>3 DEF CountInv
  <2> QED
    BY <2>5, <2>6
<1>5. ASSUME NEW t \in Table, CreateSchema(t) \/ CreateFinalTable(t) PROVE PoolInv' /\ CountInv'
  <2>1. UNCHANGED Busy /\ UNCHANGED Finished
    BY <1>0, <1>5 DEF CreateSchema, CreateFinalTable, Busy, Finished, Steps
  <2> QED
    BY <1>4, <1>5, <2>1 DEF CreateSchema, CreateFinalTable
<1>6. ASSUME NEW t \in Table, FlushSQL(t) PROVE PoolInv' /\ CountInv'
  BY <1>6, SetsKept, PoolSame DEF FlushSQL, pool
<1>7. ASSUME NEW t \in Table, EndPush(t) PROVE PoolInv' /\ CountInv'
  <2>1. /\ step[t] = "fill" /\ held[t] > 0 /\ step' = [step EXCEPT ![t] = "done"]
        /\ UNCHANGED <<free, held, opened>>
    BY <1>7 DEF EndPush, pool
  <2>2. /\ t \in Busy /\ Busy' = Busy \ {t}
        /\ t \notin Finished /\ Finished' = Finished \cup {t}
    BY <1>0, <2>1 DEF Busy, Finished, Steps
  <2>3. /\ Cardinality(Busy') = Cardinality(Busy) - 1
        /\ Cardinality(Finished') = Cardinality(Finished) + 1
    BY <2>2, OneMore, OneLess
  <2>4. t \notin Waiting
    BY <2>1 DEF Waiting, Connecting
  <2>5. UNCHANGED Using /\ UNCHANGED Waiting /\ OneUserPerConnection'
    BY <2>1, SetsKept DEF PoolInv, OneUserPerConnection
  <2>6. PoolInv'
    BY <2>2, <2>4, <2>5 DEF PoolInv
  <2>7. CountInv'
    BY <1>0, <1>a, <2>1, <2>3, <2>5, SMTT(30) DEF CountInv
  <2> QED
    BY <2>6, <2>7
<1> QED
  BY <1>1, <1>2, <1>3, <1>5, <1>6, <1>7 DEF Push, PushStep

-----------------------------------------------------------------------------
(* The inductive invariant, and the theorems.                              *)

IndInv == TypeOK /\ MarkInv /\ WorkInv /\ PoolInv /\ CountInv

LEMMA InitInd == Init => IndInv
<1> SUFFICES ASSUME Init PROVE IndInv
  OBVIOUS
<1>1. MarkInv
  BY DEF Init, MarkInv, MarkedIsWhole, Phase
<1>2. WorkInv
  BY DEF Init, WorkInv, Quiet, Before
<1> QED
  BY <1>1, <1>2, InitType, InitPool DEF IndInv

LEMMA CrashWorks == Crash => WorkInv'
BY DEF Crash, Fresh, WorkInv, Quiet, Before

LEMMA StutterWorks == WorkInv /\ UNCHANGED vars => WorkInv'
BY DEF vars, main, pushers, pool, WorkInv, Quiet, Joined

LEMMA NextInd == IndInv /\ [Next]_vars => IndInv'
<1> SUFFICES ASSUME IndInv, [Next]_vars PROVE IndInv'
  OBVIOUS
<1>1. TypeOK'
  BY NextType DEF IndInv, MarkInv
<1>2. MarkInv'
  BY FetchMarks, OthersMark DEF IndInv, Next
<1>3. WorkInv'
  BY FetchWorks, WorkWorks, PushWorks, CrashWorks, StutterWorks DEF IndInv, Next
<1>4. PoolInv' /\ CountInv'
  BY MainPool, PushPool, CrashPool DEF IndInv, Next
<1> QED
  BY <1>1, <1>2, <1>3, <1>4 DEF IndInv

LEMMA SpecInd == Spec => []IndInv
BY InitInd, NextInd, PTL DEF Spec

(* Every variable of the program, on disk, on the target and in its        *)
(* threads, always has its type.                                           *)
THEOREM PipelineTypes == Spec => []TypeOK
<1>1. IndInv => TypeOK
  BY DEF IndInv
<1> QED
  BY <1>1, SpecInd, PTL

(* Whenever the process dies, a mark stands for files that are whole.      *)
THEOREM MarksHold == Spec => []MarkedIsWhole
<1>1. IndInv => MarkedIsWhole
  BY DEF IndInv, MarkInv
<1> QED
  BY <1>1, SpecInd, PTL

(* No two Pushers ever have the same connection, and none that is free.    *)
THEOREM ConnectionsNotShared == Spec => []OneUserPerConnection
<1>1. IndInv => OneUserPerConnection
  BY DEF IndInv, PoolInv
<1> QED
  BY <1>1, SpecInd, PTL

(* The target never sees more connections than one for each table that was *)
(* pushed and one for each thread.                                         *)
THEOREM FewConnections == Spec => []ConnectionsBounded
<1>1. IndInv => ConnectionsBounded
  <2> SUFFICES ASSUME IndInv PROVE ConnectionsBounded
    OBVIOUS
  <2>1. opened + Cardinality(Waiting) <= Cardinality(Finished) + Threads
    BY DEF IndInv, CountInv
  <2>2. opened \in Nat
    BY TypeParts DEF IndInv, PoolType
  <2>3. /\ Cardinality(Waiting) \in Nat /\ Cardinality(Finished) \in Nat /\ Threads \in Nat
    BY SetsFinite, Constants DEF IndInv
  <2> QED
    BY <2>1, <2>2, <2>3 DEF ConnectionsBounded, Finished
<1> QED
  BY <1>1, SpecInd, PTL

(* Once ~Module has deleted the SQLPool no Pusher runs or is to run, since *)
(* ~Worker has joined their threads before and nobody posts one after it.  *)
THEOREM PoolOutlivesPushers == Spec => []WorkerFinalizesFirst
<1>1. IndInv => WorkerFinalizesFirst
  BY DEF IndInv, WorkInv, Quiet, Joined, WorkerFinalizesFirst, Steps
<1> QED
  BY <1>1, SpecInd, PTL

-----------------------------------------------------------------------------
(* What the target has when the program ends.  The marks are set in order, *)
(* so that a program that goes on to the tables has both logs whole, but   *)
(* for an exception that was swallowed; each table is to do, current or on *)
(* its way, with a whole result.csv; and a Pusher that fills its table has *)
(* put there what it has sent, of this run alone.                          *)

AfterLoad == {"work", "dump", "join", "delete", "exit"}

MarksInOrder ==
  /\ Both \in finished => Source \subseteq finished
  /\ pc \in {"start", "source", "fetch", "split", "mark"} =>
       \A s \in Source : s < source => s \in finished
  /\ pc \in {"jvm", "load"} \cup AfterLoad => Both \in finished

Unsent == \A t \in Table : step[t] \in {"idle", "posted", "schema", "create"} => sent[t] = 0

OneCurrent == \A t, u \in current : t = u

AtExit == pc \in {"join", "delete", "exit"} => todo = {}

Complete == swallowed = {} /\ pc \in AfterLoad

Placed == \A t \in Table : t \in todo \cup current \/ step[t] # "idle"

Written == \A t \in Table : step[t] # "idle" => csv[t] = "whole"

Filled(t) == target[t] = [made |-> TRUE, from |-> "whole", rows |-> [b \in 1..sent[t] |-> b]]

Pushed ==
  \A t \in Table \ refused : /\ step[t] \in {"fill", "done"} => Filled(t)
                             /\ step[t] = "done" => sent[t] = BatchCount[t]

FilledInv == Unsent /\ AtExit /\ OneCurrent /\ (Complete => Placed /\ Written /\ Pushed)

LEMMA FetchOrder == TypeOK /\ MarkInv /\ MarksInOrder /\ Fetch => MarksInOrder'
<1> SUFFICES ASSUME TypeOK, MarkInv, MarksInOrder, Fetch PROVE MarksInOrder'
  OBVIOUS
<1> USE DEF MarksInOrder, AfterLoad, Source, Both
<1>0. source \in 0..2
  BY TypeParts DEF MainType
<1>1. CASE EvokeFetchAll
  BY <1>1 DEF EvokeFetchAll, disk
<1>2. CASE SkipSource
  <2>1. \A s \in {0, 1} : s < source' => s < source \/ s = source
    BY <1>0, <1>2 DEF SkipSource
  <2> QED
    BY <1>2, <2>1 DEF SkipSource, disk
<1>3. CASE BeginFetch
  BY <1>3 DEF BeginFetch
<1>4. CASE EndFetch
  BY <1>4 DEF EndFetch, MarksAfterFetch
<1>5. CASE EndSplit
  BY <1>5 DEF EndSplit
<1>6. CASE Mark
  <2>1. source \in {0, 1}
    BY <1>6 DEF Mark, MarkInv, Phase
  <2>2. \A s \in {0, 1} : s < source' => s < source \/ s = source
    BY <1>6, <2>1 DEF Mark
  <2> QED
    BY <1>6, <2>1, <2>2 DEF Mark
<1>7. CASE MarkBoth
  BY <1>7 DEF MarkBoth
<1>8. CASE DestroyJVM
  BY <1>8 DEF DestroyJVM, disk
<1> QED
  BY <1>1, <1>2, <1>3, <1>4, <1>5, <1>6, <1>7, <1>8 DEF Fetch

LEMMA OthersOrder == MarksInOrder /\ (Work \/ Push \/ Crash \/ UNCHANGED vars) => MarksInOrder'
<1> SUFFICES ASSUME MarksInOrder, Work \/ Push \/ Crash \/ UNCHANGED vars
             PROVE  MarksInOrder'
  OBVIOUS
<1> USE DEF MarksInOrder, AfterLoad
<1>1. CASE Work
  BY <1>1, Endings
     DEF Work, LoadWorks, BeginTable, EndTable, EndWork, JoinPushers, DeletePool, disk
<1>2. CASE Push
  BY <1>2 DEF Push, BeginPush, PushStep, GetInstance, Connect, CreateSchema, CreateFinalTable,
              FlushSQL, EndPush, disk, main
<1>3. CASE Crash
  BY <1>3 DEF Crash, Fresh, disk, Source, AfterLoad
<1>4. CASE UNCHANGED vars
  BY <1>4 DEF vars, disk, main
<1> QED
  BY <1>1, <1>2, <1>3, <1>4

(* Whoever goes on to the tables has both logs whole.                      *)
LEMMA BothWhole ==
  ASSUME TypeOK, MarkInv, MarksInOrder, swallowed = {},
         pc \in {"jvm", "load"} \cup AfterLoad
  PROVE  dat[0] = "whole" /\ dat[1] = "whole" /\ dat = [s \in Source |-> "whole"]
<1>1. dat[0] = "whole" /\ dat[1] = "whole"
  BY DEF MarksInOrder, MarkInv, MarkedIsWhole, Source
<1> QED
  BY <1>1, TypeParts DEF DiskType, Source

(* Before the tables nothing is sent.                                      *)
LEMMA FetchFills == TypeOK /\ WorkInv /\ FilledInv /\ Fetch => FilledInv'
<1> SUFFICES ASSUME TypeOK, WorkInv, FilledInv, Fetch PROVE FilledInv'
  OBVIOUS
<1>1. pc' \notin AfterLoad /\ UNCHANGED <<step, sent, current>>
  BY DEF AfterLoad, Fetch, EvokeFetchAll, SkipSource, BeginFetch, EndFetch, EndSplit, Mark, MarkBoth,
         DestroyJVM, pushers
<1> QED
  BY <1>1 DEF FilledInv, Unsent, AtExit, OneCurrent, Complete, AfterLoad

LEMMA WorkFills ==
  TypeOK /\ MarkInv /\ MarksInOrder /\ WorkInv /\ FilledInv /\ Work => FilledInv'
<1> SUFFICES ASSUME TypeOK, MarkInv, MarksInOrder, WorkInv, FilledInv, Work PROVE FilledInv'
  OBVIOUS
<1>0. /\ todo \subseteq Table /\ current \subseteq Table
      /\ step \in [Table -> {"idle", "posted", "done"} \cup Steps]
      /\ csv \in [Table -> Extent]
  BY TypeParts DEF DiskType, MainType, PushersType
<1>1. CASE LoadWorks
  <2>1. /\ UNCHANGED <<csv, target, current, step, sent, swallowed, refused>>
        /\ pc = "load" /\ pc' = "work"
    BY <1>1 DEF LoadWorks, disk, pushers, faults
  <2>2. \A t \in Table : step[t] = "idle"
    BY <2>1 DEF WorkInv, Before
  <2>3. Unsent' /\ AtExit' /\ OneCurrent' /\ Written' /\ Pushed'
    BY <2>1, <2>2 DEF FilledInv, Unsent, AtExit, OneCurrent, Written, Pushed
  <2>4. Complete' => Placed'
    <3>1. swallowed = {} => todo' = Table
      BY <1>1, <2>1, BothWhole DEF LoadWorks
    <3> QED
      BY <2>1, <3>1 DEF Complete, Placed
  <2> QED
    BY <2>3, <2>4 DEF FilledInv
<1>2. ASSUME NEW t \in Table, BeginTable(t) PROVE FilledInv'
  <2>1. /\ UNCHANGED <<target, step, sent, swallowed, refused>>
        /\ pc = "work" /\ pc' = "dump" /\ t \in todo /\ todo' = todo \ {t} /\ current' = {t}
        /\ csv' = [csv EXCEPT ![t] = "cut"]
    BY <1>2 DEF BeginTable, pushers, faults
  <2>2. step[t] = "idle" /\ current = {}
    BY <2>1 DEF WorkInv
  <2>3. Unsent' /\ AtExit' /\ OneCurrent'
    BY <2>1 DEF FilledInv, AfterLoad, Unsent, AtExit, OneCurrent
  <2>4. Complete' => Complete /\ Placed'
    BY <2>1, <2>2 DEF FilledInv, AfterLoad, Complete, Placed
  <2>5. Complete' => Written'
    BY <1>0, <2>1, <2>2 DEF FilledInv, AfterLoad, Complete, Written
  <2>6. Complete' => Pushed'
    BY <2>1 DEF FilledInv, AfterLoad, Complete, Pushed, Filled
  <2> QED
    BY <2>3, <2>4, <2>5, <2>6 DEF FilledInv, AfterLoad
<1>3. ASSUME NEW t \in Table, EndTable(t) PROVE FilledInv'
  <2>1. /\ UNCHANGED <<target, todo, sent, swallowed, refused>>
        /\ pc = "dump" /\ pc' = "work" /\ t \in current /\ current' = {}
        /\ csv' = [csv EXCEPT ![t] = IF dat = [s \in Source |-> "whole"] THEN "whole" ELSE "short"]
        /\ step' = [step EXCEPT ![t] = "posted"]
    BY <1>3 DEF EndTable, faults
  <2>2. step[t] = "idle"
    BY <2>1 DEF WorkInv
  <2>3. Unsent' /\ AtExit' /\ OneCurrent'
    BY <1>0, <2>1, <2>2 DEF FilledInv, AfterLoad, Unsent, AtExit, OneCurrent
  <2>4. Complete' => Placed'
    BY <1>0, <2>1 DEF FilledInv, AfterLoad, OneCurrent, Complete, Placed
  <2>5. Complete' => Written'
    <3>1. swallowed = {} => dat = [s \in Source |-> "whole"]
      BY <2>1, BothWhole DEF AfterLoad
    <3> QED
      BY <1>0, <2>1, <3>1 DEF FilledInv, AfterLoad, Complete, Written
  <2>6. Complete' => Pushed'
    BY <1>0, <2>1 DEF FilledInv, AfterLoad, Complete, Pushed, Filled
  <2> QED
    BY <2>3, <2>4, <2>5, <2>6 DEF FilledInv, AfterLoad
<1>4. CASE EndWork \/ JoinPushers \/ DeletePool
  <2>1. /\ UNCHANGED <<csv, target, todo, current, step, sent, swallowed, refused>>
        /\ pc \in AfterLoad /\ (todo = {} \/ pc \in {"join", "delete"})
    BY <1>4 DEF EndWork, JoinPushers, DeletePool, AfterLoad, disk, pushers, faults
  <2>2. Complete' => Complete
    BY <2>1 DEF Complete
  <2>3. /\ Placed' = Placed /\ Written' = Written /\ Pushed' = Pushed
        /\ Unsent' = Unsent /\ OneCurrent' = OneCurrent
    BY <2>1 DEF Placed, Written, Pushed, Filled, Unsent, OneCurrent
  <2>4. AtExit'
    BY <2>1 DEF FilledInv, AtExit
  <2> QED
    BY <2>2, <2>3, <2>4 DEF FilledInv
<1> QED
  BY <1>1, <1>2, <1>3, <1>4 DEF Work

(* The rows a Pusher has sent, and one more.                               *)
LEMMA RowsSent ==
  /\ [b \in 1..0 |-> b] = <<>>
  /\ \A n \in Nat : Append([b \in 1..n |-> b], n + 1) = [b \in 1..(n + 1) |-> b]
<1>1. [b \in 1..0 |-> b] = <<>>
  OBVIOUS
<1>2. ASSUME NEW n \in Nat
      PROVE  Append([b \in 1..n |-> b], n + 1) = [b \in 1..(n + 1) |-> b]
  <2> DEFINE s == [b \in 1..n |-> b]
             u == [b \in 1..(n + 1) |-> b]
  <2>1. s \in Seq(Nat) /\ Len(s) = n
    OBVIOUS
  <2>2. n + 1 \in Nat /\ u \in [1..(n + 1) -> Nat] /\ \A b \in 1..(n + 1) : u[b] = b
    OBVIOUS
  <2>3. \A b \in 1..n : s[b] = b
    OBVIOUS
  <2> HIDE DEF s, u
  <2>4. /\ Append(s, n + 1) \in Seq(Nat) /\ Len(Append(s, n + 1)) = n + 1
        /\ \A b \in 1..(n + 1) : Append(s, n + 1)[b] = b
    BY <2>1, <2>2, <2>3
  <2>5. Append(s, n + 1) \in [1..(n + 1) -> Nat]
    BY <2>2, <2>4, LenProperties
  <2>6. Append(s, n + 1) = u
    BY <2>2, <2>4, <2>5
  <2> QED
    BY <2>6 DEF s, u
<1> QED
  BY <1>1, <1>2

(* One Pusher's step leaves the other tables as they are.                  *)
LEMMA OtherTables ==
  ASSUME TypeOK, FilledInv, NEW t \in Table, UNCHANGED <<csv, pc, todo, current, swallowed>>,
         step' \in [Table -> {"idle", "posted", "done"} \cup Steps],
         \A u \in Table \ {t} : /\ step'[u] = step[u] /\ sent'[u] = sent[u]
                                /\ target'[u] = target[u]
                                /\ u \in refused => u \in refused',
         step[t] # "idle", step'[t] # "idle",
         step'[t] \in {"posted", "schema", "create"} => sent'[t] = 0,
         Complete /\ csv[t] = "whole" /\ t \notin refused' =>
           /\ step'[t] \in {"fill", "done"} => Filled(t)'
           /\ step'[t] = "done" => sent'[t] = BatchCount[t]
  PROVE  FilledInv'
<1>1. Unsent'
  BY DEF FilledInv, Unsent
<1>2. AtExit'
  BY DEF FilledInv, AtExit
<1>3. OneCurrent'
  BY DEF FilledInv, OneCurrent
<1>4. Complete' => Complete
  BY DEF Complete
<1>5. Complete => Placed'
  BY DEF FilledInv, Placed
<1>6. Complete => Written'
  BY DEF FilledInv, Written
<1>7. Complete => Pushed'
  <2> SUFFICES ASSUME Complete, NEW u \in Table, u \notin refused'
               PROVE  /\ step'[u] \in {"fill", "done"} => Filled(u)'
                      /\ step'[u] = "done" => sent'[u] = BatchCount[u]
    BY DEF Pushed
  <2>1. CASE u = t
    BY <2>1 DEF FilledInv, Written
  <2>2. CASE u # t
    BY <2>2 DEF FilledInv, Pushed, Filled
  <2> QED
    BY <2>1, <2>2
<1> QED
  BY <1>1, <1>2, <1>3, <1>4, <1>5, <1>6, <1>7 DEF FilledInv

(* A table whose rows are replaced is otherwise the same.                  *)
LEMMA RowsExtended ==
  ASSUME NEW old, NEW new, NEW r, r = [made |-> TRUE, from |-> "whole", rows |-> old]
  PROVE  [r EXCEPT !.rows = new] = [made |-> TRUE, from |-> "whole", rows |-> new]
<1> DEFINE x == [r EXCEPT !.rows = new]
<1>1. x \in [made : {TRUE}, from : {"whole"}, rows : {new}]
  OBVIOUS
<1> HIDE DEF x
<1>2. x = [made |-> TRUE, from |-> "whole", rows |-> new]
  BY <1>1
<1> QED
  BY <1>2 DEF x

LEMMA PushFills == TypeOK /\ WorkInv /\ PoolInv /\ FilledInv /\ Push => FilledInv'
<1> SUFFICES ASSUME TypeOK, WorkInv, PoolInv, FilledInv, Push PROVE FilledInv'
  OBVIOUS
<1>1. /\ posted \in Seq(Table) /\ step \in [Table -> {"idle", "posted", "done"} \cup Steps]
      /\ sent \in [Table -> Nat] /\ \A t \in Table : sent[t] <= BatchCount[t]
      /\ target \in [Table -> [made : BOOLEAN, from : Extent, rows : Seq(Nat)]]
      /\ BatchCount \in [Table -> Nat]
  BY TypeParts, Constants DEF PushersType, TargetType
<1>2. CASE BeginPush
  <2>1. Head(posted) = posted[1] /\ 1 \in DOMAIN posted /\ posted[1] \in Table
    BY <1>1, <1>2 DEF BeginPush
  <2>2. PICK t \in Table : t = Head(posted) /\ step[t] = "posted"
    BY <2>1 DEF WorkInv
  <2>3. /\ step' = [step EXCEPT ![t] = "schema"]
        /\ UNCHANGED <<csv, pc, todo, current, swallowed, refused, sent, target>>
    BY <1>2, <2>2 DEF BeginPush, disk, main, faults
  <2>4. sent[t] = 0
    BY <2>2 DEF FilledInv, Unsent
  <2> QED
    BY <1>1, <2>2, <2>3, <2>4, OtherTables DEF Steps
<1>3. ASSUME NEW t \in Table, PushStep(t) PROVE FilledInv'
  <2>1. UNCHANGED <<csv, pc, todo, current, swallowed>>
    BY <1>3 DEF PushStep, GetInstance, Connect, CreateSchema, CreateFinalTable, FlushSQL, EndPush,
                Refuse, disk, main, faults
  <2>2. CASE GetInstance(t) \/ Connect(t)
    <3>1. UNCHANGED <<step, sent, target, refused>>
      BY <2>2 DEF GetInstance, Connect, faults
    <3> QED
      BY <2>1, <3>1 DEF FilledInv, Unsent, AtExit, OneCurrent, Complete, Placed, Written,
                        Pushed, Filled
  <2>3. CASE CreateSchema(t)
    <3>1. /\ step[t] = "schema" /\ step' = [step EXCEPT ![t] = "create"]
          /\ UNCHANGED <<sent, target, refused>>
      BY <2>3 DEF CreateSchema, faults
    <3>2. sent[t] = 0
      BY <3>1 DEF FilledInv, Unsent
    <3> QED
      BY <1>1, <2>1, <3>1, <3>2, OtherTables DEF Steps
  <2>4. CASE CreateFinalTable(t)
    <3>1. /\ step[t] = "create" /\ step' = [step EXCEPT ![t] = "fill"] /\ UNCHANGED sent
          /\ \/ target' = [target EXCEPT ![t] = NewTable(t)] /\ refused' = refused
             \/ target' = [target EXCEPT ![t] = NoTable] /\ refused' = refused \cup {t}
      BY <2>4 DEF CreateFinalTable, Refuse, faults
    <3>2. sent[t] = 0
      BY <3>1 DEF FilledInv, Unsent
    <3>3. csv[t] = "whole" /\ t \notin refused' => Filled(t)'
      <4> SUFFICES ASSUME csv[t] = "whole", t \notin refused' PROVE Filled(t)'
        OBVIOUS
      <4>1. target'[t] = [made |-> TRUE, from |-> "whole", rows |-> <<>>]
        BY <1>1, <3>1 DEF NewTable
      <4>2. sent'[t] = 0
        BY <3>1, <3>2
      <4> QED
        BY <4>1, <4>2, RowsSent DEF Filled
    <3> QED
      BY <1>1, <2>1, <3>1, <3>2, <3>3, OtherTables DEF Steps
  <2>5. CASE FlushSQL(t)
    <3>1. /\ step[t] = "fill" /\ step' = step /\ sent' = [sent EXCEPT ![t] = @ + 1]
          /\ \/ /\ target' = [target EXCEPT ![t].rows = Append(@, sent[t] + 1)]
                /\ refused' = refused
             \/ target' = target /\ refused' = refused \cup {t}
             \/ ~target[t].made /\ target' = target /\ refused' = refused
      BY <1>1, <2>5 DEF FlushSQL, Refuse, faults
    <3>2. Complete /\ t \notin refused' => Filled(t)'
      <4> SUFFICES ASSUME Complete, t \notin refused' PROVE Filled(t)'
        OBVIOUS
      <4>1. target[t] = [made |-> TRUE, from |-> "whole", rows |-> [b \in 1..sent[t] |-> b]]
        BY <3>1 DEF FilledInv, Pushed, Filled
      <4>2. target' = [target EXCEPT ![t].rows = Append(@, sent[t] + 1)]
        <5>1. target[t].made = TRUE
          BY <4>1
        <5>2. ~(refused' = refused \cup {t})
          OBVIOUS
        <5> QED
          BY <3>1, <5>1, <5>2
      <4>3. target'[t] = [made |-> TRUE, from |-> "whole",
                          rows |-> Append([b \in 1..sent[t] |-> b], sent[t] + 1)]
        <5> DEFINE new == Append([b \in 1..sent[t] |-> b], sent[t] + 1)
        <5>1. target[t].rows = [b \in 1..sent[t] |-> b]
          BY <4>1
        <5>2. target'[t] = [target[t] EXCEPT !.rows = new]
          BY <1>1, <4>2, <5>1
        <5> HIDE DEF new
        <5>3. target'[t] = [made |-> TRUE, from |-> "whole", rows |-> new]
          BY <4>1, <5>2, RowsExtended
        <5> QED
          BY <5>3 DEF new
      <4>4. sent'[t] = sent[t] + 1 /\ sent[t] \in Nat
        BY <1>1, <3>1
      <4> QED
        BY <4>3, <4>4, RowsSent DEF Filled
    <3> QED
      BY <1>1, <2>1, <3>1, <3>2, OtherTables DEF Steps
  <2>6. CASE EndPush(t)
    <3>1. /\ step[t] = "fill" /\ step' = [step EXCEPT ![t] = "done"] /\ ~More(t)
          /\ UNCHANGED <<sent, target, refused>>
      BY <2>6 DEF EndPush, faults
    <3>2. sent[t] = BatchCount[t]
      BY <1>1, <3>1 DEF More
    <3>3. Complete /\ t \notin refused => Filled(t)'
      BY <3>1 DEF FilledInv, Pushed, Filled
    <3> QED
      BY <1>1, <2>1, <3>1, <3>2, <3>3, OtherTables DEF Steps
  <2> QED
    BY <1>3, <2>2, <2>3, <2>4, <2>5, <2>6 DEF PushStep
<1> QED
  BY <1>2, <1>3 DEF Push

LEMMA OthersFill == FilledInv /\ (Crash \/ UNCHANGED vars) => FilledInv'
<1> SUFFICES ASSUME FilledInv, Crash \/ UNCHANGED vars PROVE FilledInv'
  OBVIOUS
<1>1. CASE Crash
  BY <1>1 DEF Crash, Fresh, FilledInv, Unsent, AtExit, OneCurrent, Complete, AfterLoad
<1>2. CASE UNCHANGED vars
  BY <1>2 DEF vars, disk, main, pushers, faults, FilledInv, Unsent, AtExit, OneCurrent,
              Complete, Placed, Written, Pushed, Filled
<1> QED
  BY <1>1, <1>2

(* When the program ends, after whatever deaths and with whatever of       *)
(* earlier runs on disk and target, each table has the rows of both logs   *)
(* once, but for an exception that was swallowed or a statement refused.   *)
THEOREM EndsWithWholeTables == Spec => []TargetIsWhole
<1> DEFINE Inv == IndInv /\ MarksInOrder /\ FilledInv
<1>1. Init => Inv
  <2> SUFFICES ASSUME Init PROVE Inv
    OBVIOUS
  <2>1. MarksInOrder
    BY DEF Init, MarksInOrder, AfterLoad, Both, Source
  <2>2. FilledInv
    BY DEF Init, FilledInv, Unsent, AtExit, OneCurrent, Complete, AfterLoad
  <2> QED
    BY <2>1, <2>2, InitInd
<1>2. Inv /\ [Next]_vars => Inv'
  <2> SUFFICES ASSUME Inv, [Next]_vars PROVE Inv'
    OBVIOUS
  <2>1. MarksInOrder'
    BY FetchOrder, OthersOrder DEF IndInv, Next
  <2>2. FilledInv'
    BY FetchFills, WorkFills, PushFills, OthersFill DEF IndInv, Next
  <2> QED
    BY <2>1, <2>2, NextInd
<1>3. Inv => TargetIsWhole
  <2> SUFFICES ASSUME Inv, pc = "exit", swallowed = {}, NEW t \in Table, t \notin refused
               PROVE  target[t] = [made |-> TRUE, from |-> "whole",
                                   rows |-> [b \in 1..BatchCount[t] |-> b]]
    BY DEF TargetIsWhole
  <2>1. Complete /\ todo = {} /\ current = {} /\ step[t] \in {"idle", "done"}
      BY DEF Complete, FilledInv, AtExit, Quiet, Joined, IndInv, WorkInv, AfterLoad  <2>2. step[t] = "done"
    BY <2>1 DEF FilledInv, Placed
  <2> QED
    BY <2>1, <2>2 DEF FilledInv, Pushed, Filled
<1> HIDE DEF Inv
<1> QED
  BY <1>1, <1>2, <1>3, PTL DEF Spec
=============================================================================
