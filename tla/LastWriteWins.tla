---------------------------- MODULE LastWriteWins ----------------------------
(***************************************************************************)
(* What a rebuilt table promises: whatever the order in which the rows of  *)
(* the sources are offered, it holds, for each key, the one version that   *)
(* no other version of that key supersedes.                                *)
(*                                                                         *)
(* This is what TLC and TLAPS compare UniqueTable with; it stands for the  *)
(* rules of UniqueIndex::checkRow without index, slots or deletions.       *)
(***************************************************************************)
EXTENDS RowOrder

CONSTANT Key

Entry == [key : Key, ver : Version]

VARIABLES
  offers,  \* the entries the present contents are to be judged by
  table    \* the contents

Init == offers = {} /\ table = {}

(* A row arrives.                                                          *)
Offer ==
  /\ \E e \in offers' : e \in Entry /\ offers' = offers \cup {e}
  /\ table' = Newest(offers')

(* The key changes: the rows of the table, and only those, compete again   *)
(* under their new keys.                                                   *)
Versions(entries) == {e.ver : e \in entries}

Regroup ==
  /\ offers' \subseteq Entry
  /\ Versions(offers') = Versions(table)
  /\ table' = Newest(offers')

(* updated_at is added: the rows of the table get one and the same date,   *)
(* and compete again with it, under their old keys or new ones.            *)
Undated(entries) == {<<e.ver.source, e.ver.stamp>> : e \in entries}

Redate ==
  /\ offers' \subseteq Entry
  /\ \A e, f \in offers' : e.ver.upd = f.ver.upd
  /\ Undated(offers') = Undated(table)
  /\ table' = Newest(offers')

Next == Offer \/ Regroup \/ Redate
Spec == Init /\ [][Next]_<<offers, table>>
=============================================================================
