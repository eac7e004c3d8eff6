------------------------------ MODULE RowOrder ------------------------------
(***************************************************************************)
(* The precedence between two rows that fall on the same key.              *)
(*                                                                         *)
(* Rows come from two source databases.  UniqueIndex::checkRow keeps one   *)
(* row per key and decides by updated_at, then by the source, then by the  *)
(* stamp, the row's position in the log of its source.  updated_at is a    *)
(* string compared lexicographically in the code; only its order matters,  *)
(* so it is a natural number here (0 is the empty string).                 *)
(***************************************************************************)
EXTENDS Naturals

Version == [upd : Nat, source : Nat, stamp : Nat]

(* Does the arriving version replace the one the index already holds?      *)
Supersedes(new, old) ==
  \/ old.upd < new.upd
  \/ old.upd = new.upd /\ new.source < old.source
  \/ old.upd = new.upd /\ new.source = old.source /\ new.stamp > old.stamp

(* The rows of a set of [key, ver] entries that no entry of their key      *)
(* supersedes.                                                             *)
Newest(entries) ==
  {e \in entries : \A f \in entries : f.key = e.key => ~Supersedes(f.ver, e.ver)}
=============================================================================
