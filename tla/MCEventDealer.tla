--------------------------- MODULE MCEventDealer ---------------------------
(* Instances of EventDealer for TLC.                                       *)
EXTENDS EventDealer

CONSTANTS t1, t2, db1, db2

TwoDbs == (t1 :> db1) @@ (t2 :> db2)

(* A CREATE TABLE and a statement that fails or that Druid cannot parse    *)
(* may well be quiet, an ALTER TABLE and a DROP DATABASE may be so or not. *)
Statements ==
  [kind : {"create", "alter", "fails", "dropDb", "unread"}, quiet : {TRUE}]
    \cup [kind : {"alter", "dropTable", "rename", "dropDb", "unread"}, quiet : {FALSE}]
=============================================================================
