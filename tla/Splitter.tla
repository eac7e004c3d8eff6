------------------------------ MODULE Splitter ------------------------------
(***************************************************************************)
(* What splitting one source's log promises: every table gets one file per *)
(* statement that changed it, and a row is in the file of the statement    *)
(* that was the last for its table when the row was logged, behind the     *)
(* rows logged before it.  Rows are numbered by their place in the log.    *)
(***************************************************************************)
EXTENDS Integers, SequencesExt

CONSTANTS Table, Database, DbOf

VARIABLES
  length,  \* how many events of the log were dealt with
  files    \* the files of each table, in the order of their statements

Init == length = 0 /\ files = [t \in Table |-> <<>>]

Row(t) ==
  /\ files[t] # <<>>
  /\ length' = length + 1
  /\ files' = [files EXCEPT ![t] = Append(Front(@), Append(Last(@), length'))]

(* A statement without an effect on files, or one whose effect follows.    *)
Query == length' = length + 1 /\ UNCHANGED files

Change(t) == files' = [files EXCEPT ![t] = Append(@, <<>>)] /\ UNCHANGED length

Drop(d) ==
  /\ files' = [t \in Table |-> IF DbOf[t] = d THEN <<>> ELSE files[t]]
  /\ UNCHANGED length

Next ==
  \/ Query
  \/ \E t \in Table : Row(t) \/ Change(t)
  \/ \E d \in Database : Drop(d)

Spec == Init /\ [][Next]_<<length, files>>
=============================================================================
