---------------------------- MODULE MCSubWorker ----------------------------
(* Instances of SubWorker for TLC.                                         *)
EXTENDS SubWorker, MCUniqueTable

Single == [cols |-> <<Id>>, keys |-> << Key("", {1}) >>]

KeyedByV == [cols |-> <<Id, V, Upd>>, keys |-> << Key("uk", {2}) >>]

WorkCreates    == {Keyed, Keyless, KeyedByV}
AllCreates     == WorkCreates \cup {Single, NoUpd, TwoKeys}
PrimaryKeyOnly == {[name |-> "", isPrimary |-> TRUE, names |-> {"id"}]}
=============================================================================
