---------------------------- MODULE MCUniqueTable ----------------------------
(* Instances of UniqueTable for TLC.                                       *)
EXTENDS UniqueTable

MCName  == {"id", "v", "updated_at"}
MCValue == {0, 1}

Col(nm)    == [name |-> nm, def |-> -1]
Key(nm, C) == [name |-> nm, isPrimary |-> nm = "", cols |-> C]

Id  == Col("id")
V   == Col("v")
Upd == Col("updated_at")

Keyed   == [cols |-> <<Id, V, Upd>>, keys |-> << Key("", {1}) >>]
Keyless == [cols |-> <<Id, V, Upd>>, keys |-> <<>>]
TwoKeys == [cols |-> <<Id, V, Upd>>, keys |-> << Key("", {1}), Key("uk", {1, 2}) >>]
Narrow      == [cols |-> <<Id, Upd>>, keys |-> << Key("", {1}) >>]
NarrowNoKey == [cols |-> <<Id, Upd>>, keys |-> <<>>]
NoUpd       == [cols |-> <<Id, V>>, keys |-> << Key("", {1}) >>]
NoUpdNoKey  == [cols |-> <<Id, V>>, keys |-> <<>>]

(* One bit per column: distinct keys over the same columns do not collide. *)
PlaceValue(k) == MapThenSumSet(LAMBDA c : k[c] * 2^(c - 1), DOMAIN k)
(* Two rows collide when their keys have the same number of ones.          *)
DigitSum(k) == MapThenSumSet(LAMBDA c : k[c], DOMAIN k)
MCHash == 0..15

MCAddedKeys == {[name |-> "uk", isPrimary |-> FALSE, names |-> {"v"}]}

NoKeyClause == {}

AltersCreates      == {Keyed, Keyless, TwoKeys, Narrow, NarrowNoKey, NoUpd, NoUpdNoKey}
LastWriteCreates   == {Keyless, NarrowNoKey, NoUpd}
DropKeyCreates     == {Keyed}
SeveralKeysCreates == {TwoKeys}

SmallHash == 0..4
=============================================================================
