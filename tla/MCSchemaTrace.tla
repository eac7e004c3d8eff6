--------------------------- MODULE MCSchemaTrace ---------------------------
(* Values for TLC.                                                         *)
EXTENDS SchemaTrace, TLC

MCQuote == "id" :> "'id'" @@ "v" :> "'v'" @@ "w" :> "'w'" @@ "updated_at" :> "'updated_at'"
           @@ "uk" :> "'uk'"
MCName == {"id", "v", "w", "updated_at", "'id'", "'v'", "'w'", "'updated_at'"}
MCKeyName == {"uk", "'uk'"}
MCValue == {0}

Primary == [name |-> "", isPrimary |-> TRUE, names |-> {"id"}]
Unique  == [name |-> "uk", isPrimary |-> FALSE, names |-> {"id", "v"}]

MCCreates ==
  {[cols |-> <<"id", "v", "updated_at">>, keys |-> ks] :
     ks \in {<<>>, <<Primary>>, <<Unique>>, <<Primary, Unique>>}}
MCKeys == {Primary, Unique}

OneBucket(k) == 0
MCHash == {0}
NoClause == {}
=============================================================================
