----------------------------- MODULE MCRowText -----------------------------
(* Values for TLC: each character alone, and the pairs in which one bears  *)
(* on the other.                                                           *)
EXTENDS RowText

MCValues ==
  {Blank} \cup {<<c>> : c \in Char \ {Zero}}
    \cup {<<"x", Esc>>, <<Esc, DQ>>, <<DQ, Comma>>, <<Apos, Marker>>, <<Apos, Apos>>,
          <<NL, DQ>>}

(* The marker too: a NULL is kept as it.                                   *)
MCDefaults ==
  {NoDefault, [text |-> <<Marker>>, value |-> Blank],
   [text |-> <<"x">>, value |-> <<"x">>], [text |-> <<"x">>, value |-> Null]}
=============================================================================
