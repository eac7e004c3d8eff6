---------------------------- MODULE MCTwoSources ----------------------------
(* Values for TLC: two tables, alone in their databases or not, whose paths *)
(* make two names or one.                                                   *)
EXTENDS TwoSources, TLC

MCTable == {"t", "u"}
MCDbOf == "t" :> "d" @@ "u" :> "e"
MCStems == {[x \in MCTable |-> x], [x \in MCTable |-> "t"]}

(* Logs about t alone may be longer, with one of the two: nothing makes    *)
(* the other's name.                                                       *)
MCMaxEvents ==
  [f \in MCStems |-> [T \in SUBSET MCTable |-> IF T = {"t"} /\ f["u"] = "u" THEN 8 ELSE 5]]
=============================================================================
