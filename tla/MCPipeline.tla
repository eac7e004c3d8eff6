----------------------------- MODULE MCPipeline -----------------------------
(* Values for TLC: a table that makes two batches, one that makes one, and  *)
(* one without rows.                                                        *)
EXTENDS Pipeline, TLC

CONSTANTS t1, t2, t3

MCBatchCount == t1 :> 2 @@ t2 :> 1 @@ t3 :> 0
=============================================================================
