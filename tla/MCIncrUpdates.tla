--------------------------- MODULE MCIncrUpdates ---------------------------
(* Instances of IncrUpdates: an embedding of two rows.                     *)
EXTENDS IncrUpdates, TLC

MCVarOf == (1 :> "u") @@ (2 :> "u")
MCBatches == {{1}, {2}}

ASetting(redundant, dense, sparse, save) ==
  [redundant |-> redundant, dense |-> dense, sparse |-> sparse, save |-> save]

MCSettings ==
  {ASetting(FALSE, 1, 2, 1), ASetting(FALSE, 2, 1, 2), ASetting(TRUE, 1, 1, 1)}
=============================================================================
