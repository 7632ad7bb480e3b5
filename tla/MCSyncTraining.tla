--------------------------- MODULE MCSyncTraining ---------------------------
(* Instances of SyncTraining: two jobs.                                    *)
EXTENDS SyncTraining

(* Inputs of one or two batches and no session lost; one batch each and    *)
(* one session lost.                                                       *)
MCSettings == {[sizes |-> {1, 2}, losses |-> 0], [sizes |-> {1}, losses |-> 1]}
=============================================================================
