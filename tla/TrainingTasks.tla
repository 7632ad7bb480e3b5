---- MODULE TrainingTasks ----
(***************************************************************************)
(* The training tasks of one parameter server job.  TF_CONFIG lists the    *)
(* leader under its own job name and the others under "worker": here all   *)
(* of them are workers, as they all run the same train loop.               *)
(***************************************************************************)
EXTENDS FiniteSets

CONSTANTS
  Workers,  \* every task that runs the train loop, the leader among them
  Chief     \* the leader: the task whose run_config.is_chief is true

ASSUME ClusterAssumption == Chief \in Workers /\ IsFiniteSet(Workers)

(* run_config.num_worker_replicas, which sizes the token queue, the        *)
(* aggregation and the exit barrier.                                       *)
NumWorkers == Cardinality(Workers)
====
