--------------------------- MODULE ClusterConfig ---------------------------
(***************************************************************************)
(* What each process of a job takes itself for: utils/distribution_utils.py*)
(* and the TF_CONFIG helpers of utils/estimator_utils.py.                  *)
(*                                                                         *)
(* The platform starts every process with a TF_CONFIG: the cluster (hosts  *)
(* by job name) and the task of this process in it.  EasyRec rewrites it   *)
(* on its own in each process: a worker becomes the chief, another one may *)
(* become the evaluator, a chief may become a master.  Then TensorFlow     *)
(* listens at the address the task names, and the inputs divide the data   *)
(* by the index and the number of the tasks.                               *)
(*                                                                         *)
(* A host is named by the task the platform gave to the process on it.     *)
(***************************************************************************)
EXTENDS Integers, Sequences, FiniteSets

CONSTANTS Jobs \* the jobs to try, see IsJob

Names == {"ps", "chief", "master", "worker", "evaluator"}

(* launch: pai_jobs/run.py, a DS job, or train_eval.py with a TF_CONFIG    *)
(* of its own.  given: the number of processes the platform starts under   *)
(* each name.  bare: NoStrategy.                                           *)
IsJob(j) ==
  /\ j.launch \in {"pai", "ds", "plain"} /\ j.cmd \in {"train", "evaluate"}
  /\ j.bare \in BOOLEAN /\ j.method \in {"none", "master", "separate"}
  /\ "worker" \in DOMAIN j.given /\ DOMAIN j.given \subseteq Names
  /\ \A name \in DOMAIN j.given : j.given[name] \in Nat \ {0}

Count(j, name) == IF name \in DOMAIN j.given THEN j.given[name] ELSE 0
Leaders(j) == Count(j, "chief") + Count(j, "master")

ASSUME JobsAssumption ==
  \A j \in Jobs :
    /\ IsJob(j)
    /\ Leaders(j) <= 1 /\ Count(j, "evaluator") <= Leaders(j)
    /\ j.launch = "pai" => Leaders(j) = Count(j, "evaluator")
    /\ j.launch = "ds" => Leaders(j) = 0 /\ "ps" \in DOMAIN j.given
    /\ j.launch = "plain" => Leaders(j) = 1
    \* without a parameter server one worker evaluates alone (run.py 395)
    /\ j.cmd = "evaluate" =>
         /\ Leaders(j) = 0 /\ j.bare /\ j.method = "none"
         /\ "ps" \in DOMAIN j.given \/ Count(j, "worker") = 1
    \* asserted by set_tf_config_and_get_train_worker_num
    /\ j.launch = "pai" /\ j.method = "separate" /\ Leaders(j) = 0 =>
         Count(j, "worker") > 1

VARIABLES
  job,      \* the job
  tfConfig, \* tfConfig[p]: os.environ['TF_CONFIG'] of p
  stage     \* stage[p]: "started", "configured", "evaluates" (distribute_evaluate)

clusterVars == <<job, tfConfig, stage>>

Task(type, index) == [type |-> type, index |-> index]

Procs == UNION {{Task(name, i) : i \in 0..(job.given[name] - 1)} : name \in DOMAIN job.given}

HostsOf(name) == [i \in 1..Count(job, name) |-> Task(name, i - 1)]

(* Task t after a renaming of its job.                                     *)
Retyped(t, from, to) == IF t.type = from THEN [t EXCEPT !.type = to] ELSE t

(* A cluster without one of its jobs, and with a job added.                *)
Without(cluster, name) == [n \in DOMAIN cluster \ {name} |-> cluster[n]]
With(cluster, name, hosts) ==
  [n \in DOMAIN cluster \cup {name} |-> IF n = name THEN hosts ELSE cluster[n]]

---------------------------------------------------------------------------
(* The rewritings.                                                         *)

(* chief_to_master.                                                        *)
ChiefToMaster(cfg) ==
  IF "chief" \notin DOMAIN cfg.cluster THEN cfg
  ELSE [cluster |-> With(Without(cfg.cluster, "chief"), "master", cfg.cluster["chief"]),
        task |-> Retyped(cfg.task, "chief", "master")]

(* master_to_chief: it stores the chief and deletes it again.              *)
MasterToChief(cfg) ==
  IF "master" \notin DOMAIN cfg.cluster THEN cfg
  ELSE [cluster |-> Without(cfg.cluster, "chief"),
        task |-> Retyped(cfg.task, "master", "chief")]

ForMethod(cfg) ==
  CASE job.method = "none"     -> MasterToChief(cfg)
    [] job.method = "master"   -> ChiefToMaster(cfg)
    [] job.method = "separate" -> cfg

(* Faulty variant: the list of workers loses the first only.               *)
LeadByOne(roles, cfg, p) ==
  LET workers == HostsOf("worker")
      Taken(name) == CASE name = "chief"  -> <<workers[1]>>
                       [] name = "evaluator" -> <<workers[2]>>
                       [] name = "worker" -> SubSeq(workers, 2, Len(workers))
                       [] name = "ps"     -> cfg.cluster["ps"]
      names == {"chief", "worker"} \cup (DOMAIN cfg.cluster \cap {"ps"})
                 \cup (IF ~job.bare /\ Len(roles) = 2 THEN {"evaluator"} ELSE {})
  IN [cluster |-> [name \in names |-> Taken(name)],
      task |-> IF p.type = "ps" THEN p
               ELSE IF p.index < Len(roles) THEN Task(roles[p.index + 1], 0)
               ELSE Task("worker", p.index - Len(roles))]

(* The first workers take these roles, the others move up.                 *)
Lead(roles, cfg, p) ==
  LET workers == HostsOf("worker")
      Taken(name) == CASE name = "chief"  -> <<workers[1]>>
                       [] name = "evaluator" -> <<workers[2]>>
                       [] name = "worker" -> SubSeq(workers, Len(roles) + 1, Len(workers))
                       [] name = "ps"     -> cfg.cluster["ps"]
      names == {"chief", "worker"} \cup (DOMAIN cfg.cluster \cap {"ps"})
                 \cup (IF ~job.bare /\ Len(roles) = 2 THEN {"evaluator"} ELSE {})
  IN [cluster |-> [name \in names |-> Taken(name)],
      task |-> IF p.type = "ps" THEN p
               ELSE IF p.index < Len(roles) THEN Task(roles[p.index + 1], 0)
               ELSE Task("worker", p.index - Len(roles))]

(* eval_method separate: an evaluator the platform started (without a      *)
(* distribution strategy it leaves the cluster), or else the second worker.*)
Separate(cfg, p) ==
  IF "evaluator" \in DOMAIN cfg.cluster
  THEN IF job.bare THEN [cfg EXCEPT !.cluster = Without(@, "evaluator")] ELSE cfg
  ELSE Lead(<<"chief", "evaluator">>, cfg, p)

(* Otherwise an evaluator trains as the last worker, or else the first     *)
(* worker is the chief.                                                    *)
AllTrain(cfg, p) ==
  IF "evaluator" \in DOMAIN cfg.cluster
  THEN LET trainers == 1 + Leaders(job) + Count(job, "worker") IN
       [cluster |-> [Without(cfg.cluster, "evaluator") EXCEPT
                       !["worker"] = Append(@, cfg.cluster["evaluator"][1])],
        task |-> IF p.type = "evaluator" THEN Task("worker", trainers - 2) ELSE p]
  ELSE Lead(<<"chief">>, cfg, p)

(* run.py: set_tf_config_and_get_train_worker_num.                         *)
OnPai(cfg, p) ==
  IF job.method = "separate" THEN Separate(cfg, p) ELSE ForMethod(AllTrain(cfg, p))

(* set_tf_config_and_get_train_worker_num_on_ds, and the other one that    *)
(* eval.py calls.                                                          *)
OnDs(cfg, p) ==
  IF "ps" \notin DOMAIN cfg.cluster \/ "evaluator" \in DOMAIN cfg.cluster THEN cfg
  ELSE LET roles == IF job.cmd = "train" THEN <<"chief", "evaluator">> ELSE <<"chief">>
           led == Lead(roles, cfg, p)
       IN [led EXCEPT !.cluster = Without(@, "evaluator")]

---------------------------------------------------------------------------
ClusterInit ==
  /\ job \in Jobs
  /\ tfConfig = [p \in Procs |->
       [cluster |-> [name \in DOMAIN job.given |-> HostsOf(name)], task |-> p]]
  /\ stage = [p \in Procs |-> "started"]

(* The process rewrites its TF_CONFIG before it looks at anything else.    *)
Configure(p) ==
  /\ stage[p] = "started" /\ stage' = [stage EXCEPT ![p] = "configured"]
  /\ tfConfig' = [tfConfig EXCEPT ![p] =
       CASE job.launch = "pai"   -> OnPai(@, p)
         [] job.launch = "ds"    -> OnDs(@, p)
         [] job.launch = "plain" -> @]
  /\ UNCHANGED job

(* evaluate and distribute_evaluate turn the chief into a master once more.*)
DistributeEval(p) ==
  /\ stage[p] = "configured" /\ job.cmd = "evaluate"
  /\ stage' = [stage EXCEPT ![p] = "evaluates"]
  /\ tfConfig' = [tfConfig EXCEPT ![p] = ChiefToMaster(@)]
  /\ UNCHANGED job

---------------------------------------------------------------------------
(* What the rest of the program asks of a TF_CONFIG.                       *)

ClusterOf(p) == tfConfig[p].cluster
TaskOf(p) == tfConfig[p].task

IsChief(p) == TaskOf(p).type \in {"chief", "master"}
IsEvaluator(p) == TaskOf(p).type = "evaluator"
IsPs(p) == TaskOf(p).type = "ps"

HasLeader(p) == DOMAIN ClusterOf(p) \cap {"chief", "master"} # {}

(* get_task_index_and_num.                                                 *)
TaskNum(p) ==
  IF "worker" \notin DOMAIN ClusterOf(p) \/ IsEvaluator(p) THEN 1
  ELSE Len(ClusterOf(p)["worker"]) + (IF HasLeader(p) THEN 1 ELSE 0)

(* Faulty variant: the chief moves up with the workers.                    *)
TaskIndexOfAll(p) ==
  IF "worker" \notin DOMAIN ClusterOf(p) \/ IsEvaluator(p) THEN 0
  ELSE TaskOf(p).index + (IF HasLeader(p) THEN 1 ELSE 0)

(* Faulty variant: the leader is not found under its name of a master.     *)
TaskIndexByChief(p) ==
  IF "worker" \notin DOMAIN ClusterOf(p) \/ IsEvaluator(p) THEN 0
  ELSE TaskOf(p).index + (IF "chief" \in DOMAIN ClusterOf(p) /\ ~IsChief(p) THEN 1 ELSE 0)

TaskIndex(p) ==
  IF "worker" \notin DOMAIN ClusterOf(p) \/ IsEvaluator(p) THEN 0
  ELSE TaskOf(p).index + (IF HasLeader(p) /\ ~IsChief(p) THEN 1 ELSE 0)

(* TensorFlow refuses a task whose job is not in the cluster; the evaluator*)
(* has its own server or none.                                             *)
InCluster(p) == IsEvaluator(p) \/ TaskOf(p).type \in DOMAIN ClusterOf(p)

=============================================================================
