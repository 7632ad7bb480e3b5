----------------------------- MODULE JobInputs -----------------------------
(***************************************************************************)
(* Which rows each process of a job trains on and evaluates.  The inputs   *)
(* (main._get_input_fn and the classes of input/) divide their data by the *)
(* index and number of the tasks that ClusterConfig gives; what the tasks  *)
(* read between them is nobody's code.                                     *)
(*                                                                         *)
(* A row is the file (or partition, or shard) it is in and its place in    *)
(* it.  The shuffle after the division has a seed, and changes no share;   *)
(* the shuffle of the files before it has none: see FileOrders.            *)
(***************************************************************************)
EXTENDS ClusterConfig, CriteoReader

CONSTANTS
  Datas,       \* the inputs to try, see DataType
  MaxPasses    \* bound: evaluations by one process

(* kind: the input class.  redundant, fileShard: data_config.chief_redundant*)
(* and file_shard.  shuffle: data_config.shuffle, for the inputs that      *)
(* shuffle their files.  limited: eval_config.num_examples is set.  files: *)
(* rows of each file.                                                      *)
Kinds == {"csv", "hive", "hive_parquet", "parquet_v3", "odps", "kafka", "datahub",
          "tfrecord", "criteo"}
DataType == [kind : Kinds, redundant : BOOLEAN, fileShard : BOOLEAN, shuffle : BOOLEAN,
             limited : BOOLEAN, files : Seq(Nat \ {0})]

ASSUME DatasAssumption ==
  /\ MaxPasses \in Nat \ {0}
  /\ \A d \in Datas : d \in DataType /\ Len(d.files) > 0
  \* with more files CriteoReader reads rows twice, or none (see the README)
  /\ \A d \in Datas : d.kind = "criteo" => Len(d.files) = 1

VARIABLES
  data,    \* the input
  reads,   \* reads[p]: <<>>, then <<the rows p has read in an epoch of training>>
  evals,   \* evals[p]: its evaluations so far, each as the sequence of the
           \*   batches it read (criteo) or as one batch of all its rows
  reader,  \* reader[p]: the evaluation input of p, see CriteoReader
  passing  \* passing[p]: p is in a pass over it

inputVars == <<data, reads, evals, reader, passing>>
jobVars == <<clusterVars, inputVars>>

Rows == RowsOf(data.files)

(* The orders in which a task may take the files, each as the turn of      *)
(* every file.  Three inputs shuffle them for training, with no seed: each *)
(* task has an order of its own.                                           *)
InOrder == [f \in DOMAIN data.files |-> f]

ShufflesFiles(mode) ==
  data.shuffle /\ mode = "train" /\ data.kind \in {"csv", "hive", "tfrecord"}

FileOrders(mode) ==
  IF ShufflesFiles(mode)
  THEN {turn \in [DOMAIN data.files -> DOMAIN data.files] :
          \A f, g \in DOMAIN data.files : turn[f] = turn[g] => f = g}
  ELSE {InOrder}

(* The place of a row in the stream of all files: how many come before it. *)
(* (interleave takes the files one after the other; with several parallel  *)
(* calls it alternates between them, in an order theirs determines.)       *)
Place(turn, row) ==
  Cardinality({r \in Rows : \/ turn[r[1]] < turn[row[1]]
                            \/ r[1] = row[1] /\ r[2] < row[2]})

---------------------------------------------------------------------------
(* The share of a task.                                                    *)

(* Whether an input is divided at all: outside of training some are not,   *)
(* a CSV input only among several tasks.                                   *)
Divides(mode, n) ==
  \/ mode = "train"
  \/ data.kind \in {"hive_parquet", "parquet_v3", "odps", "kafka", "datahub"}
  \/ data.kind = "csv" /\ n > 1

ByFile(mode, n) ==
  \/ data.kind \in {"parquet_v3", "kafka", "datahub"}
  \/ data.kind \in {"csv", "hive"} /\ data.fileShard /\ mode = "train"
  \/ data.kind = "hive_parquet" /\ Len(data.files) >= 2 * n

(* With chief_redundant the data is divided among the workers, and the     *)
(* chief reads along with the first of them.  Some inputs do not know it.  *)
SharesWithChief(mode) ==
  /\ data.redundant
  /\ \/ data.kind \in {"csv", "hive_parquet", "parquet_v3"}
     \/ data.kind \in {"hive", "odps", "kafka"} /\ mode = "train"

(* What decides whose a row is: its file, or its place in the stream.      *)
UnitOf(mode, n, turn, row) == IF ByFile(mode, n) THEN row[1] - 1 ELSE Place(turn, row)

(* The batches of a rank.                                                  *)
BatchesOf(i, n) == {Batches(data.files, i, n)[k] : k \in DOMAIN Batches(data.files, i, n)}

AtLeast(x, low) == IF x > low THEN x ELSE low

(* How many shares there are.                                              *)
Parts(mode, n) == IF SharesWithChief(mode) THEN AtLeast(n - 1, 1) ELSE n

(* Faulty variant: the tasks keep their own numbers.                       *)
ShareUnshifted(mode, i, n, turn) ==
  IF data.kind = "criteo" THEN UNION BatchesOf(i, n)
  ELSE IF Divides(mode, n)
       THEN {row \in Rows : UnitOf(mode, n, turn, row) % Parts(mode, n) = i}
       ELSE Rows

Share(mode, i, n, turn) ==
  LET mine == IF SharesWithChief(mode) THEN AtLeast(i - 1, 0) ELSE i
  IN IF data.kind = "criteo" THEN UNION BatchesOf(i, n)
     ELSE IF Divides(mode, n)
          THEN {row \in Rows : UnitOf(mode, n, turn, row) % Parts(mode, n) = mine}
          ELSE Rows

---------------------------------------------------------------------------
InputsInit ==
  /\ ClusterInit
  /\ data \in Datas
  /\ reads = [p \in Procs |-> <<>>]
  /\ evals = [p \in Procs |-> <<>>]
  /\ reader = [p \in Procs |-> ClosedReader]
  /\ passing = [p \in Procs |-> FALSE]

(* The estimator trains in the chief, the master and the workers.          *)
Trains(p) == job.cmd = "train" /\ ~IsEvaluator(p) /\ ~IsPs(p)

Evaluates(p) ==
  \/ job.cmd = "train" /\ (IsEvaluator(p) \/ TaskOf(p).type = "master")
  \/ job.cmd = "evaluate" /\ TaskOf(p).type \in {"master", "worker"}

(* An epoch of training.  TensorFlow refuses a task that is not in the     *)
(* cluster.                                                                *)
Train(p) ==
  /\ stage[p] = "configured" /\ Trains(p) /\ InCluster(p) /\ reads[p] = <<>>
  /\ \E turn \in FileOrders("train") :
       reads' = [reads EXCEPT ![p] = <<Share("train", TaskIndex(p), TaskNum(p), turn)>>]
  /\ UNCHANGED <<clusterVars, data, evals, reader, passing>>

(* An evaluation from its input function on; all but the criteo input are  *)
(* read in one step.                                                       *)
StartsEval(p) ==
  /\ stage[p] = (IF job.cmd = "train" THEN "configured" ELSE "evaluates")
  /\ Evaluates(p) /\ InCluster(p) /\ Len(evals[p]) < MaxPasses

Evaluate(p) ==
  /\ StartsEval(p) /\ data.kind # "criteo"
  /\ evals' = [evals EXCEPT ![p] = Append(@,
       <<Share("eval", TaskIndex(p), TaskNum(p), InOrder)>>)]
  /\ UNCHANGED <<clusterVars, data, reads, reader, passing>>

(* The criteo input opens its reader once; each evaluation is a pass over  *)
(* it that ends with the reader, or after num_examples of them.            *)
StartPass(p) ==
  /\ StartsEval(p) /\ data.kind = "criteo" /\ ~passing[p]
  /\ passing' = [passing EXCEPT ![p] = TRUE]
  /\ reader' = [reader EXCEPT ![p] =
       Rewound(IF @ # ClosedReader THEN @
               ELSE OpenReader(data.files, TaskIndex(p), TaskNum(p)))]
  /\ UNCHANGED <<clusterVars, data, reads, evals>>

NextItem(p) ==
  /\ passing[p] /\ reader[p].idx < Len(reader[p].batches)
  /\ reader' = [reader EXCEPT ![p] = GetItem(@)]
  /\ UNCHANGED <<clusterVars, data, reads, evals, passing>>

EndPass(p) ==
  /\ passing[p]
  /\ \/ reader[p].idx = Len(reader[p].batches)
     \/ data.limited /\ reader[p].idx > 0
  /\ passing' = [passing EXCEPT ![p] = FALSE]
  /\ evals' = [evals EXCEPT ![p] = Append(@, reader[p].got)]
  /\ UNCHANGED <<clusterVars, data, reads, reader>>

ClusterStep(p) == (Configure(p) \/ DistributeEval(p)) /\ UNCHANGED inputVars

JobNext ==
  \E p \in Procs : \/ ClusterStep(p) \/ Train(p) \/ Evaluate(p)
                   \/ StartPass(p) \/ NextItem(p) \/ EndPass(p)

JobSpec == InputsInit /\ [][JobNext]_jobVars

---------------------------------------------------------------------------
(* Properties.                                                             *)

AllConfigured == \A p \in Procs : stage[p] # "started"
Trainers == {p \in Procs : Trains(p)}

(* The processes that train number themselves 0, 1, ... without a gap and  *)
(* agree on how many they are: each rewrites its own TF_CONFIG             *)
(* (distribution_utils.py), and a number used twice or left out is a share *)
(* of the data read twice or never.  The same goes for a distributed       *)
(* evaluation.                                                             *)
TasksNumbered ==
  AllConfigured =>
    LET tasks == {p \in Procs : ~IsPs(p) /\ ~IsEvaluator(p)} IN
    /\ {TaskIndex(p) : p \in tasks} = 0..(Cardinality(tasks) - 1)
    /\ \A p \in tasks : TaskNum(p) = Cardinality(tasks)

(* The address a process finds for its task is its own, all see the same   *)
(* cluster, and one of them is the chief: TensorFlow starts a server there *)
(* and waits for the others.  (A master that master_to_chief renames is in *)
(* no cluster at all.)                                                     *)
AddressesFit ==
  AllConfigured =>
    /\ \A p \in Procs : LET t == TaskOf(p) IN
         t.type \in DOMAIN ClusterOf(p) => ClusterOf(p)[t.type][t.index + 1] = p
    /\ \A p, q \in Procs : stage[p] = stage[q] => ClusterOf(p) = ClusterOf(q)
    /\ Cardinality({p \in Procs : IsChief(p)}) = 1

(* An epoch of training reads every row, and reads it once.  The chief's   *)
(* gradients are dropped under chief_redundant (easy_rec_estimator.py 349):*)
(* no row is the chief's alone, unless the input does not know the setting *)
(* or there is no worker to read along.  The criteo input gives every task *)
(* the same number of batches, and so some rows to two of them.  Without a *)
(* claim are tasks that divide the rows of several files that each of them *)
(* has shuffled for itself.                                                *)
Learners == {p \in Trainers : ~(data.redundant /\ IsChief(p))}

OwnOrder(mode, n) ==
  /\ ShufflesFiles(mode) /\ ~ByFile(mode, n)
  /\ Len(data.files) > 1 /\ Parts(mode, n) > 1

EpochRead == AllConfigured /\ Trainers # {} /\ \A p \in Trainers : reads[p] # <<>>

TrainedOnce ==
  EpochRead /\ (\A p \in Trainers : ~OwnOrder("train", TaskNum(p))) =>
    \A row \in Rows :
      LET readers == {p \in Trainers : row \in reads[p][1]} IN
      /\ readers # {}
      /\ data.kind # "criteo" => Cardinality(readers \cap Learners) <= 1
      /\ (data.redundant => SharesWithChief("train") /\ Cardinality(Trainers) > 1) =>
           readers \cap Learners # {}

(* The processes of a distributed evaluation count every row equally often:*)
(* what they add up are counts (the first evaluation of each).  That fails *)
(* for the inputs that share with the chief in every mode, and where       *)
(* criteo batches overlap; there no row is left out.                       *)
Counts(row) ==
  UNION {{p} \X {b \in DOMAIN evals[p][1] : row \in evals[p][1][b]} :
           p \in {p \in Procs : ~IsPs(p)}}

EvaluatedAlike ==
  job.cmd = "evaluate" /\ ~data.limited /\ (\A p \in Procs : IsPs(p) \/ evals[p] # <<>>) =>
    /\ \A row \in Rows : Counts(row) # {}
    /\ data.kind # "criteo" /\ ~SharesWithChief("eval") =>
         \A row, other \in Rows : Cardinality(Counts(row)) = Cardinality(Counts(other))

(* A criteo pass that runs to the end of the reader hands out the reader's *)
(* batches in order, if no earlier one of that process was cut short       *)
(* (num_examples); and the tasks have equally many batches.                *)
PassWhole ==
  data.kind = "criteo" =>
    \A p \in Procs :
      /\ \A k \in DOMAIN evals[p] :
           (\A i \in 1..k : Len(evals[p][i]) = Len(reader[p].batches)) =>
             evals[p][k] = reader[p].batches
      /\ \A q \in Procs : ClosedReader \notin {reader[p], reader[q]} /\ TaskNum(p) = TaskNum(q) =>
           Len(reader[p].batches) = Len(reader[q].batches)
=============================================================================
