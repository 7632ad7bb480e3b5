# EasyRec in TLA+

EasyRec trains and serves recommendation models on TensorFlow. Most of its code
builds graphs: layers, losses, feature columns. What this project models is the
rest, the code that decides *when* things happen and *who* does them: the
processes that load data, the replicas that train one model together, the
barrier that lets them exit, the shares of the data each task takes, the stream
offsets and embedding parts saved with checkpoints, the updates sent to who
serves the model, the life of a job from training to its last export, and the
order in which a model's blocks are called. A unit test of that code sees one
order of events; TLC looks at all of them on small instances, and TLAPS proves
the central properties for every instance.

1. [The system](#1-the-system)
2. [Modules](#2-modules)
3. [The parquet loader](#3-the-parquet-loader)
4. [Synchronous training and the exit barrier](#4-synchronous-training-and-the-exit-barrier)
5. [Stream offsets and checkpoints](#5-stream-offsets-and-checkpoints)
6. [The cluster and the inputs of a job](#6-the-cluster-and-the-inputs-of-a-job)
7. [Embedding parts](#7-embedding-parts)
8. [The component graph](#8-the-component-graph)
9. [The life of a job](#9-the-life-of-a-job)
10. [Incremental updates](#10-incremental-updates)
11. [What is proved](#11-what-is-proved)
12. [Where code and documents disagree](#12-where-code-and-documents-disagree)
13. [Not modelled](#13-not-modelled)
14. [Plan](#14-plan)
15. [Running it](#15-running-it)

Paths are relative to `src/easy_rec/python/`.

## 1. The system

| Component | State | Operations | Talks to | What is hard |
|---|---|---|---|---|
| **Parquet loader** `input/parquet_input.py`, `input/load_parquet.py`, `compat/queues.py` | four multiprocess queues, the data procs, their carried rows, `_proc_start` | build, generate, stop; each proc: read a file, cut batches, put, give up | the training loop pulls the generator; `main.py` calls `stop()` | feeder threads, timeouts of put and get, two ways to stop, a pass after a pass |
| **Synchronous training** `compat/sync_replicas_optimizer.py` | accumulators, global step, token queue on the parameter servers; local step and queue runner per replica | push, take a token, take the averages, update, advance, publish, session hooks | hooks of the estimator, the input (end of data) | several queue runners, stale gradients, lost sessions, closing the token queue |
| **Exit barrier** `utils/estimator_utils.py` | `exit_counter`, `exit_counter_signal` on ps 0, the chief's flag file | clear, count in, poll, send, receive, flag file | runs after the hook of the optimizer | queues older than the job, a chief that begins late, waiting for ever |
| **Hooks of the estimator** `model/easy_rec_estimator.py` | the list of hooks, `data_offset_var` | puts the above together | everything in training | order of the hooks, what an update op waits for |
| **Stream inputs** `input/kafka_input.py`, `input/datahub_input.py` | offsets per partition or shard, of the task and in the graph | parse, restore, assign partitions | `CheckpointSaverHook` writes `model.ckpt-N.offset` | prefetch runs ahead of training; crash and restart; the exact offset saved |
| **Incremental updates** `utils/estimator_utils.py`, `compat/optimizers.py`, `ops/incr_record.py` | rows touched since they were last read, timers, step of the last message | record, read and empty, gather, send; flush at the end | training runs of all workers; who serves the model | rows touched between reading and sending; the last step; restarts |
| **Cluster configuration** `utils/distribution_utils.py`, `utils/estimator_utils.py` | `TF_CONFIG` of each process | chief to master and back, shift of the workers, roles, index and number of tasks | every process, every input | each process rewrites its own; three launch paths must agree |
| **Inputs** `input/*.py`, `main.py` | the share of a task | divide by file, row, slice or partition | cluster configuration | `chief_redundant`, `file_shard`, evaluation by one or by all |
| **Criteo reader** `input/criteo_binary_reader.py` | start of each batch, queue of futures | position, submit, get | thread pool | shares of ranks, the end of a pass, an abandoned pass |
| **Train and evaluate** `compat/estimator_train.py`, `main.py` | checkpoints, `ESTIMATOR_TRAIN_DONE`, `export/` | train, evaluate, after_eval, final export, fit on eval | processes meet in `model_dir` only | check then act on files, files of earlier runs, a chief that dies |
| **Early stopping** `compat/early_stopping.py` | stop variable, `OSS_STOP_SIGNAL`, watcher thread | watch, request stop, check | training loop, evaluation events | who stops first, what the others wait for then |
| **Exporters** `compat/exporter.py` | best checkpoints, exports | compare, copy, collect garbage | evaluator | failures half way, which checkpoint is best after a restart |
| **Embedding saver** `compat/embedding_parallel_saver.py`, `ops/src/` | part files of each embedding | save, clear old parts, restore with another number of parts | horovod ranks | deletion and announcement race with saving; the number of parts is guessed |
| **Component graph** `utils/dag.py`, `layers/backbone.py` | nodes and edges, the packages of the class, inputs left in them | build, sort, nested calls | models | the order of a sort is any; packages are shared between uses |
| everything else | see section 13 | | | |

What makes each correct:

* loader: a pass yields each row of its files once, in batches cut in file
  order; the generator ends, and only when all procs are done; `stop()` returns
  and the next pass starts clean.
* synchronous training: no replica computes on variables older than its token;
  the variables move together; no gradient is lost silently; the job ends.
* exit barrier: nobody leaves while another trains; the chief leaves first;
  everybody leaves.
* stream offsets: how many messages a crash makes the job skip, and how many it
  makes it read again, is bounded by what is between parsing and training.
* incremental updates: a trained row reaches the reader, who has the trained
  model when the job has ended; messages of a kind do not overwrite each other.
* cluster and inputs: the tasks number themselves without a gap, each finds its
  own address, and together they read each row once in an epoch.
* lifecycle: the last checkpoint is evaluated and exported, the best one is
  kept, nobody fits on evaluation data too early, and everyone comes to an end.
* embedding saver: a restore puts each row of the last complete save in its
  place, whatever the two numbers of parts.
* component graph: a call finds every input it reads, in whatever order the
  sort gives, and a package reads the input that this use of it gave.

`PROJECT.json` lists the hazards of this code line by line, with the properties
that cover each, or the reason why none does; section 13 names some more.

## 2. Modules

```
SampleStream      what an input promises the training loop (abstract)
  ^ implements
ParquetLoader     parent, data procs, queues, feeder threads
  MCParquetLoader       file sizes for TLC
  ParquetLoader_proof   theorems: end marks, slots, the account of the rows,
                        the order of a file, the refinement

TrainingTasks     workers and chief
SyncReplicas      accumulators, tokens, queue runners, training loops
ExitBarrier       exit queues and flag file
SyncTraining      both as the hooks of one job (implements SyncReplicas)
  MCSyncTraining        jobs for TLC
  SyncTraining_proof    theorems: tokens and updates, the account of the
                        gradients, checkpoints, the barrier

StreamOffsets     online training: partitions, pipeline, offsets, checkpoints
  MCStreamOffsets, StreamOffsets_proof
IncrUpdates       (on TrainingTasks) rows touched, messages, the reader's model
  MCIncrUpdates, IncrUpdates_proof

ClusterConfig     TF_CONFIG as each process rewrites it
CriteoReader      shares, batches and prefetch queue of BinaryDataset
JobInputs         both composed: who reads which rows
  MCJobInputs           jobs and inputs for TLC
  JobInputs_proof       theorems: numbers, addresses, shares, passes

EmbeddingParts    ranks that save and restore parts of embeddings
  MCEmbeddingParts, EmbeddingParts_proof

Dag               topological sort, a step per node
Backbone          packages, their graphs, nested calls (on Dag)
  MCBackbone            configurations for TLC
  Backbone_proof        theorems: the sort on any graph, the graphs that are
                        built, the nesting of calls, the inputs

EarlyStopping     what is decided from the results of evaluations
Lifecycle         trainers, evaluator, files of model_dir (on TrainingTasks, EarlyStopping)
  MCLifecycle, Lifecycle_proof
```

Definitions called *Faulty variant* in a comment are not part of a
specification. They state a mistake somebody could make in the code at that
place, and each property that a run checks has one that breaks it.

## 3. The parquet loader

A parent process spawns data procs. `file_que` gives them file names, then one
`None` each; `data_que`, bounded by `prefetch_size`, carries batches back, then
one `None` per proc; `proc_start_que` and `proc_stop_que` carry one token per
proc. A put only hands the message to a feeder thread of the proc, which writes
it to a pipe; `compat/queues.py` adds to Python's queue a way to close without
waiting for that thread.

| Code | Model |
|---|---|
| parent: `_build`, `_sample_generator`, `stop` | `ppc`, `gen`; `Build`, `BuildFails`, `GenStart`, `GenGet`, `GenEmpty`, `StopUnstarted` ... `StopFinish` |
| `load_data_proc` | `pc[p]`, one action per loop turn: `WaitStart`, `SeeStop`/`SeeNoStop`, `GetFile`, `PutBatch`, `Carry`, `PutPadded`, `PutShort`, `SkipShort`, `PutEndMark`, `DrainFiles`, `Exit` |
| `_add_to_que`: put with timeout, then look for a stop token | `PutTimeout` (the proc enters `full`), then `PutAgain` or `GiveUp` |
| rows of the current file, rows carried between files | `todo[p]`, `part[p]` |
| buffer of a queue, its feeder thread, the pipe, its semaphore | `buffer[p]`, `inhand[p]`, `pipe`, `sem`; `FeedTake`, `FeedSend` |
| a proc that raises (`reserve` fields) | `Crash` |

A row is the pair of its file's turn and its place in it; columns are left out.
`delivered` and `ended` record what the generator has yielded and which procs
it has counted; no guard reads them. Timeouts may fire whenever what they wait
for is not there, the usual abstraction of time; a get that times out with a
message on its way is among the behaviours.

| Run | Instance | Shows |
|---|---|---|
| `pl_train` | 2 procs, files of 5 and 1 rows, 2 epochs, batches of 2, queue of 2, pipe of 1, `drop_remainder`, stop at any moment (1.8 M states) | `TypeOK`, `SlotsAccounted`, `FileOrder`, `EndMarkIsLast`; refinement of `SampleStream` (`ImplementsStream`) |
| `pl_rebuild` | evaluation of files of 5 and 2 rows, batches of 3, two passes, also stop before the first sample (100 k states) | `RunComplete`; liveness `GenEnds`, `StopReturnsInTime` |
| `pl_crash` | prediction with reserve fields: a proc dies on the rest of a file (10 k states) | `GenEndsClean`: the pass is never reported complete; liveness `StopReturnsInTime`: `stop()` still returns |

Why these bounds. Two procs are what it takes for end marks, stop tokens and
queue slots to be mixed up; files of 5 and 1 rows (batches of 2) and of 5 and 2
(batches of 3) make a proc carry rows over a file end, end exactly on a batch,
and join two rests to more than a batch; a queue of 2 makes both procs run into
a full queue; a pipe of 1 keeps messages in buffers and in the hands of feeder
threads when the stop comes. Two passes show what is left over from the first.

Fairness (`FairSpec`): every process and feeder thread goes on while it can,
and the consumer keeps pulling. They are operating-system threads and a
training loop; nothing in the code can keep them from running except waiting,
which is in the guards. Nothing makes the caller build or stop. `stop()`
reliably returns only as long as no proc that has met its own `None` gives up
its end mark (`StopReturnsInTime`); without that condition it is `StopReturns`,
which fails (section 12).

## 4. Synchronous training and the exit barrier

Each replica runs the *train op*: compute on a batch, push one gradient per
variable to the accumulators, take a token. The *sync op*, in a queue runner,
takes the average of each accumulator once it holds as many gradients as there
are workers, updates the variables, then the global step, then puts one token
per worker. The code puts that queue runner in a collection every session
starts, so every replica runs one, and the model has one per worker.

| Code | Model |
|---|---|
| accumulator, its step, threads waiting in `take_grad` | `acc[v]`, `accStep[v]`, `attempts[v]` |
| a variable | `ver[v]`, the number of updates it got |
| global step, token queue, closed | `gstep`, `tokens`, `closed` |
| training loop and hooks of a worker | `pc[w]`: `CreateSession`, `LocalInit`, `AssertOpen`, `BeginLoop`, `Compute`, `Push`, `TakeToken`, `AfterRun`, `OutOfData`, `NoMoreTokens`, `EndSync` |
| the chief's saver, its checkpoints | `ckpt`, `saving`: `BeginSave` (within `BeginLoop` and `AfterRunSave`), `FinishSave` |
| queue runner of a worker, how far its sync op is with a variable | `sync[t]`, `got[t][v]`: `Attempt`, `Take`, `Apply`, `Advance`, `Publish`, `PublishFails` |
| a preempted session created again; the chief's is given the latest checkpoint by its scaffold | `Recover`; `restoring`: `Restore`, one variable a step, while the other workers go on |
| `ExitBarrierHook` | `bpc[w]`: `Clear`, `EnterBarrier`, `CountIn`, `Poll`, `Send`, `Recv`, `WriteFlagFile`, `SeeFlagFile` |
| hooks in the order of the estimator | `SyncTraining`: the sync hook runs before the barrier hook, at the beginning and at the end |

Sessions, queue runners, accumulators, FIFO queues and the stop hook are
TensorFlow's and are modelled from their use here (marked external in the map).
The optimizer is used as the estimator sets it up: as many gradients to
aggregate as workers, and no initial tokens. `replicas_to_aggregate` smaller
than the number of workers and the initial tokens of `get_init_tokens_op` have
no caller.

A save is two steps: it begins, and when it ends each variable was read at some
moment in between, with the value it had then (`Between`).

`job_sync` (0.4 M states): two workers, two variables, global step 1 to 3,
`exit_counter` empty or full at the start. Two jobs (`Settings`), so that
unequal inputs and lost sessions are both there without all their combinations:
inputs of one or two batches and no session lost; inputs of one batch and one
session lost at any moment, the chief's or the other's. In the first:

* `UpdatesTogether`: no variable is a whole step ahead of the global step (in a
  job whose chief loses its session this fails: it is back at a checkpoint and
  sets the accumulators to its step, while the others hold later tokens);
* `NoneDropped`: no gradient is stale when it arrives;
* `JobBarrierHolds`: nobody gets through the barrier
  with another worker in its loop, *although* the exit counter may be full of
  an earlier job's elements: nobody ends before the chief has cleared it,
  because no step completes without the chief's gradient. A worker whose input
  is empty ends without a step, so every worker here has a batch at least;
* `FrozenAtExport`: once somebody is through, no variable changes;
* `JobEnds`: everybody leaves, unless two queue runners share the gradients of
  one step.

And in both, whatever session is lost:

* `ReadsNotBehind`: a worker with the token of step *s* computes on variables
  that all have the updates of *s*, also after another worker than the chief
  has lost its session. A chief that loses its own takes the variables back to
  the checkpoint and leaves the others their tokens (`rolledBack`): from there
  on the property fails, and is not claimed;
* `CkptWhole`: a checkpoint is of one step, although it is read variable by
  variable while other workers and all queue runners go on: meanwhile the chief
  holds a token for which it has pushed nothing, so no average can be taken and
  none is on its way. It holds up to the checkpoint that the first lost session
  restores, wherever in a save or in the loop that session was lost.

`ChiefFirst` (the chief's process leaves first) is proved and in no run.

Two variables are what it takes for two queue runners to interleave; two
workers for a token to be taken by the wrong one; inputs of unequal length make
one worker end first and close the token queue on the other. A step beyond the
first shows stale tokens. Three workers with one variable (1.95 M states), and
a single variable where `JobEnds` needs no exception for two queue runners,
were tried while the model was written, before it had checkpoints, with no
violation, and are not among the runs; nor is the second job with inputs of one
or two batches (8.9 M states, safety only, no violation). The deadlock check is
off because the job really stops when two queue runners split a step, or
when a session is lost whose sync op held an average; the passing liveness
property says when it does not. Where a property says `recoveries = 0`, the
code does not promise more: a session created again can drop a gradient, and
its chief clears the exit counter once more. A chief that dies for good is in
not among these jobs: the workers then wait for its flag file for ever
(`utils/estimator_utils.py:156`), and no property says otherwise.

`NoneDropped` is also why the phrase "effectively a barrier" in the class's
documentation (`compat/sync_replicas_optimizer.py`, at the description of the
token queue) is to be read loosely: a fast replica may take two tokens of a
step and push two gradients to the next one, in place of a slow one.

Fairness (`JobFairness`, `BarrierFairness`): every worker's main thread and
every queue runner goes on while it can. They are threads of running processes;
recovery, end of data and stop are never forced.

## 5. Stream offsets and checkpoints

A worker reads the partitions `p % task_num == task_index` into a pipeline:
shuffle buffer, batches, a parallel map that parses them, prefetch. Parsing
puts the worker's offsets into the batch as a JSON string; the train op assigns
that string to the worker's element of `data_offset_var`. The chief's hook
merges the elements into `model.ckpt-N.offset`, then saves the variables (not
that one) as `model.ckpt-N`. `train()` gives the offset file of the latest
checkpoint to the input before it is built.

| Code | Model |
|---|---|
| `KafkaInput`, `DataHubInput`: reading | `next`, `fetch`, `raw`; `Read` (both), `FetchDone` (DataHub: the offset moves when the fetch is yielded whole) |
| `batch`, `map` with `num_parallel_calls`, `prefetch` | `pipe[w]`, at most `PrefetchSize` batches, of which a window of `parallel` from the first unparsed one |
| `_parse_offset`, `_dump_offsets` | `off`; `Compare` and `Record` (a call of several may be overtaken between the two), `Dump` |
| train op: offset assignment and gradient, in either order | `hand[w]`, `ops[w]`; `NextBatch`, `Assign` (`slot[w]`), `Apply` (`model`, `gstep`) |
| `after_create_session`, `after_run`, `_save` | `spc`, `saving`; `ChiefSession`, `SaveBegin`, `ReadOffsets`, `WriteFile`, `SaveVars` |
| checkpoint and its offset file | `ckpt`, `file` |
| `train()` and `restore` | `Restore`, then `WorkerSession` for those who wait for the chief |
| a worker dies, the job dies | `WorkerCrash`, `JobCrash` |

The model is the set of messages it was trained on, so that what a restart
skips (`Lost`) or repeats (`Again`) can be read off. The reader and the topic
are a setting chosen at the start: one run covers them all. A chief or a
parameter server that dies takes the job with it; a worker alone may be started
again. `done` and `early` are read by properties only: what a worker has trained
on since it started, and what was trained on while the chief had not read the
offsets for the first save of its session.

`so_restart` (0.6 M states): two workers, a partition for each, batches of 2, a
save every 2 steps, one crash. Kafka topics of 2 and 4 messages with one call,
with a shuffle buffer of 2, with two parsing calls, and one of 6 messages for
the worker alone; DataHub topics of 2 and 3 and of 1 and 4 messages with fetches
of 1 or 2.

* `LossBounded`: prefetching alone loses nothing, because the offsets travel
  with their batch. What can be skipped after a crash is what other parsing
  calls had parsed, what is in the shuffle buffer, and, for a worker that is
  not the chief, one batch whose offset was assigned before its gradient was
  applied. A worker that dies between the two loses that batch even if the job
  goes on. Without bound, and therefore excepted, is `early` (section 12).
* `ReplayBounded`: what had been trained when the offsets were read and is read
  again: for Kafka the last message of each partition (its own offset is what
  is saved), for DataHub one fetch, and the unsettled batches. What others train
  on between the reading of the offsets and the saving of the variables comes
  on top, without a bound in the code.
* `OffsetsAdvance`: with one parsing call a worker's element never goes back
  after its first step, shuffled or not.
* `CatchesUp`: if it is only started again, the job drains the topic, and then
  the variables have seen every message but those that wait for a batch or the
  shuffle buffer to fill, those that crashes made it skip (no more for each
  crash than `LossBounded` allows) and `early`.

The bounds: four messages of the non-chief make two batches, so that one is
parsed while the other is trained on; a save falls between, at the start
of a session and in the middle of it; with six messages a worker can be two
batches ahead of a checkpoint that is saved again; one crash takes the job
through a restart from every state. The invariants were also run, for one worker with two
partitions of three messages, with three parsing calls, with shuffling and two
calls (where an offset that a late call set back may stay: `ReplayBounded`
leaves that setting out), and with shuffled DataHub fetches.

Fairness: `WF(JobStep)`, the weakest that gives progress: the job does not stop
while something in it can go on. Behaviours are finite but for stuttering, so
fairness of each process, which the operating system gives, implies nothing
more here. Deadlock is not checked: a job whose topic has ended waits.

`so_rewind`: one worker, one partition, two crashes; see section 12.

## 6. The cluster and the inputs of a job

The platform starts every process with a `TF_CONFIG`; each process rewrites its
own, on one of three launch paths, and derives from it who it is, its index and
the number of tasks. The inputs divide their data by these two numbers. No
process sees another's result: that they fit together is nobody's code.

| Code | Model |
|---|---|
| `pai_jobs/run.py`, DS entry points, `train_eval.py` | `job.launch`, `job.cmd`; `given` is what the platform starts |
| `set_tf_config_and_get_train_worker_num` and its DS forms | `OnPai`, `OnDs`, with `Separate`, `AllTrain`, `Lead`; `Configure` |
| `chief_to_master`, `master_to_chief` | `ChiefToMaster`, `MasterToChief`; `DistributeEval` |
| `get_task_index_and_num`, `is_chief`, `is_evaluator` | `TaskIndex`, `TaskNum`, `IsChief` ... |
| `_build` of the inputs, `_safe_shard` of `input/input.py` | `Divides`, `ByFile`, `SharesWithChief`, `Share` |
| `main.py`: who trains, who evaluates | `Trains`, `Evaluates`; `Train`, `Evaluate` |
| `_compute_global_start_pos`, the loop that finds the batches | `GlobalStart`, `StartFile`, `BatchStart`, `Batches` |
| `__getitem__`, the queue of futures, the loop of `criteo_input.py` over it | `reader[p]`; `OpenReader`, `Rewound`, `Submitted`, `GetItem`; `StartPass`, `NextItem`, `EndPass` |

A host is named by the task the platform gave to the process on it, so that a
wrong address shows as the wrong name. Rows are file and place. An input may
shuffle twice in training. The shuffle of the rows comes after the division and
changes no share. The csv, hive and tfrecord inputs also shuffle the list of
their files, before it (`input/csv_input.py:114`, `input/hive_input.py:83`,
`input/tfrecord_input.py:59`), and without a seed: neither the op nor the graph
has one. Each task therefore takes an order of its own (`FileOrders`), and cuts
its share from the stream in that order (`Place`). A batch is the set of
its rows: their order in it is left out, the order of the batches is not.
Numbers of rows are cardinalities of sets of rows.

`job_inputs` (260 k states): jobs of up to four processes, on each launch path,
for each evaluation method, with and without a distribution strategy; nine
kinds of input with each setting of `chief_redundant` and `file_shard`, files
of 2 and 3 rows and of 1, 1, 2 and 1; files of 2 and 3 rows and one of 4 that
each task shuffles; criteo files of 5 and of 6 rows, batches of 2, a prefetch
of 2, two passes, each perhaps cut short.

* `TasksNumbered`, `AddressesFit`: whatever the order in which the processes
  rewrite their `TF_CONFIG`, indices have no gap, all agree on the number of
  tasks and on the cluster, each finds itself at its address, and there is one
  chief. A master that `master_to_chief` renames is in no cluster at all: the
  function stores the hosts of the chief and then deletes them
  (`utils/estimator_utils.py:945-946`); the property looks at addresses of jobs
  that are in the cluster.
* `TrainedOnce`: an epoch reads every row, and no row's gradient is applied
  twice; with `chief_redundant` the chief, whose gradients are dropped, has
  none for itself. Inputs that do not know the setting, or a job without a
  worker, are the exceptions the property names; and no claim is made where
  several tasks divide the rows of several files, each in its own order
  (`OwnOrder`). What is left of the shuffle is that it does no harm to one
  file, to one share, and to a division by files (`file_shard`).
* `EvaluatedAlike`: in a distributed evaluation every row is counted equally
  often, except for inputs that share with the chief in every mode.
* `PassWhole`: a criteo pass that runs to its end hands out the batches of its
  rank, in order, as long as no earlier pass of that process was cut short; a
  cut pass leaves futures in the queue with which the next one begins
  (`input/criteo_binary_reader.py:147`).

The bounds: four processes are what the longest path needs (a parameter server,
a chief, an evaluator and a worker; or a chief and two workers); four files
among two tasks are where `hive_parquet` goes from rows to files; 5 and 6 rows
have and lack a remainder with two and three tasks; a prefetch of 2 of up to
three batches wraps around the end of a pass. A cut at every batch is tried.

With more than one criteo file no property of division holds: the search for
the first file adds the rows of the file after the one it passes (line 89), and
a batch across a file end reads up to the end position of the first (line 168).
`CriteoReader` translates both; the run has one file. There is no fairness:
nothing is promised to happen.

## 7. Embedding parts

With `embedding_parallel` every horovod rank holds a part of each table: row *r*
of *n* ranks is in rank *r* mod *n*, at position *r* div *n*. Each rank writes
its part to its own file; rank 0 also writes the other variables, and deletes
parts of an older and larger job under the same step; every rank's `Saver`
rewrites the state file. A restore counts the part files it finds.

| Code | Model |
|---|---|
| `embedding_parallel_lookup`, `per_worker_buckets` | `RankOf`, `PositionOf`, `PartSize` |
| `_save_dense_embedding`, `_save_kv_embedding`, the rest of `Saver.save` | `WriteDense`, `WriteKeys`, `WriteValues`, `WriteIndex`, `WriteState`; `ops[p]` is what is left to do |
| deletion by rank 0 | `Swept`, within the write it follows |
| `_load_dense_embedding`, `LoadEmbedOp`; `_load_kv_embedding`, `LoadKVEmbedOp` | `RestoreDense` with `Sources`, `Loaded`, `Filled`; `RestoreKv` |
| broadcast at the start, gradient exchange in a step | `Broadcast`, `TrainStep`: all ranks together |
| a job that ends or dies, the next one of another size | `Gone`, `Launch` |

What a row holds is its number and the step of its last update, so a row in a
wrong place or of another step shows.

`embed_parts`: a table of four rows and a dynamic embedding with keys -1 and 4,
two jobs of one to three ranks, two steps with a save after the second and one
at the start; with and without the C++ op and the dynamic embedding.

* `LatestWhole`: outside of a save the announced checkpoint is whole, although
  the first rank that is done announces it and rank 0 deletes while others
  write. What protects it is that a step waits for all ranks.
* `RestoredExact`: a restore on any number of ranks finds each row and key of
  the checkpoint, and fails only with a dynamic embedding and no op for it.

A death in the midst of a save whose step is announced already (by the first
rank to be done, or by the job before, whose checkpoint a job that continues
rewrites at its start) tears the only checkpoint: `torn` remembers it, and both
properties except it. The bounds: four rows on three ranks need padding, on
two and one none; a negative key tests Python's remainder; from three ranks to
two the sweep has something to delete; a second job restores the first one's
checkpoint and rewrites it.

## 8. The component graph

`layers/backbone.py` builds a graph from the inputs of the blocks of each
package, sorts it and calls the blocks in that order. The packages are kept in
a table of the class, and a use of a package leaves its `package_input` and
its `reset_input` in the package.

| Code | Model |
|---|---|
| `DAG.topological_sort`, `validate`, `all_leaves` | `SortsOf`, `Popped`; `Acyclic`; `Leaves` |
| `Package.__init__` | `Build`: `GraphOf`, the edge to the backbone's blocks (`MainGraphWith`) |
| `Package.call` and `block_input` | a stack of calls: `SortNode`, `Sorted`, `PassPackage`, `Produce`, `ReadOutput`, `ReadPackageInput`, `ResetInput`, `GivePackageInput`, `CallInnerPackage`, `CallPackage`, `Return` |
| `_package_input`, `_reset_input_config` | `held[p]` |

The successors of a node are a Python set of strings, so they become ready in
an order that differs from process to process: the model takes any. The nodes
themselves are listed as they were added: a node has the place at which the
package first mentions it (`FirstPlace`), and the roots are in that order.
`Nothing` stands for a name that is not set (`None`, or a field not given).

`ConfigsAssumption` asks of a configuration that the backbone comes first, that
no two packages have one name, and that no package uses itself, also through
others (`depth`): such packages recurse without end in the code as well.

`backbone`: the shapes of the samples and of the documentation, some that it
does not show, and about two hundred generated ones: two blocks and two packages
with every choice of input from a few.

* `SortSound`: what is sorted respects the edges, and all nodes are sorted
  exactly if there is no cycle, also in the backbone's graph, to which packages
  add themselves later.
* `InputsReady`: a call fails only if a use or an output names what is not
  there (`Misnames`), a package that reads its input is used without one, which
  the backbone always is (`LacksInput`), or a package inside a
  package takes a block of the backbone (`NestsTaker`: the backbone's graph
  then has the inner package as a node behind that block, but no edge from it to
  the package that calls it). `docs/source/component/backbone.md:127` has the
  framework order all blocks by their inputs and outputs, without this exception.
* `OwnInput`: a package reads the input of this use, although the call that
  computes it may use the same package.

`backbone_reset`: see section 12. Fairness is `WF(BackboneNext)`: a call is one
thread. `Package.__packages` outlives a model, so that a second model of the process could find the packages of the
first; the run builds one.

## 9. The life of a job

Chief and workers train, leave through the exit barrier, and may go on with
the evaluation data (`fit_on_eval`). An evaluator follows the checkpoints until
`ESTIMATOR_TRAIN_DONE` is there, and exports. They share only `model_dir` and
the variables of the parameter servers, and `model_dir` outlives the job.

| Code | Model |
|---|---|
| `Estimator.train`, session, hooks of a trainer | `trainer[t]`: `Enter`, `ChiefSession`, `WorkerSession`, `TrainStep`, `DataEnd` |
| exit barrier, condensed to its counter and signal | `ClearCounter`, `CountIn`, `Poll`, `Receive` |
| `ESTIMATOR_TRAIN_DONE`, `estimator_train_done`, `get_trained_steps` | `done`; `Finish`, `BeginFit` |
| `CheckpointSaverHook`, `keep_checkpoint_max` | `ckpts`; `Save`, `Newest` |
| stop variable, its hooks, OSS watcher | `stop`, `watched`; `TrainStep`, `Watch` |
| `stop_if_no_metric_improvement_fn` | `NoImprovement` |
| continuous evaluation, `TrainDoneListener.after_eval` | `Look`, `Evaluate`, `Compare`, then `After` |
| `FinalExporter`, `BestExporter`, `_garbage_collect_ckpts` | `ExportFinal`, `FinalExporter`, `BestExporter`, `Ending` |
| an evaluator, or the whole job, started again | `EvaluatorRestarts`, `RunAgain`; `Stopped` leaves an export half done |

`lifecycle` (0.5 M states): a chief and a worker, data for at most three steps
that may end at any time for either, a save every step, two checkpoints kept,
one best checkpoint kept; the final exporter without and with a step limit and a
fit, the best exporter with early stopping, and the OSS signal; one restart.

* `FinalOut`: the final export is of the end of the training, though the chief
  may save its last checkpoint and write the file between the two looks of
  `after_eval`.
* `BestKept`: the best result's checkpoint survives the deletion of old ones
  and the restart of the evaluator, which knows earlier results from the event
  files only; an export that was cut is the exception (`cut`).
* `FitAfterTraining`: nobody counts the steps of the fit from a checkpoint of
  before the end of training.
* `EvaluatorEnds`, `TrainersEnd`: everyone comes to an end, or is `Stranded` in
  the barrier: the counts the others wait for were taken out when the chief
  emptied the counter, or never given by a worker that came so late that it
  found the last checkpoint and had nothing to do. `Stranded` does not ask why a
  count is missing: `TrainersEnd` is about the waits behind the barrier, and
  would not notice another way to lose a count.

`FinalOut` and `FitAfterTraining` speak of the first job in a `model_dir`
(`first`): `ESTIMATOR_TRAIN_DONE` and `export/final` of an earlier job are taken
for this one's. The bounds: two trainers are what it takes for one to end first;
three steps let early stopping come between saves and give the metric a best in
the middle that is reached twice (the tie counts); two checkpoints kept make the
evaluator lose one. A setting with a fit gives `fit_on_eval_steps`: without it
`main.py:382` waits for nobody and counts no steps, and that fit is not
modelled. Fairness: each trainer and the evaluator goes on while it
can; they are processes of their own. Watching the signal, restarts and the end
of data are not forced.

## 10. Incremental updates

With `incr_save_config` the chief's checkpoint hook also sends what has changed
to who serves the model: dense variables and, per embedding, the rows touched
since the last message. The train op records the rows after it has advanced the
step; `get_sparse_indices` takes the record and empties it.

| Code | Model |
|---|---|
| a run of the train op | `run[w]`: `Begin`, `Apply` per variable, `Advance`, `Record` per embedding |
| the three timers of `after_run` | `Triggers`, `FirstDue`; `AfterRun` |
| saving | `SaveBegin`, `SaveVars` |
| dense and sparse messages | `DenseBegin`, `SendDense`; `SparseBegin`, `Get`, `Gather`, `SendSparse` |
| `end` | `EndBegin`, `End` |
| death and restart of the job | `Restart` |
| the reader: it applies the messages of a one-partition topic in order (external) | `served` |

A value is the life of the job that computed it and a count of the updates of
its row. `lost` and `missed` are read by properties only.

`incr_updates` (3.6 M states): a chief and a worker of an asynchronous job, an
embedding of two rows, batches of one, two steps, one restart at any moment;
periods of dense, sparse and checkpoint of 1, 2, 1 and 2, 1, 2, and all 1 with
`chief_redundant`.

* `NothingUnsent`: a row whose served value is not the trained one is recorded,
  in the hands of the hook, or of a run that has yet to record it; or a restart
  went behind it. In particular a row updated between the taking of the record
  and the reading of its value is sent again.
* `KeysRise`: messages of a kind are named by steps that rise: as files they
  do not overwrite each other. The exception is a chief that does not train and
  sends after every step.
* `EndComplete`: when the job has ended the reader has the trained model, except
  for rows behind a restart and rows that a run recorded after the hook had
  read the last step: `end` sends nothing for a step it has sent before
  (`utils/estimator_utils.py:663`).

Two rows make one updated while the other is sent; periods of one and two let
dense and sparse messages share a step or not; a restart finds messages ahead of
the checkpoint. Three steps with smaller settings, and two embeddings of one row
each, were tried while the model was written, with no violation. All variables
are saved in one step, as in `StreamOffsets`, with the global step that names
the checkpoint, where `Restart` begins again; in the code the step saved among
them may be a little later, as the workers go on. Timers count steps (seconds would
only choose other moments); the end comes behind the exit barrier. There is no
fairness: the properties are of safety.

## 11. What is proved

TLAPS checks every proof from nothing. The assumptions are those named in the
modules (finite sets of workers, variables and procs, natural numbers for the
bounds); TLC evaluates them in the runs. The named constants take any value
that meets them, so each theorem covers any number of processes, rows and steps.

`ParquetLoader_proof`:

* `Typing`: `Spec => []TypeOK`.
* `EndMarks`: `Spec => []EndMarkInv`. The invariant follows an end mark along
  its way: in the buffer it is last and its proc is past its loop
  (`BufferedMarks`), in the feeder's hand nothing is behind it (`MarksInHand`),
  in the pipe no later message is of its proc and it is not counted yet
  (`MarksInPipe`), once counted nothing of the proc is left (`MarksCounted`);
  and the queue is empty when a pass begins (`QueueAtRest`). None of the parts
  is inductive alone: each hands the mark to the next. A lemma
  (`FullIsPutting`) first shows that a proc that timed out is still in that put.
* From it `NothingAfterEndMark`, `DoneIsProcs` and `GeneratorEndsClean`: when
  the generator ends, all procs are done and no batch is anywhere in the queue.

* `SlotsAddUp` (`SlotsAccounted`): `SlotsInv` adds that all slots are free when
  the queue is at rest. Messages are counted by the places they are in
  (positions of the pipe, pairs of a proc and a position of its buffer), so that
  a step of a feeder moves one place and the account needs no sum over the procs.

The account of the rows, in three layers on top of those:

* `EndsReached`: `Spec => []EndsInv`. What is left of `file_que` is the tail of
  what `_build` put (`FilesLeft`), so until `stop()` as many procs are past
  their files as Nones were taken (`EndsCounted`); a proc carries less than a
  batch, and nothing once its end mark is put (`ProcRows`, `MarksClean`). It
  follows that the generator cannot have counted all the end marks while a file
  is still in the queue.
* `RowsAccounted`: `Spec => [](AllSized /\ RowsInv)`. A row is in a place: in a
  message that was yielded, is in the pipe, in the hand of a feeder thread or in
  a buffer, or with its proc. `RowsTaken` says a row in a place is of a file
  already taken, so that the rows of the next file are nowhere yet; `OnlyOnce`
  that no row is in two places; `NoneLost` that until `stop()` no row of a file
  taken is nowhere. Each kind of step has a lemma that says how it moves rows.
* `ShortInv` orders the messages of a proc along the same places: only its end
  mark comes after a short batch.

From them `RunIsComplete`, `ShortBatchesLast` (`ShortOnlyLast`: a batch is full
but for the last of a proc; in no run) and `LoaderIsStream`, the refinement of
`SampleStream`. Its state is the sequence of the batches of the
pass, so a batch yielded again is a step it does not have. A batch is a `Yield`
because its rows are in the pipe, therefore not among those yielded
(`OnlyOnce`), and in the order of their files, therefore not twice in the batch
(`FileOrder`); the end of the generator is an `End` because the rows not yielded
are those the procs carry, fewer than a batch each.

`FileOrderKept` (`FileOrder`) rests on `OrderInv`: the messages of a proc, along
yielded, pipe, hand and buffer, hold each file's rows in order, in each message
and from one to the next (`MsgsInOrder`); what the proc still holds comes after
all of them (`HeldInOrder`); and no two procs have rows of one file (`OneProc`),
without which the order in which the procs' feeders meet in the pipe would
matter.

`SyncTraining_proof`:

* `SyncInvariant`: `SyncSpec => []SyncInv`, where `SyncInv` is the types,
  `BootIdle` (no queue runner without a session), `RestoreInv` (only a chief
  that has lost its session restores) and, until one does, `UpdatesFirst` (a
  variable is ahead of the global step by at least the number of sync ops
  between its update and the global step's) and `NoTokenAhead` (no token or
  local step is beyond the global step). `ReadsNotBehind` is not inductive because it does
  not say why a token's step is already in the variables: the count in
  `UpdatesFirst` does, for all sync ops at once.
* `NoReadBehind` for synchronous training, and `JobReadsNotBehind` for the
  composed job, by `JobIsSyncTraining`: every step of the job is a step of
  `SyncReplicas` or leaves its variables alone.
* `ChiefGoesFirst`: with `FlagInv` (the flag file is there when somebody has
  gone, written only by the chief as it leaves, and a worker is in the barrier
  only after its loop has ended).

For jobs in which no session is created again (a lost session breaks the
account, and with it what follows), in the same module:

* `AccountInvariant`: for each variable, the workers that may still push a
  gradient of it for their token (`Holders`), the tokens and the gradients in
  its accumulator are together no more than the workers; one less once a worker
  has ended; and an average takes all of them, so that while one is on its way
  through a sync op (`Takers`) there is nothing else, and nobody has ended.
  With it go the steps: what is held, queued or accumulated is of the global
  step, and an accumulator or a variable is at most one step ahead, between the
  average and its tokens (`VarsAtStep`).
* `NoGradientDropped` and `VariablesTogether` follow from the steps.
* `CheckpointsWhole` and `JobCheckpointsWhole` (`CkptWhole`): with `CkptInv`,
  that the variables are what they were when the save began. While a worker has
  a token that it has pushed nothing for, there is no average on its way, by
  the account, so no variable is updated, and all are of the global step
  (`HeldWhole`).
* `NothingAppliedBehind` (`FrozenAtExport`): whoever is through the barrier has
  ended, so no sync op has an average to apply, nor can it take one.
* `NoneThroughBarrier` (`JobBarrierHolds`), where every worker has a batch at
  least: until all loops have begun there is no token (`Begun`), so nobody has
  ended when the chief has emptied the exit counter, and from then on the
  counter counts those who have arrived (`CountInv`), whatever it held before.

`StreamOffsets_proof`, for any number of workers, partitions, parsing calls,
crashes, and any size of batches and buffers:

* `StreamInvariant`: `StreamSpec => []StreamInv`. A message that a worker has
  read is *known* (in the variables, or in the checkpoint while the chief has no
  session) or in flight, but for what crashes have lost (`LostRead`). From there
  the invariant follows the offsets down the way they are carried: what is
  before the offsets of a parsed batch, and neither known nor in that batch or
  one before it, is at most what other calls had parsed and what is in the
  shuffle buffer (`LostPipe`); so for the batch in hand (`LostHand`), for the
  element of the worker (`LostSlot`, where the batch in hand becomes the one
  that can be lost), for what the chief has merged (`LostSaving`) and for the
  file, whose messages count against the checkpoint and no longer against the
  variables (`LostSaved`). None of these is inductive without the one before it.
  A crash turns the bound of a live worker into the bound of one crash more.
* `LossIsBounded` follows from `LostSaved`.
* `OffsetsNeverBack` (`OffsetsAdvance`), from `LineInv`: with one parsing call,
  the worker's element, the offsets of the batch in hand, those of the batches
  in the pipeline, in their order, the dictionary and the fetch that is being
  yielded are in one line, each no later than the next. The element joins the
  line only when a step of this session has assigned it (`Settled`): an element
  left by an earlier session may be ahead of all of them.
* `ReplayIsBounded` (`ReplayBounded`), from `ReplayInv`. What the offsets of a
  batch repeat, counted over all that came up to it, does not grow on its way
  from the pipeline to the hand, to the element and to the file (`PipeReplay`,
  `HandReplay`, `SlotReplay`), so it is enough to bound it when the offsets are
  dumped. For DataHub a reader is past its offset by the fetch being yielded
  (`Fetched`). For Kafka the dictionary may be behind messages already parsed
  when a call that compared early sets it late; `SetBack` bounds these by the
  batches of the other calls. It is inductive because each message of a batch is
  either newer than what the call saw, or *passed*: in a batch that is parsed or
  was not newer when compared (`Passed`); with one call the dictionary only
  advances, and without shuffling the batch that sets it is later than all
  handed on before it (`InTurn`), which leaves the batches after it, and of these
  only those in the window. With shuffling and several calls neither holds,
  which is why `ReplayBounded` leaves that setting out.

`Lifecycle_proof`:

* `LifecycleInvariant`: `LifeInv` is the types; the order of steps, checkpoints
  and results (`StepsInOrder`, `EvalInOrder`, `ResultsInOrder`); that
  `ESTIMATOR_TRAIN_DONE` means trained (`DoneMeansTrained`); and that what the
  evaluator takes for the best is the champion of the results before
  (`BestInOrder`). That each prefix of the results has a champion is carried in
  the invariant, because it would otherwise need an induction over sets.
* From it `NobodyFitsEarly`, `FinalIsOfTheEnd` and `BestIsKept`.

`EmbeddingParts_proof` (keys are integers, as in the code):

* `RestoredByAnySize`: whenever the part files of one job are all there, each
  rank of a job of any other size finds every row of its part with the value
  saved, and `LoadEmbedOp`'s test holds. It rests on the uniqueness of division
  (`DivisionUnique`): each row has one place (`OnePlace`), and that place is
  among the sources of the new one (`RowFound`).
* `PartsInvariant`: `PartsInv` is the types, with one file per name (`FilesOK`),
  and follows a value around: what a rank has restored is of the latest
  checkpoint (`RestoreInv`), what it trains is of the step it trained
  (`WorkInv`), what is not left to do of a save is on disk (`SaveInv`), and so
  the latest checkpoint is whole unless it is being written (`LatestInv`).
* From it `LatestIsWhole` and `RestoredAsSaved`, for any number of rows, keys,
  ranks, steps and jobs.

`Backbone_proof`, for every set of configurations that meets
`ConfigsAssumption`: any number of packages, blocks and inputs, any depth of
calls, and every order the sorts may give.

* `SortIsTopological`, for every finite graph. `SortInv` says what degree and
  readiness of an unsorted node are; that a sort which stops early has met a
  cycle is shown by a least counterexample.
* `PackagesAreBuilt`: `BackboneSpec => []BuildInv`. The table has the packages
  before `building`; the graph of each has the nodes and edges that its inputs
  mention (`EntryFits`), to which the backbone's graph adds packages and, for
  each block of it that a package takes, the edge from that block.
* `CallsNest`: `BackboneSpec => [](BuildInv /\ CallsInv /\ GivenInv)`.
  `CallsInv` is about the stack: a call is part of the way through a topological
  order of its graph, and each block before that point has given its output
  (`FrameIs`, `OrderIs`); all calls but the last are at a use of a package which
  has called the next (`Called`); and each is of a package of less `Depth` than
  those below it (`NestingIs`). `GivenInv` says that what a use has given its
  package is still there. It is not inductive without the depth: the step that
  could break it gives another input to the package of a call below, and
  the depth says that no call above uses that package.
* `SortsAreSound` (`SortSound`) follows from the first two parts,
  `OwnInputIsRead` (`OwnInput`) from the third.
* `InputsAreReady` (`InputsReady`): a step that fails is at a point of the
  order. A block or group of the package that it reads is before that point by
  the edge, so its output is there. A block of the backbone that a package takes
  has the edge to that package in the backbone's graph; the package is not used
  inside another (or `NestsTaker` holds), so the call below is the backbone's,
  at the block behind the package's node, and its outputs hold the block. At the
  end of an order all own blocks have been passed, so the outputs of the package
  are there. What remains is `Misnames` and `LacksInput`.

`IncrUpdates_proof`, in four layers, each using the one before: the types; the
account of the rows (`RowsInv`: `NothingUnsent`, that what was read is the
value read or an older one whose row is pending again, and that the hook's
reads follow each other); the order of the hook's steps (`StepsInv`); what is
left of the last step (`LastStep`). From them `NothingIsUnsent`,
`StepsOfMessagesRise` and `EndsComplete`.

`JobInputs_proof`, for any number of processes, files and rows:

* `ConfigsAtStages`: `JobSpec => []ClusterInv`. What the three launch paths have
  in common is an *arrangement* (`Arranged`): the leader is task 0, the
  `Followers` are workers that are numbered on from it, and `ProcAt(n)`, which
  process of the platform becomes task `n`, is one to one. A lemma for each of
  the code's rewritings (`ArrangedByLead`, `ArrangedByJoin`, `ArrangedAsMaster`,
  `ArrangedAsChief`, ...) shows that every path comes to it from what the
  platform gave (`ConfArranged`); the invariant says that at each stage a
  process has the configuration of that stage. `TasksAreNumbered`
  and `AddressesAreFit` follow, also after the renaming of a distributed
  evaluation.
* `RowsTrainedOnce` (`TrainedOnce`): what a process has read is the share of its
  number (`ReadsInv`), in the order in which it has taken the files. Where that
  order is a task's own and still does not matter, the share is that of the
  files as they are (`OrderIsNothing`). For the inputs that take a remainder, a
  row has one number
  modulo the number of parts, and the arrangement gives that number to one task,
  or to the chief and the first worker. For criteo the ranks' ranges of
  rows cover the file by division, and each range the batches cut from it.
* `EvalsKept`: `JobSpec => []EvalInv`. A reader is in step with its queue while
  no pass of it was cut short: the queue holds the batches submitted and not yet
  handed out, up to `Depth` of them (`InStep`, `Ahead`). A pass that is cut
  leaves that state for good, which is why the invariant is about the passes
  before it.
* From it `PassesAreWhole` (`PassWhole`), and with the arrangement
  `RowsEvaluatedAlike` (`EvaluatedAlike`): the processes correspond to numbers,
  and each number has the row or has not.

Model-checked only: all liveness (`GenEnds`, `StopReturnsInTime`, `JobEnds`,
`CatchesUp`, `EvaluatorEnds`, `TrainersEnd`), which is out of the prover's reach.
Every safety property that a passing run checks is the property of a theorem. The
two properties that fail (`ResumesAtCheckpoint`, `ResetOnlyThisCall`, section 12)
have nothing to prove.

## 12. Where code and documents disagree

Two are runs that TLC must find violated; `PROJECT.json` quotes the lines.

* `so_rewind` - the save at the start of a session (`utils/estimator_utils.py:477`)
  finds the offset variable empty and overwrites the offset file of the
  checkpoint that was just restored. A crash before the next save makes the
  chief start from offset 0 (the run); a worker that reads the file after the
  chief has written it, because it starts later, does so after the first crash.
  `DataHubInput` falls back on the configured offset instead. The same save can
  also skip: other workers may begin before the chief has read the offsets for
  it, and the file of the restored checkpoint then holds offsets ahead of its
  variables, by any number of batches. If the job dies before the variables are
  saved, all of these are skipped (`early`, which `LossBounded` excepts; without
  the exception TLC finds it violated by the topic of 6 messages).
* `backbone_reset` - `reset_input` stays in the package: a use that the sort
  calls later runs with the reset input layers as well.

The others were met while modelling. Their properties except them by name, or
a setting of the model leads to them:

* `docs/source/feature/data.md:167` has sharding divide the data set by samples.
  With the default `shuffle = true` and several files each task first shuffles
  the files for itself, without a seed, and then takes every n-th row of what
  comes out (`input/csv_input.py:114` and 127): rows are read by two tasks, and
  others by none (without `OwnOrder` TLC finds `TrainedOnce` violated by files of
  2 and 3 rows). `file_shard`, which comes before the shuffle, avoids it; the
  tfrecord input has no such setting.
* `stop()` drains `data_que` so that the procs can exit, but a proc that gives
  up its end mark has taken its own `None` from `file_que` and waits for a
  second one (`input/load_parquet.py:310`): `stop()` never returns
  (`StopReturns`; `StopReturnsInTime` excepts it).
* Only `stop()` resets `_proc_start`. A second pass without it starts procs that
  never get a start token and hangs (`input/parquet_input.py:113`). The runs have
  `Reuse = FALSE`: `GenEnds` is claimed of callers that call `stop()` first.
* Prediction with reserve fields reads a key that is not there on the first
  file that does not end on a batch (`input/load_parquet.py:234`; `pl_crash`).
* The sync op is meant for one replica, usually the chief
  (`compat/sync_replicas_optimizer.py:189`), but its queue runner is in a
  collection that every replica starts (line 356); two of them can take half the
  averages of a step each, and the job stops (`JobEnds` excepts it).
* The chief empties `exit_counter` when its session begins
  (`utils/estimator_utils.py:127`); a worker that is at the barrier already is
  taken out of the count, and one that finds the last checkpoint skips its
  session and the barrier, for which the chief then waits (line 134; the
  comment at line 72 has all of them exit together; `Stranded`).
* `test/local_incr_test.py:117` compares the served model with the trained one;
  rows recorded after the last message are the exception of `EndComplete`.
* `not_apply_grad_after_first_step` is described as acting after the first step
  (`compat/optimizers.py:170`); gradients are never applied (lines 444-446), on
  which `TrainedOnce` and `Learns` rely.
* `KAFKA_TIMEOUT` is a string when it comes from the environment and is then
  multiplied by 1000 (`utils/estimator_utils.py:358`).
* An evaluation on a master that is not distributed reads one slice of the data
  for inputs that divide it in every mode, where `docs/source/eval.md:38` has it
  evaluate all.

## 13. Not modelled

* Models, layers, losses, metrics, feature columns, learning-rate schedules,
  `protos/`: tensor arithmetic and graph construction, most of the code by
  lines. `compat/feature_column` and `core/easyrec_metrics` are copies of
  TensorFlow's. The arithmetic of `embedding_parallel_lookup` is modelled.
* Parsing of rows (csv, tfrecord, odps, rtp, hive): sequential. How these inputs
  divide their data is modelled.
* Predictors, tools, `hpo/`, `pai_jobs/` beyond the roles, scripts: I/O around
  the rest. Large exports and graph surgery (`export_big_model.py`,
  `meta_graph_editor.py`), configuration editing: no state over time.
* Negative samplers: calls of an external graph engine.
* Within modelled components:
  - loader: the columns of a batch and the `tf.data` stages after the generator;
  - training: the content of gradients; the gradient of a batch is one event per
    variable; SOK; the PAI build of the optimizer, which is TensorFlow's own;
    parameter servers that die; the chief's last save, which comes behind the
    barrier, where `FrozenAtExport` has the variables stand still;
  - streams: `chief_redundant`, exceptions of the DataHub generator for the
    other partitions, the chief alone being started again;
  - lifecycle: evaluation on a master, distributed evaluation
    (`main.py` `distribute_evaluate`, `EvaluateExitBarrierHook`), fine-tuning,
    `fit_on_eval` without `fit_on_eval_steps` (`main.py:382`),
    the deadline of early stopping, `LatestExporter`, the copies of single files;
  - incremental updates: a checkpoint whose step is later than its name, timers
    in seconds, a send that fails, and
    `embedding_parallel`, where each rank has a hook and all name their files
    alike;
  - embedding parts: `save_checkpoints_secs`, with which the ranks' timers may
    differ, and the deletion of old checkpoints;
  - component graph: blocks of kind `raw_input` and `embedding_layer` (a block
    without inputs stands for an `input_layer`, the kind that `reset_input`
    changes), layers, slices, recurrent and repeated layers; the parts of
    `utils/dag.py` that nothing calls.

Hazards of this code beyond the list of `PROJECT.json`, not modelled:

* the OSS watcher is not a daemon thread and waits for the signal file even
  when its session has ended (`compat/early_stopping.py:584-591`), and a signal
  file of an earlier job stops the next one at once;
* `exit_counter_signal` is never emptied (`utils/estimator_utils.py:102`);
* `sync_que_id` in the name of the token queue counts collections of the local
  graph (`compat/sync_replicas_optimizer.py:305`), and a worker without input
  fails an assertion (line 515);
* without the C++ op the value file of a dynamic embedding is sought under a
  wrong name, and the loop over the parts is left early
  (`compat/embedding_parallel_saver.py:243-249`);
* a best checkpoint is copied file by file; one that cannot be copied is logged,
  and the older best ones are deleted all the same (`compat/exporter.py:242`);
* `KafkaProducer.send` is asynchronous, and its failures are only logged.

## 14. Plan

| Step | Modules | State |
|---|---|---|
| 1 | ParquetLoader, SampleStream: the loader is a stream | checked; proved, but for liveness |
| 2 | TrainingTasks, SyncReplicas, ExitBarrier, SyncTraining: replicas keep in step and leave together | checked; all safety proved |
| 3 | StreamOffsets: what is lost or repeated on restart | checked; losses, repeats and the order of offsets proved |
| 4 | EarlyStopping, Lifecycle: every job ends, with its last and its best model | checked and proved, but for liveness |
| 5 | ClusterConfig, CriteoReader, JobInputs: the tasks divide the data | checked and proved |
| 6 | EmbeddingParts; Dag, Backbone: re-sharding, order of calls | checked and proved |
| 7 | IncrUpdates: the served model is the trained one | checked and proved |
| next | a module for distributed evaluation and its exit barrier; `embedding_parallel` with incremental updates | |

Order: training data and the synchronous step first, because every job runs
them; then what survives a crash; then what ends a job; then the algorithms.
Modules with theorems, and those they use, are free of recursive operators.

## 15. Running it

```
tlc -workers 2 -config job_sync.cfg MCSyncTraining
tlapm SyncTraining_proof.tla
```

`PROJECT.json` names the module and configuration of each run, the properties,
the mutation each property catches, and the source lines of each definition.
