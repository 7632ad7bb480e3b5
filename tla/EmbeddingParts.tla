--------------------------- MODULE EmbeddingParts ---------------------------
(***************************************************************************)
(* Embeddings divided over the ranks of a Horovod job, saved as one file   *)
(* per rank and loaded by a job of another size                            *)
(* (compat/embedding_parallel_saver.py, ops/src/load_dense_embed.cc,       *)
(* ops/src/load_kv_embed.cc, the lookup in compat/feature_column).         *)
(*                                                                         *)
(* A rank writes its files on its own; only its broadcast of the other     *)
(* variables and its training steps wait for the other ranks.  What a row  *)
(* or a key holds is written <<row, step of its last update>>.             *)
(***************************************************************************)
EXTENDS Integers, Sequences, FiniteSets

CONSTANTS
  NumBuckets,  \* rows of the dense table
  Keys,        \* keys of the dynamic (key-value) embedding
  MaxRanks, MaxStep, SaveSteps,
  MaxJobs,     \* bound: jobs that run one after the other in a model_dir
  Settings     \* records: lib (libload_embed.so is there), kv (there is a
               \*   dynamic embedding)

ASSUME PartsAssumption ==
  /\ NumBuckets \in Nat \ {0} /\ MaxRanks \in Nat \ {0} /\ SaveSteps \in Nat \ {0}
  /\ MaxStep \in Nat /\ MaxJobs \in Nat /\ Keys \subseteq Int
  /\ Settings \subseteq [lib : BOOLEAN, kv : BOOLEAN]

VARIABLES
  setting, \* the settings of the jobs
  size,    \* hvd.size() of the running job, 0 if there is none
  step,    \* global step of the running job
  doing,   \* doing[p]: "restoring", "restored", "saving", "training", "failed"
  ops,     \* ops[p]: what p still has to do of the restore or the save
  table,   \* table[p]: the part of the dense table in rank p, from position 1
  pairs,   \* pairs[p]: what p holds of the dynamic embedding
  files,   \* the files in model_dir: step, kind, part and contents
  latest,  \* the checkpoint that the state file names, -1 if there is none
  torn,    \* a job died while files of the latest checkpoint were to be written
  jobs     \* jobs so far

vars == <<setting, size, step, doing, ops, table, pairs, files, latest, torn, jobs>>

Ranks == 0..(size - 1)
Zero == <<-1, 0>>

---------------------------------------------------------------------------
(* Where a row is.                                                         *)

(* per_worker_buckets of feature_column.py, with n ranks.                  *)
PartSize(n) == (NumBuckets + n - 1) \div n

(* The place embedding_parallel_lookup takes row r from.                   *)
RankOf(r, n) == r % n
PositionOf(r, n) == (r \div n) + 1

Fresh(p, n) == [i \in 1..PartSize(n) |-> <<p + (i - 1) * n, 0>>]

FilesOf(s, kind) == {f \in files : f.step = s /\ f.kind = kind}

(* The row that the loader takes position i of a part for, when it finds n *)
(* part files.                                                             *)
RowId(part, i, n) == part + (i - 1) * n

(* What rank p of n finds for its position i among the part files: the row *)
(* with the id of that position, from whatever part has it.                *)
Sources(parts, p, i, n) ==
  {src \in parts \X (1..NumBuckets) :
     /\ src[2] \in DOMAIN src[1].body
     /\ RowId(src[1].part, src[2], Cardinality(parts)) = RowId(p, i, n)}

Loaded(parts, p, n) ==
  [i \in 1..PartSize(n) |->
     IF Sources(parts, p, i, n) = {} THEN Zero
     ELSE LET src == CHOOSE src \in Sources(parts, p, i, n) : TRUE IN src[1].body[src[2]]]

(* LoadEmbedOp wants a part to be filled, except for one row of padding.   *)
Filled(parts, p, n) ==
  Cardinality({i \in 1..PartSize(n) : Sources(parts, p, i, n) # {}}) >= PartSize(n) - 1

---------------------------------------------------------------------------
PartsInit ==
  /\ setting \in Settings
  /\ size = 0 /\ step = 0 /\ latest = -1 /\ torn = FALSE /\ jobs = 0
  /\ doing = <<>> /\ ops = <<>> /\ table = <<>> /\ pairs = <<>> /\ files = {}

(* The operations of a rank: its files, TensorFlow's own variables in rank *)
(* 0, and at last the state file, which every rank's Saver rewrites.       *)
FilesRead == {"bin", "index"} \cup (IF setting.kv THEN {"key"} ELSE {})
SaveOps(p) == ({"state"} \cup FilesRead) \ (IF p = 0 THEN {} ELSE {"index"})

(* A job of n ranks starts.  Its variables have their initial values, and  *)
(* a checkpoint is restored if there is one.                               *)
Launch(n) ==
  /\ size = 0 /\ jobs < MaxJobs /\ jobs' = jobs + 1
  /\ size' = n
  /\ step' = IF latest = -1 THEN 0 ELSE latest
  /\ doing' = [p \in 0..(n - 1) |-> "restoring"]
  /\ ops' = [p \in 0..(n - 1) |-> IF latest = -1 THEN {} ELSE FilesRead]
  /\ table' = [p \in 0..(n - 1) |-> Fresh(p, n)]
  /\ pairs' = [p \in 0..(n - 1) |-> {<<k, 0>> : k \in {k \in Keys : setting.kv /\ k % n = p}}]
  /\ UNCHANGED <<setting, files, latest, torn>>

(* _load_dense_embedding, with and without the C++ op.                     *)
RestoreDense(p) ==
  LET parts == FilesOf(latest, "bin") IN
  /\ doing[p] = "restoring" /\ "bin" \in ops[p]
  /\ ops' = [ops EXCEPT ![p] = @ \ {"bin"}]
  /\ table' = [table EXCEPT ![p] = Loaded(parts, p, size)]
  /\ doing' = IF setting.lib /\ ~Filled(parts, p, size)
              THEN [doing EXCEPT ![p] = "failed"] ELSE doing
  /\ UNCHANGED <<setting, size, step, pairs, files, latest, torn, jobs>>

(* _load_kv_embedding.  The op pairs the values with the keys by their     *)
(* place.  Without the op the value file is sought under a wrong name.     *)
RestoreKv(p) ==
  LET keys == FilesOf(latest, "key")
      Values(f) == {g \in FilesOf(latest, "val") : g.part = f.part}
      fails == ~setting.lib \/ \E f \in keys : \A g \in Values(f) : g.body # f.body
  IN /\ doing[p] = "restoring" /\ "key" \in ops[p]
     /\ ops' = [ops EXCEPT ![p] = @ \ {"key"}]
     /\ pairs' = [pairs EXCEPT ![p] = {kv \in UNION {f.body : f \in keys} : kv[1] % size = p}]
     /\ doing' = IF fails THEN [doing EXCEPT ![p] = "failed"] ELSE doing
     /\ UNCHANGED <<setting, size, step, table, files, latest, torn, jobs>>

(* The other variables.                                                    *)
RestoreVariables(p) ==
  /\ doing[p] = "restoring" /\ "index" \in ops[p]
  /\ ops' = [ops EXCEPT ![p] = @ \ {"index"}]
  /\ doing' = IF FilesOf(latest, "index") = {} THEN [doing EXCEPT ![p] = "failed"] ELSE doing
  /\ UNCHANGED <<setting, size, step, table, pairs, files, latest, torn, jobs>>

Restored(p) ==
  /\ doing[p] = "restoring" /\ ops[p] = {}
  /\ doing' = [doing EXCEPT ![p] = "restored"]
  /\ UNCHANGED <<setting, size, step, ops, table, pairs, files, latest, torn, jobs>>

(* Faulty variant: a rank saves when it has restored, without the others.  *)
BroadcastAlone ==
  \E p \in Ranks :
    /\ doing[p] = "restored"
    /\ doing' = [doing EXCEPT ![p] = "saving"]
    /\ ops' = [ops EXCEPT ![p] = SaveOps(p)]
    /\ UNCHANGED <<setting, size, step, table, pairs, files, latest, torn, jobs>>

(* after_create_session: the broadcast of BroadcastGlobalVariablesHook     *)
(* comes before the first save, and waits for every rank.                  *)
Broadcast ==
  /\ size > 0 /\ \A p \in Ranks : doing[p] = "restored"
  /\ doing' = [p \in Ranks |-> "saving"]
  /\ ops' = [p \in Ranks |-> SaveOps(p)]
  /\ UNCHANGED <<setting, size, step, table, pairs, files, latest, torn, jobs>>

---------------------------------------------------------------------------
(* The save: each rank's operations in any order, but for a key file that  *)
(* comes before its value file.                                            *)

File(kind, p, body) == [step |-> step, kind |-> kind, part |-> p, body |-> body]

Written(kind, p, body) ==
  {f \in files : ~(f.step = step /\ f.kind = kind /\ f.part = p)} \cup {File(kind, p, body)}

(* Faulty variant: the first part beyond its own job's stays.              *)
SweptPast(fs, kinds, p) ==
  IF p # 0 THEN fs ELSE {f \in fs : ~(f.step = step /\ f.kind \in kinds /\ f.part > size)}

(* Rank 0 removes the parts of an older, larger job.                       *)
Swept(fs, kinds, p) ==
  IF p # 0 THEN fs ELSE {f \in fs : ~(f.step = step /\ f.kind \in kinds /\ f.part >= size)}

Does(p, op, next) ==
  /\ doing[p] = "saving" /\ op \in ops[p]
  /\ ops' = [ops EXCEPT ![p] = (@ \ {op}) \cup next]
  /\ UNCHANGED <<setting, size, step, doing, table, pairs, torn, jobs>>

WriteDense(p) ==
  /\ Does(p, "bin", {}) /\ files' = Swept(Written("bin", p, table[p]), {"bin"}, p)
  /\ UNCHANGED latest

WriteKeys(p) ==
  /\ Does(p, "key", {"val"}) /\ files' = Written("key", p, pairs[p])
  /\ UNCHANGED latest

WriteValues(p) ==
  /\ Does(p, "val", {}) /\ files' = Swept(Written("val", p, pairs[p]), {"key", "val"}, p)
  /\ UNCHANGED latest

WriteIndex(p) ==
  /\ Does(p, "index", {}) /\ files' = Written("index", p, {})
  /\ UNCHANGED latest

(* The checkpoint is announced when the first rank is done with its files. *)
WriteState(p) ==
  /\ ops[p] = {"state"} /\ Does(p, "state", {}) /\ latest' = step
  /\ UNCHANGED files

Saved(p) ==
  /\ doing[p] = "saving" /\ ops[p] = {}
  /\ doing' = [doing EXCEPT ![p] = "training"]
  /\ UNCHANGED <<setting, size, step, ops, table, pairs, files, latest, torn, jobs>>

(* A training step exchanges gradients between all ranks.  After it they   *)
(* all save or none does (save_checkpoints_steps).                         *)
TrainStep ==
  /\ size > 0 /\ step < MaxStep /\ \A p \in Ranks : doing[p] = "training"
  /\ step' = step + 1
  /\ table' = [p \in Ranks |-> [i \in DOMAIN table[p] |->
       IF RowId(p, i, size) < NumBuckets THEN <<table[p][i][1], step'>> ELSE table[p][i]]]
  /\ pairs' = [p \in Ranks |-> {<<kv[1], step'>> : kv \in pairs[p]}]
  /\ IF step' % SaveSteps = 0
     THEN doing' = [p \in Ranks |-> "saving"] /\ ops' = [p \in Ranks |-> SaveOps(p)]
     ELSE UNCHANGED <<doing, ops>>
  /\ UNCHANGED <<setting, size, files, latest, torn, jobs>>

(* The job ends, or dies wherever it is.                                   *)
Saving == \E p \in Ranks : doing[p] = "saving" /\ ops[p] # {}

Gone ==
  /\ size > 0 /\ size' = 0
  /\ torn' = (torn \/ (Saving /\ latest = step))
  /\ doing' = <<>> /\ ops' = <<>> /\ table' = <<>> /\ pairs' = <<>>
  /\ UNCHANGED <<setting, step, files, latest, jobs>>

PartsNext ==
  \/ \E n \in 1..MaxRanks : Launch(n)
  \/ \E p \in Ranks : \/ RestoreDense(p) \/ RestoreKv(p) \/ RestoreVariables(p) \/ Restored(p)
                      \/ WriteDense(p) \/ WriteKeys(p) \/ WriteValues(p)
                      \/ WriteIndex(p) \/ WriteState(p) \/ Saved(p)
  \/ Broadcast \/ TrainStep \/ Gone

PartsSpec == PartsInit /\ [][PartsNext]_vars

---------------------------------------------------------------------------
(* Properties.                                                             *)

(* The checkpoint is that of a table and a dynamic embedding divided among *)
(* some number of ranks, each part in its place and of that step.          *)
Whole(s) ==
  \E n \in 1..MaxRanks :
    /\ {f.part : f \in FilesOf(s, "bin")} = 0..(n - 1)
    /\ \A f \in FilesOf(s, "bin") : Len(f.body) = PartSize(n)
    /\ \A r \in 0..(NumBuckets - 1) : \A f \in FilesOf(s, "bin") :
         f.part = RankOf(r, n) => f.body[PositionOf(r, n)] = <<r, s>>
    /\ FilesOf(s, "index") # {}
    /\ setting.kv =>
         \A kind \in {"key", "val"} :
           {<<f.part, f.body>> : f \in FilesOf(s, kind)} =
             {<<p, {<<k, s>> : k \in {k \in Keys : k % n = p}}>> : p \in 0..(n - 1)}

(* Outside of a save, the checkpoint that the state file names is whole.   *)
(* The ranks write, delete and announce without waiting for each other     *)
(* (embedding_parallel_saver.py 106-126, 206-221): what protects it is that*)
(* all of them are done before the next step.  A death in the midst of a   *)
(* save whose step is announced, by the first rank to be done or by the    *)
(* job before, is the exception.                                           *)
LatestWhole == ~Saving /\ ~torn /\ latest # -1 => Whole(latest)

(* After a restore by any number of ranks the lookup finds each row of the *)
(* checkpoint, each rank has the keys it is asked for, and no rank has     *)
(* failed, unless it has a dynamic embedding and not the op for it.        *)
RestoredExact ==
  ~torn /\ latest # -1 =>
    \A p \in Ranks :
      /\ doing[p] = "failed" => setting.kv /\ ~setting.lib
      /\ doing[p] = "restored" =>
           /\ \A r \in 0..(NumBuckets - 1) :
                RankOf(r, size) = p => table[p][PositionOf(r, size)] = <<r, latest>>
           /\ setting.kv => pairs[p] = {<<k, latest>> : k \in {k \in Keys : k % size = p}}
=============================================================================
