--------------------------- MODULE StreamOffsets ---------------------------
(***************************************************************************)
(* Online training from a stream, its checkpoints and its restarts:        *)
(* input/kafka_input.py, input/datahub_input.py, the data offset variable  *)
(* of model/easy_rec_estimator.py and CheckpointSaverHook of               *)
(* utils/estimator_utils.py.                                               *)
(*                                                                         *)
(* A worker reads its partitions into a pipeline of batches.  When a batch *)
(* is parsed it gets a snapshot of the offsets; when it is trained on, the *)
(* snapshot is put in the worker's slot of a variable on the parameter     *)
(* servers.  The chief saves what the slots hold, then the model.  After a *)
(* crash the workers start from the offsets of the latest checkpoint.      *)
(*                                                                         *)
(* A message is its partition and its place in it; the model is the set of *)
(* messages it was trained on.  Kafka, DataHub, tf.data and the variables  *)
(* are modelled from how the code uses them.                               *)
(***************************************************************************)
EXTENDS TrainingTasks, Integers, Sequences, SequencesExt, FiniteSetsExt

CONSTANTS
  NumPartition, \* partitions (Kafka) or shards (DataHub) of the topic
  StartAt,      \* the offset that offset_time or offset_info gives
  Confs,        \* the settings and topics to try, see ConfType
  BatchSize,
  PrefetchSize, \* batches a pipeline holds
  ReadCnt,      \* records of one fetch (DataHub)
  SaveSteps,    \* save_checkpoints_steps
  MaxCrashes    \* bound: crashes

(* msgs bounds the stream: msgs[p + 1] messages get to partition p.        *)
ConfType == [input : {"kafka", "datahub"}, shuffle : Nat \ {0}, parallel : Nat \ {0},
             msgs : [1..NumPartition -> Nat]]

ASSUME StreamAssumption ==
  /\ Workers = 0..(NumWorkers - 1) /\ Chief = 0
  /\ Confs \subseteq ConfType
  /\ {NumPartition, StartAt, MaxCrashes} \subseteq Nat
  /\ {BatchSize, PrefetchSize, ReadCnt, SaveSteps} \subseteq Nat \ {0}
  /\ \A c \in Confs, p \in 1..NumPartition : StartAt <= c.msgs[p]
  /\ NumPartition >= NumWorkers \* asserted by _get_topics

VARIABLES
  conf,     \* the settings of the job, and what its topic holds
  wpc,      \* wpc[w]: "down", "restored", "run"
  next,     \* next[p]: the message its reader hands on next
  off,      \* off[p]: _task_offset_dict (Kafka), _offset_dict (DataHub)
  fetch,    \* fetch[w]: the shard of the fetch being yielded and its next_cursor
            \*   (DataHub), or none
  raw,      \* raw[w]: messages in the shuffle buffer
  pipe,     \* pipe[w]: batches on their way to the training loop
  hand,     \* hand[w]: the batch of the running train op, at most one
  ops,      \* ops[w]: what that train op has yet to do
  model,    \* messages the variables were trained on
  gstep,    \* global_step
  slot,     \* slot[w]: the element of data_offset_var
  spc,      \* where _save is: "idle", "offsets", "file", "vars"
  saving,   \* its step and the offsets it has read
  lastSaved,\* the step the timer was triggered at
  ckpt,     \* the latest checkpoint: its step and its model
  file,     \* file[n]: model.ckpt-n.offset
  done,     \* done[w]: messages trained on since w started (history)
  early,    \* messages trained on in a session before its first save has read
            \*   the offsets, which go to the checkpoint restored (history)
  crashes   \* crashes so far

readVars == <<next, off, fetch, raw>>
pipeVars == <<pipe, hand, ops>>
psVars   == <<model, gstep, slot>>
saveVars == <<spc, saving, lastSaved>>
diskVars == <<ckpt, file>>
pastVars == <<done, early, crashes>>
streamVars == <<conf, wpc, readVars, pipeVars, psVars, saveVars, diskVars, pastVars>>

Partitions == 0..(NumPartition - 1)

End(p) == conf.msgs[p + 1]

(* The partitions of a task.                                               *)
PartsOf(w) == {p \in Partitions : p % NumWorkers = w}

NoOffsets == <<>>       \* the empty string, and an empty JSON object
NoCkpt == [step |-> -1, model |-> {}]
NoSave == [step |-> 0, off |-> NoOffsets]

(* A batch: its messages, what its parsing saw of the offsets before it    *)
(* (Kafka), and the offsets it takes along once it is parsed.              *)
Batch(m) == [msgs |-> <<m>>, saw |-> NoOffsets, snap |-> NoOffsets]

StreamInit ==
  /\ conf \in Confs
  /\ wpc = [w \in Workers |-> "down"]
  /\ next = [p \in Partitions |-> StartAt] /\ off = next
  /\ fetch = [w \in Workers |-> <<>>] /\ raw = fetch
  /\ pipe = fetch /\ hand = fetch /\ ops = [w \in Workers |-> {}]
  /\ model = {} /\ gstep = 0 /\ slot = [w \in Workers |-> NoOffsets]
  /\ spc = "idle" /\ lastSaved = 0
  /\ saving = NoSave
  /\ ckpt = NoCkpt /\ file = <<>>
  /\ done = [w \in Workers |-> {}] /\ early = {} /\ crashes = 0

---------------------------------------------------------------------------
(* Start and restart                                                       *)

(* The offset a task starts from, given what the offset file says of p:    *)
(* Kafka's restore forgets the configured offset, DataHub's takes the      *)
(* larger one.                                                             *)
StartOf(p, offsets) ==
  IF conf.input = "kafka" THEN IF p \in DOMAIN offsets THEN offsets[p] ELSE 0
  ELSE IF p \in DOMAIN offsets /\ offsets[p] > StartAt THEN offsets[p] ELSE StartAt

StartOffset(p) ==
  IF ckpt.step \notin DOMAIN file THEN StartAt ELSE StartOf(p, file[ckpt.step])

(* train: the input is told the latest checkpoint, then it is built.       *)
Restore(w) ==
  /\ wpc[w] = "down" /\ wpc' = [wpc EXCEPT ![w] = "restored"]
  /\ off' = [p \in Partitions |-> IF p \in PartsOf(w) THEN StartOffset(p) ELSE off[p]]
  /\ next' = [p \in Partitions |-> IF p \in PartsOf(w) THEN off'[p] ELSE next[p]]
  /\ UNCHANGED <<conf, fetch, raw, pipeVars, psVars, saveVars, diskVars, pastVars>>

(* The chief's session: the variables of the latest checkpoint, an empty   *)
(* offset variable, and "save for step 0" by after_create_session.         *)
ChiefSession ==
  /\ wpc[Chief] = "restored" /\ wpc' = [wpc EXCEPT ![Chief] = "run"]
  /\ model' = ckpt.model
  /\ gstep' = IF ckpt = NoCkpt THEN 0 ELSE ckpt.step
  /\ slot' = [w \in Workers |-> NoOffsets]
  /\ spc' = "offsets" /\ lastSaved' = gstep'
  /\ saving' = [NoSave EXCEPT !.step = gstep']
  /\ UNCHANGED <<conf, readVars, pipeVars, diskVars, pastVars>>

(* The others wait for the chief's variables.                              *)
WorkerSession(w) ==
  /\ w # Chief /\ wpc[w] = "restored" /\ wpc[Chief] = "run"
  /\ wpc' = [wpc EXCEPT ![w] = "run"]
  /\ UNCHANGED <<conf, readVars, pipeVars, psVars, saveVars, diskVars, pastVars>>

(* A process dies, with its readers and its pipeline.                      *)
Dead(ws) ==
  /\ wpc' = [w \in Workers |-> IF w \in ws THEN "down" ELSE wpc[w]]
  /\ next' = [p \in Partitions |-> IF p % NumWorkers \in ws THEN StartAt ELSE next[p]]
  /\ off' = [p \in Partitions |-> IF p % NumWorkers \in ws THEN StartAt ELSE off[p]]
  /\ fetch' = [w \in Workers |-> IF w \in ws THEN <<>> ELSE fetch[w]]
  /\ raw' = [w \in Workers |-> IF w \in ws THEN <<>> ELSE raw[w]]
  /\ pipe' = [w \in Workers |-> IF w \in ws THEN <<>> ELSE pipe[w]]
  /\ hand' = [w \in Workers |-> IF w \in ws THEN <<>> ELSE hand[w]]
  /\ ops' = [w \in Workers |-> IF w \in ws THEN {} ELSE ops[w]]
  /\ done' = [w \in Workers |-> IF w \in ws THEN {} ELSE done[w]]
  /\ crashes < MaxCrashes /\ crashes' = crashes + 1

WorkerCrash(w) ==
  /\ w # Chief /\ wpc[w] = "run" /\ Dead({w})
  /\ UNCHANGED <<conf, psVars, saveVars, diskVars, early>>

(* The whole job dies: what is not on disk is gone.                        *)
JobCrash ==
  /\ wpc[Chief] = "run" /\ Dead(Workers)
  /\ model' = {} /\ gstep' = 0 /\ slot' = [w \in Workers |-> NoOffsets]
  /\ spc' = "idle" /\ saving' = NoSave /\ lastSaved' = 0
  /\ UNCHANGED <<conf, diskVars, early>>

---------------------------------------------------------------------------
(* The pipeline of a worker                                                *)

Running(w) == wpc[w] = "run"
Full(b)   == Len(b.msgs) = BatchSize
Parsed(b) == b.snap # NoOffsets

(* The parallel map keeps a window of batches, from the first that is not  *)
(* parsed; it asks for messages only while the window or the last batch    *)
(* has room.                                                               *)
FirstUnparsed(w) ==
  Min({i \in DOMAIN pipe[w] : ~Parsed(pipe[w][i])} \cup {Len(pipe[w]) + 1})
OpenBatch(w) == pipe[w] # <<>> /\ ~Full(Last(pipe[w]))

(* Faulty variant: the window is one batch short.                          *)
NewBatchShort(w) ==
  ~OpenBatch(w) /\ Len(pipe[w]) < PrefetchSize
                /\ Len(pipe[w]) + 1 - FirstUnparsed(w) < conf.parallel - 1

NewBatch(w) ==
  ~OpenBatch(w) /\ Len(pipe[w]) < PrefetchSize
                /\ Len(pipe[w]) + 1 - FirstUnparsed(w) < conf.parallel

Pulling(w) == Running(w) /\ (OpenBatch(w) \/ NewBatch(w))

(* The records of a DataHub fetch of p: of the one being yielded, or of a  *)
(* new one, which gets what is there by now.                               *)
Fetches(w, p) ==
  IF fetch[w] = <<>>
  THEN {<<p, c>> : c \in {x \in off[p] + 1..off[p] + ReadCnt : x <= End(p)}}
  ELSE {f \in {fetch[w]} : f[1] = p /\ next[p] < f[2]}

(* A message goes to the last batch, or to a new one.                      *)
Batched(w, m) ==
  IF OpenBatch(w) THEN [pipe[w] EXCEPT ![Len(pipe[w])].msgs = Append(@, m)]
  ELSE Append(pipe[w], Batch(m))

(* One message, of any partition (Kafka) or of a fetch (DataHub), goes to  *)
(* the shuffle buffer; the buffer, when full, gives one to the batch.      *)
Read(w, p) ==
  LET buffer == Append(raw[w], <<p, next[p]>>)
  IN /\ p \in PartsOf(w) /\ Pulling(w)
     /\ \/ conf.input = "kafka" /\ next[p] < End(p) /\ UNCHANGED fetch
        \/ /\ conf.input = "datahub"
           /\ \E f \in Fetches(w, p) : fetch' = [fetch EXCEPT ![w] = f]
     /\ next' = [next EXCEPT ![p] = @ + 1]
     /\ \/ /\ Len(buffer) < conf.shuffle
           /\ raw' = [raw EXCEPT ![w] = buffer] /\ UNCHANGED pipe
        \/ /\ Len(buffer) = conf.shuffle
           /\ \E i \in DOMAIN buffer :
                /\ raw' = [raw EXCEPT ![w] = RemoveAt(buffer, i)]
                /\ pipe' = [pipe EXCEPT ![w] = Batched(w, buffer[i])]
     /\ UNCHANGED <<conf, wpc, off, hand, ops, psVars, saveVars, diskVars, pastVars>>

(* DataHub: the generator goes on after the last record of a fetch.        *)
FetchDone(w) ==
  /\ fetch[w] # <<>> /\ Pulling(w)
  /\ next[fetch[w][1]] = fetch[w][2]
  /\ off' = [off EXCEPT ![fetch[w][1]] = fetch[w][2]]
  /\ fetch' = [fetch EXCEPT ![w] = <<>>]
  /\ UNCHANGED <<conf, wpc, next, raw, pipeVars, psVars, saveVars, diskVars, pastVars>>

OwnOffsets(w, offsets) == [p \in PartsOf(w) |-> offsets[p]]

(* Kafka: _parse_offset compares the batch with the shared dictionary (a   *)
(* step of its own when there are other calls)...                          *)
Compare(w, i) ==
  /\ conf.input = "kafka" /\ conf.parallel > 1 /\ Running(w)
  /\ Full(pipe[w][i]) /\ pipe[w][i].saw = NoOffsets
  /\ pipe' = [pipe EXCEPT ![w][i].saw = OwnOffsets(w, off)]
  /\ UNCHANGED <<conf, wpc, readVars, hand, ops, psVars, saveVars, diskVars, pastVars>>

(* Faulty variant: the dictionary is dumped before it is set.              *)
RecordLate(w, i) ==
  LET b == pipe[w][i]
      saw == IF conf.parallel > 1 THEN b.saw ELSE OwnOffsets(w, off)
      Newer(p) == {v \in 0..End(p) : <<p, v>> \in ToSet(b.msgs) /\ v > saw[p]}
  IN /\ conf.input = "kafka" /\ Running(w) /\ Full(b) /\ ~Parsed(b) /\ saw # NoOffsets
     /\ off' = [p \in Partitions |->
                  IF p \in PartsOf(w) /\ Newer(p) # {} THEN Max(Newer(p)) ELSE off[p]]
     /\ pipe' = [pipe EXCEPT ![w][i].snap = OwnOffsets(w, off)]
     /\ UNCHANGED <<conf, wpc, next, fetch, raw, hand, ops, psVars, saveVars, diskVars, pastVars>>

(* ...sets what was newer, and dumps the dictionary.                       *)
Record(w, i) ==
  LET b == pipe[w][i]
      saw == IF conf.parallel > 1 THEN b.saw ELSE OwnOffsets(w, off)
      Newer(p) == {v \in 0..End(p) : <<p, v>> \in ToSet(b.msgs) /\ v > saw[p]}
  IN /\ conf.input = "kafka" /\ Running(w) /\ Full(b) /\ ~Parsed(b) /\ saw # NoOffsets
     /\ off' = [p \in Partitions |->
                  IF p \in PartsOf(w) /\ Newer(p) # {} THEN Max(Newer(p)) ELSE off[p]]
     /\ pipe' = [pipe EXCEPT ![w][i].snap = OwnOffsets(w, off')]
     /\ UNCHANGED <<conf, wpc, next, fetch, raw, hand, ops, psVars, saveVars, diskVars, pastVars>>

(* DataHub: _dump_offsets.                                                 *)
Dump(w, i) ==
  /\ conf.input = "datahub" /\ Running(w)
  /\ Full(pipe[w][i]) /\ ~Parsed(pipe[w][i])
  /\ pipe' = [pipe EXCEPT ![w][i].snap = OwnOffsets(w, off)]
  /\ UNCHANGED <<conf, wpc, readVars, hand, ops, psVars, saveVars, diskVars, pastVars>>

---------------------------------------------------------------------------
(* Training                                                                *)

(* Faulty variant: the batches come out of the parallel map in any order.  *)
NextBatchAny(w) ==
  /\ Running(w) /\ (w = Chief => spc = "idle") /\ hand[w] = <<>>
  /\ \E i \in DOMAIN pipe[w] : /\ Parsed(pipe[w][i])
                               /\ hand' = [hand EXCEPT ![w] = <<pipe[w][i]>>]
                               /\ pipe' = [pipe EXCEPT ![w] = RemoveAt(@, i)]
  /\ ops' = [ops EXCEPT ![w] = {"assign", "apply"}]
  /\ UNCHANGED <<conf, wpc, readVars, psVars, saveVars, diskVars, pastVars>>

(* The next batch goes to the train op.  The chief saves between its steps.*)
NextBatch(w) ==
  /\ Running(w) /\ (w = Chief => spc = "idle")
  /\ hand[w] = <<>> /\ pipe[w] # <<>> /\ Parsed(Head(pipe[w]))
  /\ hand' = [hand EXCEPT ![w] = <<Head(pipe[w])>>]
  /\ pipe' = [pipe EXCEPT ![w] = Tail(@)]
  /\ ops' = [ops EXCEPT ![w] = {"assign", "apply"}]
  /\ UNCHANGED <<conf, wpc, readVars, psVars, saveVars, diskVars, pastVars>>

(* The two halves of the train op, in either order: the gradient does not  *)
(* wait for the update op of the offset.                                   *)
Ran(w, op) ==
  /\ op \in ops[w] /\ ops' = [ops EXCEPT ![w] = @ \ {op}]
  /\ hand' = [hand EXCEPT ![w] = IF ops[w] = {op} THEN <<>> ELSE @]

(* Faulty variant: the offsets of the moment, not those of the batch.      *)
AssignCurrent(w) ==
  /\ Ran(w, "assign")
  /\ slot' = [slot EXCEPT ![w] = OwnOffsets(w, off)]
  /\ UNCHANGED <<conf, wpc, readVars, pipe, model, gstep, saveVars, diskVars, pastVars>>

Assign(w) ==
  /\ Ran(w, "assign")
  /\ slot' = [slot EXCEPT ![w] = hand[w][1].snap]
  /\ UNCHANGED <<conf, wpc, readVars, pipe, model, gstep, saveVars, diskVars, pastVars>>

(* The chief is back from a checkpoint and will save under its step again. *)
Resaving == spc = "offsets" /\ saving.step = ckpt.step

Apply(w) ==
  /\ Ran(w, "apply")
  /\ model' = model \cup ToSet(hand[w][1].msgs) /\ gstep' = gstep + 1
  /\ done' = [done EXCEPT ![w] = @ \cup ToSet(hand[w][1].msgs)]
  /\ early' = IF Resaving THEN early \cup ToSet(hand[w][1].msgs) ELSE early
  /\ UNCHANGED <<conf, wpc, readVars, pipe, slot, saveVars, diskVars, crashes>>

---------------------------------------------------------------------------
(* Saving                                                                  *)

(* after_run of the chief, when the timer triggers.                        *)
SaveBegin ==
  /\ Running(Chief) /\ spc = "idle" /\ hand[Chief] = <<>> /\ gstep >= lastSaved + SaveSteps
  /\ spc' = "offsets" /\ lastSaved' = gstep /\ saving' = [NoSave EXCEPT !.step = gstep]
  /\ UNCHANGED <<conf, wpc, readVars, pipeVars, psVars, diskVars, pastVars>>

(* The offsets of all slots.  No two have the same partition.              *)
Merged ==
  [p \in UNION {DOMAIN slot[w] : w \in Workers} |->
     slot[CHOOSE w \in Workers : p \in DOMAIN slot[w]][p]]

(* _save: the slots that are set are merged...                             *)
ReadOffsets ==
  /\ spc = "offsets" /\ spc' = "file"
  /\ saving' = [saving EXCEPT !.off = Merged]
  /\ UNCHANGED <<conf, wpc, readVars, pipeVars, psVars, lastSaved, diskVars, pastVars>>

(* ...and written, over a file of that step if there is one...             *)
WriteFile ==
  /\ spc = "file" /\ spc' = "vars"
  /\ file' = [n \in DOMAIN file \cup {saving.step} |->
                IF n = saving.step THEN saving.off ELSE file[n]]
  /\ UNCHANGED <<conf, wpc, readVars, pipeVars, psVars, saving, lastSaved, ckpt, pastVars>>

(* ...then the variables.  (Offset files of earlier steps are not read any *)
(* more, and left out.)                                                    *)
SaveVars ==
  /\ spc = "vars" /\ spc' = "idle"
  /\ ckpt' = [step |-> saving.step, model |-> model]
  /\ file' = [n \in {saving.step} \cap DOMAIN file |-> file[n]]
  /\ saving' = NoSave
  /\ UNCHANGED <<conf, wpc, readVars, pipeVars, psVars, lastSaved, done, early, crashes>>

Step(w) ==
  \/ Restore(w) \/ WorkerSession(w) \/ (w = Chief /\ ChiefSession)
  \/ FetchDone(w) \/ \E p \in Partitions : Read(w, p)
  \/ \E i \in DOMAIN pipe[w] : Compare(w, i) \/ Record(w, i) \/ Dump(w, i)
  \/ NextBatch(w) \/ Assign(w) \/ Apply(w)
SaveStep == SaveBegin \/ ReadOffsets \/ WriteFile \/ SaveVars
JobStep == SaveStep \/ \E w \in Workers : Step(w)

StreamNext == JobStep \/ JobCrash \/ \E w \in Workers : WorkerCrash(w)

(* Brokers and servers answer, and what is down is started again: the job  *)
(* does not stop while something in it can go on.                          *)
StreamSpec == StreamInit /\ [][StreamNext]_streamVars /\ WF_streamVars(JobStep)

---------------------------------------------------------------------------
(* Properties                                                              *)

Saved == file[ckpt.step]

(* The messages of w before the saved offsets that are not in the saved    *)
(* variables: a restart skips them.                                        *)
Before(w, offsets) ==
  UNION {{<<p, i>> : i \in StartAt..(offsets[p] - 1)} :
           p \in PartsOf(w) \cap DOMAIN offsets}

Lost(w) == Before(w, Saved) \ ckpt.model

(* Batches whose offsets can be saved before they are trained on: the      *)
(* others of the parallel map, and, as the chief saves between its steps   *)
(* only, the one in hand of another worker.                                *)
Unsettled(w) == (conf.parallel - 1 + IF w = Chief THEN 0 ELSE 1) * BatchSize

(* A restart from the latest checkpoint skips no more of a worker's        *)
(* messages than its unsettled batches and its shuffle buffer held, for    *)
(* each crash there has been: KafkaInput and DataHubInput put the offsets  *)
(* in the batch, so that what is prefetched does not count.  Without bound *)
(* is what workers train on while the chief, in a new session, has yet to  *)
(* read the offsets for its first save: they overwrite the offset file of  *)
(* the checkpoint it was restored from, whose variables are older.         *)
LossBounded ==
  ckpt # NoCkpt =>
    \A w \in Workers :
      Cardinality(Lost(w) \ early) <= (crashes + 1) * (Unsettled(w) + conf.shuffle - 1)

(* A restart from offsets that are saved repeats, of what a worker has     *)
(* trained on since it started and before the offsets are read: for Kafka  *)
(* the last message of each partition, whose own offset is saved, and what *)
(* other calls had parsed when a late one set the partition back; for      *)
(* DataHub the fetch that is not yielded whole; for either the unsettled   *)
(* batches.  (Shuffled messages that several calls parse have no such      *)
(* bound: an offset set back may stay, and be saved.)                      *)
Again(w, offsets) ==
  {m \in done[w] : m[1] \in DOMAIN offsets /\ m[2] >= offsets[m[1]]}

Repeats(w) ==
  IF conf.input = "kafka"
  THEN Cardinality(PartsOf(w)) * (1 + (conf.parallel - 1) * BatchSize)
  ELSE ReadCnt

ReplayBounded ==
  [][ /\ spc = "offsets" /\ spc' = "file"
      /\ conf.input = "datahub" \/ 1 \in {conf.parallel, conf.shuffle}
      => \A w \in Workers :
          Cardinality(Again(w, saving'.off)) <= Unsettled(w) + Repeats(w) ]_streamVars

(* With one parsing call at a time, the offsets of a worker that has       *)
(* finished a step never go back, whatever the shuffling and the order of  *)
(* the two halves of its steps.                                            *)
OffsetsAdvance ==
  [][ \A w \in Workers :
        /\ conf.parallel = 1 /\ slot'[w] # slot[w] /\ slot'[w] # NoOffsets
        /\ done[w] \ ToSet(hand[w][1].msgs) # {}
        => \A p \in DOMAIN slot[w] : slot'[w][p] >= slot[w][p] ]_streamVars

(* The messages of w in its pipeline, and those that it has neither there  *)
(* nor in the variables.                                                   *)
Pending(w) == ToSet(raw[w]) \cup UNION {ToSet(b.msgs) : b \in ToSet(pipe[w])}

Skipped(w) ==
  UNION {{<<p, i>> : i \in StartAt..(End(p) - 1)} : p \in PartsOf(w)}
    \ (model \cup Pending(w))

(* If it is only started again, the job drains the topic: neither the      *)
(* windows of the pipeline nor a save in the middle of it block it for     *)
(* ever, each reader gets to the end and each full batch is trained on.    *)
(* Then every message is in the variables, but those that wait for a batch *)
(* or the shuffle buffer to fill, and those that crashes made it skip: of  *)
(* a worker, for each crash, no more than LossBounded allows.              *)
CatchesUp ==
  <>[] /\ \A p \in Partitions : next[p] = End(p)
       /\ \A w \in Workers :
            /\ hand[w] = <<>> /\ \A b \in ToSet(pipe[w]) : ~Full(b)
            /\ Cardinality(Skipped(w) \ early)
                 <= crashes * (Unsettled(w) + conf.shuffle - 1)

(* docs/source/online_train.md:49: the offsets are saved with the          *)
(* checkpoint, and a restart after a failure goes on from it.  Then the    *)
(* chief, with one parsing call and no shuffling, repeats no more than     *)
(* ReplayBounded says.                                                     *)
ResumesAtCheckpoint ==
  wpc[Chief] = "restored" =>
    Cardinality({m \in ckpt.model : m[1] \in PartsOf(Chief) /\ m[2] >= off[m[1]]})
      <= Repeats(Chief)
=============================================================================
