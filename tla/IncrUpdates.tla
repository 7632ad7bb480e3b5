---------------------------- MODULE IncrUpdates ----------------------------
(***************************************************************************)
(* Incremental updates of a served model (utils/estimator_utils.py,        *)
(* CheckpointSaverHook with incr_save_config; compat/optimizers.py).       *)
(*                                                                         *)
(* The workers of an asynchronous job train without waiting for each other.*)
(* A run of the train op updates the variables, advances the global step,  *)
(* and then records, per embedding, the rows it has touched.  The chief's  *)
(* hook reads the recorded rows now and then, which empties the record,    *)
(* and sends their values: to a Kafka topic of one partition or as files   *)
(* named after the global step.  Who serves the model applies the messages *)
(* in their order to the checkpoint of step 0.                             *)
(*                                                                         *)
(* A value is the life of the job it was computed in (the restarts before) *)
(* and a number that counts the updates of its row.  The timers count      *)
(* steps.  Saving the variables is one step, as in StreamOffsets, and the  *)
(* step saved among them is taken to be the one in the checkpoint's name   *)
(* (the workers go on, so it may be a little later).                       *)
(***************************************************************************)
EXTENDS TrainingTasks, Integers, Sequences

CONSTANTS
  Rows,       \* rows of all embeddings
  VarOf,      \* VarOf[r]: the embedding that row r is in
  Dense,      \* the variables with a dense gradient, taken as one
  Batches,    \* the rows that a batch may touch
  Settings,   \* [redundant, dense, sparse, save]: chief_redundant,
              \*   dense_save_steps, sparse_save_steps, save_checkpoints_steps
  MaxStep,    \* num_steps
  MaxLives    \* bound: times the job is started

Vars == {VarOf[r] : r \in Rows}
Places == Rows \cup {Dense}
Over(f, g) == [x \in DOMAIN f \cup DOMAIN g |-> IF x \in DOMAIN f THEN f[x] ELSE g[x]]
RowsOf(vs, b) == {r \in b : VarOf[r] \in vs}

ASSUME IncrAssumption ==
  /\ VarOf \in [Rows -> Vars] /\ Dense \notin Rows /\ Dense \notin Vars
  /\ Batches \subseteq SUBSET Rows
  /\ {MaxStep, MaxLives} \subseteq Nat \ {0}
  /\ \A s \in Settings : /\ s.redundant \in BOOLEAN
                         /\ {s.dense, s.sparse, s.save} \subseteq Nat \ {0}

VARIABLES
  setting,  \* a member of Settings
  lives,    \* starts of the job before this one
  gstep,    \* the global step
  ver,      \* ver[x]: the value of place x
  recorded, \* rows set_sparse_indices has recorded
  run,      \* run[w]: what worker w does, see NewRun
  chief,    \* what the chief's hook does, see NewChief
  ckpt,     \* the latest checkpoint: [step, ver]
  served,   \* served[x]: the value that a reader of all messages has
  keys,     \* the step of the last message of this life: [dense, sparse]
  lost,     \* places whose served value a restart has left behind
  missed    \* rows not recorded yet when the step of the last sparse message
            \*   was read, of runs that had advanced it

trainVars == <<gstep, ver, recorded, run>>
sentVars == <<served, keys, lost, missed>>
vars == <<setting, lives, trainVars, chief, ckpt, sentVars>>

(* at: "idle", "apply" (the variables todo are to be updated), "record"    *)
(* (the rows of embeddings todo are to be recorded).                       *)
NewRun == [at |-> "idle", batch |-> {}, todo |-> {}]

(* at: "session", "saving", "loop" (about to begin a run), "run", "save",  *)
(* "dense", "sending", "sparse", "reading", "end", "ended".  next: where it*)
(* goes from "saving", "sending" and "reading", always "end" at the end of *)
(* the training.  stale: the global step when its run began, then the one  *)
(* fetched with the run.  key: the step read for a message, or -1.  flight:*)
(* rows that were to be recorded then.  todo: reads yet to be done.  took: *)
(* rows taken from the record and not read yet.  got: values read.  save,  *)
(* dense, sparse: last_triggered_step.                                     *)
NoValues == [r \in {} |-> <<0, 0>>]

NewChief ==
  [at |-> "session", next |-> "loop", stale |-> 0, key |-> -1, flight |-> {},
   todo |-> {}, took |-> {}, got |-> NoValues, save |-> 0, dense |-> 0, sparse |-> 0]

NoKeys == [dense |-> -1, sparse |-> -1]

IncrInit ==
  /\ setting \in Settings
  /\ lives = 0 /\ gstep = 0 /\ ver = [x \in Places |-> <<0, 0>>] /\ recorded = {}
  /\ run = [w \in Workers |-> NewRun] /\ chief = NewChief
  /\ ckpt = [step |-> 0, ver |-> ver]
  /\ served = ver /\ keys = NoKeys /\ lost = {} /\ missed = {}

---------------------------------------------------------------------------
(* Training.                                                               *)

(* Whether a worker's run updates anything: with chief_redundant the       *)
(* chief's does not.                                                       *)
Learns(w) == ~(setting.redundant /\ w = Chief)

Begin(w) ==
  /\ run[w].at = "idle" /\ gstep < MaxStep /\ chief.next # "end"
  /\ w = Chief => chief.at = "loop"
  /\ \E b \in Batches :
       run' = [run EXCEPT ![w] =
         IF Learns(w) THEN [at |-> "apply", batch |-> b, todo |-> Vars \cup {Dense}] ELSE @]
  /\ chief' = IF w = Chief
              THEN [chief EXCEPT !.at = "run", !.stale = gstep, !.key = -1, !.flight = {}]
              ELSE chief
  /\ UNCHANGED <<setting, lives, gstep, ver, recorded, ckpt, sentVars>>

Updated(val) == <<lives, val[2] + 1>>

(* One variable is updated.                                                *)
Apply(w, v) ==
  /\ run[w].at = "apply" /\ v \in run[w].todo
  /\ LET hit == RowsOf({v}, run[w].batch) \cup ({Dense} \cap {v}) IN
     ver' = [x \in Places |-> IF x \in hit THEN Updated(ver[x]) ELSE ver[x]]
  /\ run' = [run EXCEPT ![w].todo = @ \ {v}]
  /\ UNCHANGED <<setting, lives, gstep, recorded, chief, ckpt, sentVars>>

(* The optimizer advances the global step after all of them.               *)
Advance(w) ==
  /\ run[w].at = "apply" /\ run[w].todo = {}
  /\ gstep' = gstep + 1
  /\ run' = [run EXCEPT ![w] = [at |-> "record", batch |-> run[w].batch, todo |-> Vars]]
  /\ UNCHANGED <<setting, lives, ver, recorded, chief, ckpt, sentVars>>

(* What is left of a run when an embedding is recorded.                    *)
Recorded(w, v) ==
  LET left == run[w].todo \ {v} IN
  IF left = {} THEN NewRun ELSE [at |-> "record", batch |-> run[w].batch, todo |-> left]

(* Faulty variant: a record takes the place of the one before.             *)
RecordOver(w, v) ==
  /\ run[w].at = "record" /\ v \in run[w].todo
  /\ recorded' = RowsOf({v}, run[w].batch)
  /\ run' = [run EXCEPT ![w] = Recorded(w, v)]
  /\ UNCHANGED <<setting, lives, gstep, ver, chief, ckpt, sentVars>>

(* set_sparse_indices, once grad_updates is done.  The run is over with    *)
(* the last.                                                               *)
Record(w, v) ==
  /\ run[w].at = "record" /\ v \in run[w].todo
  /\ recorded' = recorded \cup RowsOf({v}, run[w].batch)
  /\ run' = [run EXCEPT ![w] = Recorded(w, v)]
  /\ UNCHANGED <<setting, lives, gstep, ver, chief, ckpt, sentVars>>

---------------------------------------------------------------------------
(* The hook.                                                               *)

(* SecondOrStepTimer.should_trigger_for_step.                              *)
Triggers(last, every, step) == step # last /\ step >= last + every

(* after_run asks the timers for the step after the one fetched with the   *)
(* run, and goes on to the first of these that is due.                     *)
DueAfter(kind, stale) == Triggers(chief[kind], setting[kind], stale + 1)

FirstDue(kinds, stale) ==
  CASE "save" \in kinds /\ DueAfter("save", stale)     -> "save"
    [] "dense" \in kinds /\ DueAfter("dense", stale)   -> "dense"
    [] "sparse" \in kinds /\ DueAfter("sparse", stale) -> "sparse"
    [] OTHER -> "loop"

(* The chief's run is over.  It has fetched the global step at some time.  *)
AfterRun ==
  /\ chief.at = "run" /\ run[Chief].at = "idle"
  /\ \E step \in chief.stale..gstep :
       chief' = [chief EXCEPT !.stale = step,
                              !.at = FirstDue({"save", "dense", "sparse"}, step)]
  /\ UNCHANGED <<setting, lives, trainVars, ckpt, sentVars>>

(* after_create_session, or after_run and end of the parent class: a       *)
(* checkpoint.  after_run asks the timer once more, for the step now.      *)
SaveBegin ==
  /\ \/ chief.at = "session" /\ chief' = [chief EXCEPT !.at = "saving", !.save = gstep]
     \/ /\ chief.at = "save"
        /\ LET then == FirstDue({"dense", "sparse"}, chief.stale) IN
           chief' = IF Triggers(chief.save, setting.save, gstep)
                    THEN [chief EXCEPT !.at = "saving", !.save = gstep, !.next = then]
                    ELSE [chief EXCEPT !.at = then]
     \/ /\ chief.at = "end" /\ chief.save # gstep
        /\ chief' = [chief EXCEPT !.at = "saving", !.save = gstep]
  /\ UNCHANGED <<setting, lives, trainVars, ckpt, sentVars>>

SaveVars ==
  /\ chief.at = "saving" /\ chief' = [chief EXCEPT !.at = chief.next]
  /\ ckpt' = [step |-> chief.save, ver |-> ver]
  /\ UNCHANGED <<setting, lives, trainVars, sentVars>>

(* Rows that a run has updated and not recorded yet.                       *)
Unrecorded(w) ==
  CASE run[w].at = "apply"  -> {r \in run[w].batch : VarOf[r] \notin run[w].todo}
    [] run[w].at = "record" -> RowsOf(run[w].todo, run[w].batch)
    [] OTHER -> {}

InFlight == UNION {Unrecorded(w) : w \in {u \in Workers : run[u].at = "record"}}

(* The step of the message is read, at the end of the training once more.  *)
DenseBegin ==
  /\ \/ chief.at = "dense"
     \/ chief.at = "end" /\ chief.save = gstep /\ chief.dense # gstep
  /\ chief' = [chief EXCEPT !.at = "sending", !.key = gstep, !.flight = InFlight,
                            !.dense = gstep,
                            !.next = IF chief.at = "end" THEN "end"
                                     ELSE FirstDue({"sparse"}, chief.stale)]
  /\ UNCHANGED <<setting, lives, trainVars, ckpt, sentVars>>

(* _send_dense.                                                            *)
SendDense ==
  /\ chief.at = "sending" /\ chief' = [chief EXCEPT !.at = chief.next]
  /\ served' = [served EXCEPT ![Dense] = ver[Dense]]
  /\ keys' = [keys EXCEPT !.dense = chief.key] /\ lost' = lost \ {Dense}
  /\ UNCHANGED <<setting, lives, trainVars, ckpt, missed>>

Reads == {"get", "gather"} \X Vars

(* Faulty variant: the timer is set to the step it was asked for.          *)
SparseBeginStale ==
  /\ \/ chief.at = "sparse"
     \/ chief.at = "end" /\ gstep \in {chief.save} \cap {chief.dense} /\ chief.sparse # gstep
  /\ LET fresh == chief.at = "end" \/ chief.key = -1
         key == IF fresh THEN gstep ELSE chief.key
     IN /\ chief' = [chief EXCEPT !.at = "reading", !.key = key, !.todo = Reads,
                        !.sparse = IF chief.at = "end" THEN key ELSE chief.stale + 1,
                        !.next = IF chief.at = "end" THEN "end" ELSE "loop"]
        /\ missed' = IF fresh THEN InFlight ELSE chief.flight
  /\ UNCHANGED <<setting, lives, trainVars, ckpt, served, keys, lost>>

(* The step is read unless it was for the dense message.                   *)
SparseBegin ==
  /\ \/ chief.at = "sparse"
     \/ chief.at = "end" /\ gstep \in {chief.save} \cap {chief.dense} /\ chief.sparse # gstep
  /\ LET fresh == chief.at = "end" \/ chief.key = -1
         key == IF fresh THEN gstep ELSE chief.key
     IN /\ chief' = [chief EXCEPT !.at = "reading", !.key = key, !.sparse = key,
                                  !.todo = Reads,
                                  !.next = IF chief.at = "end" THEN "end" ELSE "loop"]
        /\ missed' = IF fresh THEN InFlight ELSE chief.flight
  /\ UNCHANGED <<setting, lives, trainVars, ckpt, served, keys, lost>>

(* get_sparse_indices takes the recorded rows of an embedding.             *)
Get(v) ==
  /\ chief.at = "reading" /\ <<"get", v>> \in chief.todo
  /\ LET taken == RowsOf({v}, recorded) IN
     /\ recorded' = recorded \ taken
     /\ chief' = [chief EXCEPT !.todo = @ \ {<<"get", v>>}, !.took = @ \cup taken]
  /\ UNCHANGED <<setting, lives, gstep, ver, run, ckpt, sentVars>>

(* Faulty variant: the values are read without waiting for the rows (those *)
(* that the last run has seen).                                            *)
GatherEarly(v) ==
  /\ chief.at = "reading" /\ <<"gather", v>> \in chief.todo
  /\ LET rows == RowsOf({v}, chief.took \cup recorded) IN
     chief' = [chief EXCEPT !.todo = @ \ {<<"gather", v>>}, !.took = @ \ rows,
                            !.got = Over([r \in rows |-> ver[r]], @)]
  /\ UNCHANGED <<setting, lives, trainVars, ckpt, sentVars>>

(* The values of the rows taken, read after them.                          *)
Gather(v) ==
  /\ chief.at = "reading" /\ <<"gather", v>> \in chief.todo /\ <<"get", v>> \notin chief.todo
  /\ LET rows == RowsOf({v}, chief.took) IN
     chief' = [chief EXCEPT !.todo = @ \ {<<"gather", v>>}, !.took = @ \ rows,
                            !.got = Over([r \in rows |-> ver[r]], @)]
  /\ UNCHANGED <<setting, lives, trainVars, ckpt, sentVars>>

(* _send_sparse sends what was read, or nothing.                           *)
SendSparse ==
  /\ chief.at = "reading" /\ chief.todo = {}
  /\ LET rows == DOMAIN chief.got IN
     /\ served' = Over(chief.got, served)
     /\ keys' = IF rows = {} THEN keys ELSE [keys EXCEPT !.sparse = chief.key]
     /\ lost' = lost \ rows
  /\ chief' = [chief EXCEPT !.at = chief.next, !.took = {}, !.got = NoValues]
  /\ UNCHANGED <<setting, lives, trainVars, ckpt, missed>>

(* All workers have left the loop, for the end of the data or of the       *)
(* steps: end begins behind the exit barrier.                              *)
EndBegin ==
  /\ chief.at = "loop" /\ \A w \in Workers : run[w].at = "idle"
  /\ chief' = [chief EXCEPT !.at = "end", !.next = "end"]
  /\ UNCHANGED <<setting, lives, trainVars, ckpt, sentVars>>

End ==
  /\ chief.at = "end" /\ {chief.save, chief.dense, chief.sparse} = {gstep}
  /\ chief' = [chief EXCEPT !.at = "ended"]
  /\ UNCHANGED <<setting, lives, trainVars, ckpt, sentVars>>

(* The job dies, the record in the parameter servers with it, and is       *)
(* started from the latest checkpoint.  The messages stay.                 *)
Restart ==
  /\ lives + 1 < MaxLives /\ lives' = lives + 1
  /\ gstep' = ckpt.step /\ ver' = ckpt.ver /\ recorded' = {}
  /\ run' = [w \in Workers |-> NewRun] /\ chief' = NewChief
  /\ keys' = NoKeys /\ missed' = {}
  /\ lost' = {x \in Places : served[x] # ckpt.ver[x]}
  /\ UNCHANGED <<setting, ckpt, served>>

Train(w) ==
  \/ Begin(w) \/ Advance(w)
  \/ \E v \in Vars : Record(w, v)
  \/ \E v \in Vars \cup {Dense} : Apply(w, v)

SaveHook ==
  \/ AfterRun \/ SaveBegin \/ SaveVars
  \/ DenseBegin \/ SendDense \/ SparseBegin \/ SendSparse
  \/ \E v \in Vars : Get(v) \/ Gather(v)
  \/ EndBegin \/ End

Ended == chief.at = "ended" /\ UNCHANGED vars

IncrNext == (\E w \in Workers : Train(w)) \/ SaveHook \/ Restart \/ Ended

IncrSpec == IncrInit /\ [][IncrNext]_vars

---------------------------------------------------------------------------
(* Properties.                                                             *)

(* A row whose served value is not the trained one is on its way: a run has*)
(* yet to record it, it is recorded, or the hook has it in hand; or a      *)
(* restart went back behind it, or forgot its record, and it has not been  *)
(* sent since.                                                             *)
Pending == UNION {Unrecorded(w) : w \in Workers}

InHand == chief.took \cup {r \in DOMAIN chief.got : chief.got[r] = ver[r]}

NothingUnsent ==
  \A r \in Rows : served[r] = ver[r] \/ r \in lost \cup recorded \cup Pending \cup InHand

(* Messages are named by their kind and step, and as files they overwrite  *)
(* each other: within a life of the job the steps of a kind rise, except   *)
(* where the chief does not train and sends after every step.              *)
KeysRise ==
  /\ chief.at = "sending" =>
       chief.key > keys.dense \/ (setting.redundant /\ setting.dense = 1)
  /\ chief.at = "reading" =>
       chief.key > keys.sparse \/ (setting.redundant /\ setting.sparse = 1)

(* When the job has ended, who serves the model has the trained one        *)
(* (test/local_incr_test.py compares both), except for rows behind a       *)
(* restart, and for rows recorded by a run that had advanced the step, but *)
(* not recorded yet, when the hook read the last step for its message: end *)
(* sends nothing for a step it has sent before.                            *)
EndComplete ==
  chief.at = "ended" =>
    /\ \A r \in Rows : served[r] = ver[r] \/ r \in lost \cup missed
    /\ served[Dense] = ver[Dense] \/ (gstep = 0 /\ Dense \in lost)
=============================================================================
