----------------------------- MODULE Lifecycle -----------------------------
(***************************************************************************)
(* A job that trains, evaluates, exports and perhaps trains on (main.py    *)
(* _train_and_evaluate_impl, compat/estimator_train.py): what its          *)
(* processes tell each other through model_dir and through the stop        *)
(* variable on the parameter servers.                                      *)
(*                                                                         *)
(* The trainers (the chief and the workers) train asynchronously, leave    *)
(* training through the exit barrier (ExitBarrier has its queues), and may *)
(* go on with the evaluation data.  The evaluator follows the checkpoints. *)
(* A job may be killed and submitted again with continue_train on the same *)
(* model_dir; its files outlive it.                                        *)
(***************************************************************************)
EXTENDS TrainingTasks, EarlyStopping

CONSTANTS
  MaxStep,      \* bound: no data are left at this step
  SaveEvery,    \* save_checkpoints_steps
  Keep,         \* keep_checkpoint_max
  ToKeep,       \* exports_to_keep
  Window,       \* max_check_steps
  Settings,     \* exporter: "final", "best" or "none"; steps: num_steps, 0 if
                \*   not set; early, oss: enable_early_stop and
                \*   enable_oss_stop_signal; fit: fit_on_eval_steps, 0 if there
                \*   is no fit_on_eval (with it the steps are always given);
                \*   metric: what the evaluation of a step will give
  MaxCuts       \* bound: restarts of the evaluator or of the job

ASSUME LifecycleAssumption ==
  /\ {MaxStep, MaxCuts} \subseteq Nat
  /\ {SaveEvery, Keep, ToKeep, Window} \subseteq Nat \ {0}
  /\ \A s \in Settings :
       /\ s.exporter \in {"final", "best", "none"}
       /\ s.early \in BOOLEAN /\ s.oss \in BOOLEAN
       /\ s.steps \in Nat /\ s.fit \in Nat
       /\ s.metric \in [0..MaxStep -> Nat]

VARIABLES
  setting,
  first,      \* this is the first job on the model_dir
  step,       \* global step, on the parameter servers
  stop,       \* the early stopping variable, there too
  ready,      \* the variables there are initialised
  trainer,    \* trainer[t]: stage "train" or "fit", where it is in it, and the
              \*   step it is to reach in fit
  counter,    \* elements in exit_counter
  signals,    \* and in exit_counter_signal
  watched,    \* the chief's watcher has seen OSS_STOP_SIGNAL
  lastSave,   \* step of the chief's last save
  ckpts,      \* steps of the checkpoints in model_dir
  done, signal, \* ESTIMATOR_TRAIN_DONE, OSS_STOP_SIGNAL exist
  results,    \* steps with a result in the event files of eval_val
  evaluator,  \* pc; at: the step evaluated in this round, prev: the last one
              \*   before, best: the best so far, loaded: best was read
  finalDir,   \* export/final exists
  final,      \* step of the model in it
  best,       \* steps in best_ckpt
  cuts,
  trained, cut \* history: the step training ended at; results whose export
               \*   did not end

trainVars == <<first, step, stop, ready, trainer, counter, signals, watched, lastSave,
               ckpts, done, signal, trained>>
evalVars  == <<results, evaluator, finalDir, final, best, cuts, cut>>
vars == <<setting, trainVars, evalVars>>

Latest == IF ckpts = {} THEN None ELSE CHOOSE s \in ckpts : \A e \in ckpts : e <= s
Trained(s) == IF s = None THEN 0 ELSE s

NewTrainer   == [stage |-> "train", at |-> "starting", target |-> 0]
NewEvaluator == [pc |-> "look", at |-> None, prev |-> None, best |-> None, loaded |-> FALSE]

LifecycleInit ==
  /\ setting \in Settings
  /\ first = TRUE /\ step = 0 /\ stop = FALSE /\ ready = FALSE
  /\ trainer = [t \in Workers |-> NewTrainer]
  /\ counter = 0 /\ signals = 0 /\ watched = FALSE /\ lastSave = None
  /\ ckpts = {} /\ done = FALSE /\ signal = FALSE /\ results = {}
  /\ evaluator = NewEvaluator
  /\ finalDir = FALSE /\ final = None /\ best = {} /\ cuts = 0
  /\ trained = None /\ cut = {}

---------------------------------------------------------------------------
(* The trainers.                                                           *)

At(t, place) == trainer[t].at = place
Goes(t, place) == trainer' = [trainer EXCEPT ![t].at = place]
Limit(t) == IF trainer[t].stage = "train" THEN setting.steps ELSE trainer[t].target
Reached(t, s) == Limit(t) > 0 /\ s >= Limit(t)

(* CheckpointSaverHook, in the chief.                                      *)
Save(s) == ckpts' = Newest(ckpts \cup {s}, Keep) /\ lastSave' = s
NoSave  == UNCHANGED <<ckpts, lastSave>>

(* Estimator.train has nothing to do if a checkpoint of the last step is   *)
(* there.                                                                  *)
Enter(t) ==
  /\ At(t, "starting")
  /\ Goes(t, IF Reached(t, Trained(Latest)) THEN "skipped" ELSE "joining")
  /\ UNCHANGED <<first, step, stop, ready, counter, signals, watched, done, signal, trained>> /\ NoSave

(* The chief's session restores the latest checkpoint, initialises the stop*)
(* variable and saves at once; then the barrier's counter is emptied.      *)
ChiefSession ==
  /\ At(Chief, "joining") /\ Goes(Chief, "clearing")
  /\ step' = Trained(Latest) /\ stop' = FALSE /\ ready' = TRUE /\ watched' = FALSE
  /\ Save(Trained(Latest))
  /\ UNCHANGED <<first, counter, signals, done, signal, trained>>

ClearCounter ==
  /\ At(Chief, "clearing")
  /\ IF counter > 0 THEN counter' = counter - 1 /\ UNCHANGED trainer
     ELSE Goes(Chief, "running") /\ UNCHANGED counter
  /\ UNCHANGED <<first, step, stop, ready, signals, watched, done, signal, trained>> /\ NoSave

(* The others wait for the variables.  When they fit, these are there      *)
(* already: the parameter servers go on between the stages.                *)
WorkerSession(t) ==
  /\ t # Chief /\ At(t, "joining") /\ ready
  /\ Goes(t, "running")
  /\ UNCHANGED <<first, step, stop, ready, counter, signals, watched, done, signal, trained>> /\ NoSave

(* A training step and the hooks after it.  A worker sees the stop variable*)
(* of that step.  The chief saves, and decides to stop if its watcher has  *)
(* seen the signal, or when it is time to look at the evaluations.         *)
TrainStep(t) ==
  /\ At(t, "running") /\ step < MaxStep
  /\ step' = step + 1
  /\ \E looks \in BOOLEAN :
       LET decides == \/ setting.oss /\ watched
                      \/ setting.early /\ looks /\ NoImprovement(results, setting.metric, Window)
           stops == IF t = Chief THEN decides ELSE stop
       IN /\ stop' = (stop \/ (t = Chief /\ decides))
          /\ Goes(t, IF stops \/ Reached(t, step') THEN "leaving" ELSE "running")
  /\ IF t = Chief /\ step' - lastSave >= SaveEvery THEN Save(step') ELSE NoSave
  /\ UNCHANGED <<first, ready, counter, signals, watched, done, signal, trained>>

(* The watcher's thread.                                                   *)
Watch ==
  /\ setting.oss /\ At(Chief, "running") /\ signal /\ ~watched
  /\ watched' = TRUE
  /\ UNCHANGED <<first, step, stop, ready, trainer, counter, signals, done, signal, trained>> /\ NoSave

(* The share of this trainer is used up.                                   *)
DataEnd(t) ==
  /\ At(t, "running")
  /\ Goes(t, "leaving")
  /\ UNCHANGED <<first, step, stop, ready, counter, signals, watched, done, signal, trained>> /\ NoSave

(* The exit barrier: a trainer counts itself in, and waits for the others. *)
CountIn(t) ==
  /\ At(t, "leaving") /\ counter < NumWorkers
  /\ counter' = counter + 1 /\ Goes(t, "counted")
  /\ UNCHANGED <<first, step, stop, ready, signals, watched, done, signal, trained>> /\ NoSave

(* Faulty variant: the chief does not save behind the barrier.             *)
PollUnsaved(t) ==
  /\ At(t, "counted") /\ counter >= NumWorkers
  /\ Goes(t, IF t = Chief THEN "through" ELSE "receiving")
  /\ signals' = IF t = Chief THEN signals + NumWorkers - 1 ELSE signals
  /\ trained' = IF t = Chief /\ trainer[t].stage = "train" THEN step ELSE trained
  /\ UNCHANGED <<first, step, stop, ready, counter, watched, done, signal>> /\ NoSave

(* The chief lets the others out, and saves once more.                     *)
Poll(t) ==
  /\ At(t, "counted") /\ counter >= NumWorkers
  /\ Goes(t, IF t = Chief THEN "through" ELSE "receiving")
  /\ signals' = IF t = Chief THEN signals + NumWorkers - 1 ELSE signals
  /\ IF t = Chief THEN Save(step) ELSE NoSave
  /\ trained' = IF t = Chief /\ trainer[t].stage = "train" THEN step ELSE trained
  /\ UNCHANGED <<first, step, stop, ready, counter, watched, done, signal>>

Receive(t) ==
  /\ At(t, "receiving") /\ signals > 0
  /\ signals' = signals - 1 /\ Goes(t, "through")
  /\ UNCHANGED <<first, step, stop, ready, counter, watched, done, signal, trained>> /\ NoSave

(* Faulty variant: whoever comes first says that the training is done.     *)
FinishAny(t) ==
  /\ trainer[t].at \in {"through", "skipped"}
  /\ Goes(t, IF trainer[t].stage = "train" /\ setting.fit > 0 THEN "waiting" ELSE "over")
  /\ done' = (done \/ TRUE)
  /\ trained' = IF t = Chief /\ trained = None THEN Trained(Latest) ELSE trained
  /\ UNCHANGED <<first, step, stop, ready, counter, signals, watched, signal>> /\ NoSave

(* Faulty variant: the chief says so when it has nothing more to do.       *)
FinishLast(t) ==
  /\ trainer[t].at \in {"through", "skipped"}
  /\ Goes(t, IF trainer[t].stage = "train" /\ setting.fit > 0 THEN "waiting" ELSE "over")
  /\ done' = (done \/ (t = Chief /\ (setting.fit = 0 \/ trainer[t].stage = "fit")))
  /\ trained' = IF t = Chief /\ trained = None THEN Trained(Latest) ELSE trained
  /\ UNCHANGED <<first, step, stop, ready, counter, signals, watched, signal>> /\ NoSave

(* Training is over for this process; the chief says so.  Then it is the   *)
(* turn of the evaluation data, perhaps.  (With fit_on_eval_steps, as in   *)
(* every setting here: without it main.py 382 waits for nobody.)           *)
Finish(t) ==
  /\ trainer[t].at \in {"through", "skipped"}
  /\ Goes(t, IF trainer[t].stage = "train" /\ setting.fit > 0 THEN "waiting" ELSE "over")
  /\ done' = (done \/ t = Chief)
  /\ trained' = IF t = Chief /\ trained = None THEN Trained(Latest) ELSE trained
  /\ UNCHANGED <<first, step, stop, ready, counter, signals, watched, signal>> /\ NoSave

(* estimator_train_done, and get_trained_steps.                            *)
BeginFit(t) ==
  /\ At(t, "waiting") /\ done
  /\ trainer' = [trainer EXCEPT ![t] =
       [stage |-> "fit", at |-> "starting", target |-> Trained(Latest) + setting.fit]]
  /\ UNCHANGED <<first, step, stop, ready, counter, signals, watched, done, signal, trained>> /\ NoSave

TrainerStep(t) ==
  /\ \/ Enter(t) \/ WorkerSession(t) \/ TrainStep(t) \/ DataEnd(t) \/ CountIn(t)
     \/ Poll(t) \/ Receive(t) \/ Finish(t) \/ BeginFit(t)
     \/ t = Chief /\ (ChiefSession \/ ClearCounter)
  /\ UNCHANGED <<setting, evalVars>>

---------------------------------------------------------------------------
(* The evaluator.                                                          *)

EvalAt(pc) == evaluator.pc = pc
Is(exporter) == setting.exporter = exporter
IsLast(s) == setting.steps > 0 /\ s >= setting.steps

(* TensorFlow's continuous evaluation: it ends if the last round evaluated *)
(* the last step, and takes the latest checkpoint if that is a new one.    *)
Look ==
  /\ EvalAt("look")
  /\ evaluator' =
       IF evaluator.at # None /\ IsLast(evaluator.at) THEN [evaluator EXCEPT !.pc = "ending"]
       ELSE IF Latest \in {None, evaluator.prev}
       THEN [evaluator EXCEPT !.pc = "after", !.at = None]
       ELSE [evaluator EXCEPT !.pc = "evaluate", !.at = Latest]
  /\ UNCHANGED <<results, finalDir, final, best, cut>>

(* A checkpoint that the chief has deleted meanwhile cannot be loaded.     *)
Evaluate ==
  /\ EvalAt("evaluate")
  /\ IF evaluator.at \in ckpts
     THEN results' = results \cup {evaluator.at} /\ evaluator' = [evaluator EXCEPT !.pc = "export"]
     ELSE evaluator' = [evaluator EXCEPT !.pc = "dead"] /\ UNCHANGED results
  /\ UNCHANGED <<finalDir, final, best, cut>>

(* The exporter: the directory is made first, then the checkpoint loaded.  *)
ExportFinal(s) ==
  /\ finalDir' = TRUE
  /\ IF s \in ckpts THEN final' = s ELSE UNCHANGED final

Exported(e) == [e EXCEPT !.pc = "compare", !.prev = e.at]

FinalExporter ==
  /\ EvalAt("export") /\ Is("final")
  /\ IF IsLast(evaluator.at) THEN ExportFinal(evaluator.at) ELSE UNCHANGED <<finalDir, final>>
  /\ evaluator' = IF IsLast(evaluator.at) /\ evaluator.at \notin ckpts
                  THEN [evaluator EXCEPT !.pc = "dead"] ELSE Exported(evaluator)
  /\ UNCHANGED <<results, best, cut>>

(* BestExporter.export: the best of the earlier steps is read once.        *)
BestExporter ==
  LET s == evaluator.at
      champion == IF evaluator.loaded THEN evaluator.best
                  ELSE BestBefore(results, setting.metric, s)
      better == IsBetter(setting.metric, s, champion)
      fails == better /\ s \notin ckpts
  IN /\ EvalAt("export") /\ Is("best")
     /\ evaluator' = [Exported(evaluator) EXCEPT !.loaded = TRUE,
                        !.best = IF better THEN s ELSE champion,
                        !.pc = IF fails THEN "dead" ELSE "compare"]
     /\ best' = IF better /\ ~fails THEN Newest(best \cup {s}, ToKeep) ELSE best
     /\ cut' = IF fails THEN cut \cup {s} ELSE cut
     /\ UNCHANGED <<results, finalDir, final>>

NoExporter ==
  /\ EvalAt("export") /\ Is("none")
  /\ evaluator' = Exported(evaluator)
  /\ UNCHANGED <<results, finalDir, final, best, cut>>

(* TrainDoneListener.after_eval: the latest checkpoint first,              *)
Compare ==
  /\ EvalAt("compare")
  /\ evaluator' = [evaluator EXCEPT !.pc = IF Latest # evaluator.at THEN "look" ELSE "after"]
  /\ UNCHANGED <<results, finalDir, final, best, cut>>

(* Faulty variant: the evaluation ends with num_steps only.                *)
AfterLast ==
  /\ EvalAt("after")
  /\ evaluator' = [evaluator EXCEPT !.pc = IF IsLast(evaluator.prev) THEN "ending" ELSE "look"]
  /\ UNCHANGED <<results, finalDir, final, best, cut>>

(* then the file.                                                          *)
After ==
  /\ EvalAt("after")
  /\ evaluator' = [evaluator EXCEPT !.pc = IF done THEN "ending" ELSE "look"]
  /\ UNCHANGED <<results, finalDir, final, best, cut>>

(* The evaluation is over; FinalExporter is given another chance.          *)
Ending ==
  /\ EvalAt("ending")
  /\ IF Is("final") /\ ~finalDir
     THEN /\ ExportFinal(Latest)
          /\ evaluator' = [evaluator EXCEPT !.pc = IF Latest \in ckpts THEN "over" ELSE "dead"]
     ELSE UNCHANGED <<finalDir, final>> /\ evaluator' = [evaluator EXCEPT !.pc = "over"]
  /\ UNCHANGED <<results, best, cut>>

EvaluatorStep ==
  /\ \/ Look \/ Evaluate \/ FinalExporter \/ BestExporter \/ NoExporter
     \/ Compare \/ After \/ Ending
  /\ UNCHANGED <<setting, trainVars, cuts>>

---------------------------------------------------------------------------
(* The world outside.                                                      *)

(* An evaluator that stops in the midst of an export leaves the directory. *)
Stopped ==
  LET inBest  == EvalAt("export") /\ Is("best")
      inFinal == (EvalAt("export") /\ Is("final") /\ IsLast(evaluator.at)) \/ EvalAt("ending")
  IN /\ cut' = IF inBest THEN cut \cup {evaluator.at} ELSE cut
     /\ IF inFinal /\ Is("final") THEN finalDir' \in {finalDir, TRUE} ELSE UNCHANGED finalDir
     /\ UNCHANGED <<results, final, best>>

EvaluatorRestarts ==
  /\ ~EvalAt("over") /\ cuts < MaxCuts /\ cuts' = cuts + 1
  /\ evaluator' = NewEvaluator /\ Stopped
  /\ UNCHANGED <<setting, trainVars>>

PutSignal ==
  /\ setting.oss /\ ~signal /\ signal' = TRUE
  /\ UNCHANGED <<setting, first, step, stop, ready, trainer, counter, signals, watched,
                 lastSave, ckpts, done, trained, evalVars>>

(* The job ends or is killed, and another one continues.                   *)
RunAgain ==
  /\ cuts < MaxCuts /\ cuts' = cuts + 1 /\ first' = FALSE
  /\ step' = 0 /\ stop' = FALSE /\ ready' = FALSE /\ counter' = 0 /\ signals' = 0
  /\ watched' = FALSE /\ lastSave' = None
  /\ trainer' = [t \in Workers |-> NewTrainer]
  /\ trained' = None
  /\ evaluator' = NewEvaluator /\ Stopped
  /\ UNCHANGED <<setting, ckpts, done, signal>>

LifecycleNext ==
  \/ \E t \in Workers : TrainerStep(t)
  \/ Watch /\ UNCHANGED <<setting, evalVars>>
  \/ EvaluatorStep \/ EvaluatorRestarts \/ PutSignal \/ RunAgain

(* Each process goes on; nobody needs to restart or to kill anything.      *)
LifecycleSpec ==
  /\ LifecycleInit /\ [][LifecycleNext]_vars
  /\ \A t \in Workers : WF_vars(TrainerStep(t))
  /\ WF_vars(EvaluatorStep)

---------------------------------------------------------------------------
(* Properties.                                                             *)

(* The exporter "final" exports after the training (docs/source/export.md  *)
(* 14): when the evaluator of the first job is over, the model in          *)
(* export/final is that of the last checkpoint of the training or of one   *)
(* that has num_steps; unless a cut export left the directory and nothing  *)
(* in it.                                                                  *)
FinalOut ==
  (first /\ EvalAt("over") /\ Is("final") /\ (finalDir => final # None)) =>
    /\ final # None
    /\ IsLast(final) \/ (trained # None /\ final >= trained)

(* The best checkpoint of all that were evaluated, by any evaluator of any *)
(* job, is in best_ckpt, although those of the lowest steps are deleted    *)
(* there and an evaluator knows the earlier results from the event files   *)
(* only; unless its export was cut.                                        *)
BestKept ==
  (Is("best") /\ ~EvalAt("export") /\ results # {}) =>
    Champion(results, setting.metric) \in best \cup cut

(* Nobody fits before the training is over and its last checkpoint is there*)
(* to count from (main.py 383-389), in a job that found no file of an      *)
(* earlier one.                                                            *)
FitAfterTraining ==
  first => \A t \in Workers : trainer[t].stage = "fit" =>
    trained # None /\ trainer[t].target >= trained + setting.fit

(* Once the chief says that the training is done, the evaluator ends, or it*)
(* has lost a checkpoint: it neither waits for one that will not come nor  *)
(* for num_steps that are not reached (early stopping, end of data).       *)
EvaluatorEnds == done ~> evaluator.pc \in {"over", "dead"}

(* All trainers come to their end, with or without a request to stop, and  *)
(* with or without evaluation data to fit on, or some of them are in the   *)
(* barrier and the counts they wait for will not come: one was taken when  *)
(* the chief emptied the counter, or never given by a worker that came so  *)
(* late that it had nothing to do.                                         *)
Stranded ==
  \E t \in Workers :
    /\ At(t, "counted") /\ counter < NumWorkers
    /\ \A u \in Workers : trainer[u].at \in {"counted", "receiving", "waiting", "over"}

TrainersEnd == <>[](Stranded \/ \A t \in Workers : At(t, "over"))

=============================================================================
