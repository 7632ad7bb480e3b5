-------------------------- MODULE Lifecycle_proof --------------------------
(***************************************************************************)
(* What holds of training, evaluation and export for any number of trainers*)
(* and checkpoints, any metric, and whatever is restarted.                 *)
(***************************************************************************)
EXTENDS Lifecycle, FiniteSetTheorems, TLAPS

Steps == 0..MaxStep

Places == {"starting", "skipped", "joining", "clearing", "running", "leaving", "counted",
           "receiving", "through", "waiting", "over"}
Rounds == {"look", "evaluate", "export", "compare", "after", "ending", "over", "dead"}

(* Every variable that the invariants speak of keeps its type.             *)
LifeTypeOK ==
  /\ setting \in Settings
  /\ first \in BOOLEAN /\ ready \in BOOLEAN /\ done \in BOOLEAN /\ finalDir \in BOOLEAN
  /\ step \in Steps /\ ckpts \in SUBSET Steps /\ results \in SUBSET Steps
  /\ trained \in Nat \cup {None} /\ final \in Nat \cup {None}
  /\ trainer \in [Workers -> [stage : {"train", "fit"}, at : Places, target : Nat]]
  /\ evaluator \in [pc : Rounds, at : Steps \cup {None}, prev : Steps \cup {None},
                    best : Steps \cup {None}, loaded : BOOLEAN]

IsMax(s, S) == s \in S /\ \A e \in S : e <= s

(* No checkpoint is of a later step than the variables on the parameter    *)
(* servers, once the chief has initialised these.                          *)
InSession == {"clearing", "running", "leaving", "counted"}

StepsInOrder ==
  /\ ready => \A e \in ckpts : e <= step
  /\ \A t \in Workers : trainer[t].at \in InSession => ready
  /\ ckpts = {} \/ IsMax(Latest, ckpts)

(* In the first job, ESTIMATOR_TRAIN_DONE is there only if the chief has   *)
(* trained, and the last checkpoint is of that step at least.              *)
InTraining == InSession \cup {"starting", "joining"}

DoneMeansTrained ==
  first =>
    /\ done => trained # None /\ (trainer[Chief].stage = "fit"
                                   \/ trainer[Chief].at \in {"waiting", "over"})
    /\ trained # None => Trained(Latest) >= trained
    /\ trainer[Chief].stage = "train" /\ trainer[Chief].at \in InTraining => trained = None
    /\ \A t \in Workers : trainer[t].stage = "fit" =>
         trained # None /\ trainer[t].target >= trained + setting.fit

(* What the evaluator has in hand: the checkpoint it looked at is not later*)
(* than the latest one; in the first job it ends because it has evaluated  *)
(* the last step or because the training is done, and what it has exported *)
(* is of such a step.                                                      *)
AtTheEnd(s) == IsLast(s) \/ (trained # None /\ s >= trained)

EvalInOrder ==
  /\ evaluator.at # None => Latest # None /\ evaluator.at <= Latest
  /\ first =>
       /\ EvalAt("ending") => done \/ (evaluator.at # None /\ IsLast(evaluator.at))
       /\ EvalAt("over") /\ Is("final") => finalDir
       /\ final # None => AtTheEnd(final)

(* The results are of checkpoints up to the one in hand, and those before  *)
(* any step have a best one.                                               *)
IsChampion(c, S) ==
  /\ c \in S
  /\ \A e \in S : \/ setting.metric[e] < setting.metric[c]
                 \/ (setting.metric[e] = setting.metric[c] /\ c <= e)

Earlier(n) == {e \in results : e < n}

ResultsInOrder ==
  /\ results # {} => Latest # None /\ \A r \in results : r <= Latest
  /\ \A n \in Int : Earlier(n) = {} \/ \E c \in Steps : IsChampion(c, Earlier(n))
  /\ evaluator.pc \in {"evaluate", "export"} =>
       evaluator.at # None /\ \A r \in results : r <= evaluator.at
  /\ EvalAt("export") => evaluator.at \in results

(* What BestExporter takes for the best is the best of the results, and    *)
(* that is in best_ckpt (or its export was cut), or about to come there.   *)
Best == Champion(results, setting.metric)

BestInOrder ==
  Is("best") =>
    /\ best \subseteq results
    /\ evaluator.loaded /\ evaluator.pc \notin {"export", "dead"} =>
         /\ IsMax(evaluator.prev, results) /\ evaluator.best = Best
         /\ EvalAt("evaluate") => evaluator.at > evaluator.prev
    /\ evaluator.loaded /\ EvalAt("export") =>
         /\ Earlier(evaluator.at) # {}
         /\ evaluator.best = Champion(Earlier(evaluator.at), setting.metric)
    /\ results = {} \/ Best \in (best \cup cut) \/ (EvalAt("export") /\ Best = evaluator.at)

LifeInv ==
  /\ LifeTypeOK /\ StepsInOrder /\ DoneMeansTrained
  /\ EvalInOrder /\ ResultsInOrder /\ BestInOrder

---------------------------------------------------------------------------
(* The constants are numbers, and None is none of them.                    *)
LEMMA ConstantsAreNumbers ==
  /\ MaxStep \in Nat /\ Keep \in Nat /\ Keep > 0 /\ ToKeep \in Nat /\ ToKeep > 0
  /\ Chief \in Workers /\ None = -1
  /\ \A s \in Settings : s.fit \in Nat /\ s.steps \in Nat /\ s.metric \in [Steps -> Nat]
  BY LifecycleAssumption, ClusterAssumption DEF None, Steps

(* A set that is closed from above by s has s as its maximum.              *)
LEMMA MaxIsChosen ==
  ASSUME NEW S \in SUBSET Int, NEW s, IsMax(s, S)
  PROVE  (CHOOSE m \in S : \A e \in S : e <= m) = s
<1> DEFINE m == CHOOSE m \in S : \A e \in S : e <= m
<1>1. m \in S /\ \A e \in S : e <= m
  BY DEF IsMax
<1>2. m <= s /\ s <= m
  BY <1>1 DEF IsMax
<1>3. m \in Int /\ s \in Int
  BY <1>1 DEF IsMax
<1> HIDE DEF m
<1>4. m = s
  BY <1>2, <1>3
<1> QED
  BY <1>4 DEF m

(* The greatest step is among those that are kept.                         *)
LEMMA NewestKeepsLast ==
  ASSUME NEW S \in SUBSET Int, NEW s, IsMax(s, S), NEW keep \in Nat, keep > 0
  PROVE  s \in Newest(S, keep) /\ Newest(S, keep) \subseteq S
<1>0. \A e \in S : ~(e > s)
  BY DEF IsMax
<1>1. {e \in S : e > s} = {}
  BY <1>0
<1>2. Cardinality({e \in S : e > s}) = 0
  BY <1>1, FS_EmptySet
<1> QED
  BY <1>2 DEF Newest, IsMax

(* A save of the last step makes it the latest checkpoint.                 *)
LEMMA SaveIsLatest ==
  ASSUME ckpts \in SUBSET Steps, NEW s \in Steps, \A e \in ckpts : e <= s, Save(s)
  PROVE  /\ ckpts' \in SUBSET Steps /\ IsMax(s, ckpts') /\ ckpts' # {}
         /\ Latest' = s
<1>1. IsMax(s, ckpts \cup {s}) /\ ckpts \cup {s} \in SUBSET Int
  BY ConstantsAreNumbers DEF IsMax, Steps
<1>2. s \in ckpts' /\ ckpts' \subseteq ckpts \cup {s}
  BY <1>1, NewestKeepsLast, ConstantsAreNumbers DEF Save
<1>3. IsMax(s, ckpts') /\ ckpts' # {} /\ ckpts' \in SUBSET Steps
  BY <1>1, <1>2 DEF IsMax
<1>4. ckpts' \in SUBSET Int
  BY <1>3, ConstantsAreNumbers DEF Steps
<1>5. (CHOOSE m \in ckpts' : \A e \in ckpts' : e <= m) = s
  BY <1>3, <1>4, MaxIsChosen
<1> QED
  BY <1>3, <1>5 DEF Latest

(* The latest checkpoint, as a step to train on from.                      *)
LEMMA LatestType ==
  ASSUME LifeTypeOK, StepsInOrder
  PROVE  /\ Latest \in Steps \cup {None} /\ Trained(Latest) \in Steps
         /\ \A e \in ckpts : e <= Trained(Latest)
         /\ Latest # None => Latest \in ckpts /\ Trained(Latest) = Latest
<1>1. CASE ckpts = {}
  BY <1>1, ConstantsAreNumbers DEF Latest, Trained, Steps
<1>2. CASE ckpts # {}
  <2>1. Latest \in ckpts /\ \A e \in ckpts : e <= Latest
    BY <1>2 DEF StepsInOrder, IsMax
  <2>2. Latest \in Steps /\ Latest # None
    BY <2>1, ConstantsAreNumbers DEF LifeTypeOK, Steps
  <2> QED
    BY <2>1, <2>2 DEF Trained
<1> QED
  BY <1>1, <1>2

---------------------------------------------------------------------------
(* The steps of the trainers.                                              *)

TrainerType == [Workers -> [stage : {"train", "fit"}, at : Places, target : Nat]]

(* A trainer goes to its next place; nothing else is changed of any.       *)
LEMMA GoesTo ==
  ASSUME trainer \in TrainerType, NEW t \in Workers, NEW place \in Places, Goes(t, place)
  PROVE  /\ trainer' \in TrainerType
         /\ \A u \in Workers :
              /\ trainer'[u].stage = trainer[u].stage
              /\ trainer'[u].target = trainer[u].target
              /\ trainer'[u].at = IF u = t THEN place ELSE trainer[u].at
  BY DEF Goes, TrainerType

(* What the evaluator has in hand stays in order while the trainers go on, *)
(* if the latest checkpoint is not an earlier one than before.             *)
LEMMA EvaluatorKept ==
  ASSUME LifeInv, UNCHANGED <<setting, first, evalVars>>,
         Latest' = Latest \/ (Latest' \in Steps /\ Trained(Latest) <= Latest'),
         done => done', first => trained' = trained \/ trained = None
  PROVE  EvalInOrder' /\ ResultsInOrder' /\ BestInOrder'
<1>1. /\ Latest' # None \/ Latest = None
      /\ \A s \in Steps : Latest # None /\ s <= Latest => Latest' # None /\ s <= Latest'
  BY LatestType, ConstantsAreNumbers DEF LifeInv, Steps
<1>2. EvalInOrder'
  <2>1. evaluator.at # None => evaluator.at \in Steps
    BY DEF LifeInv, LifeTypeOK
  <2>2. first => \A s : AtTheEnd(s) => AtTheEnd(s)'
    BY DEF AtTheEnd, IsLast
  <2> QED
    BY <1>1, <2>1, <2>2 DEF LifeInv, EvalInOrder, evalVars, EvalAt, Is, IsLast
<1>3. ResultsInOrder'
  <2>1. results # {} => \A r \in results : r \in Steps
    BY DEF LifeInv, LifeTypeOK
  <2> QED
    BY <1>1, <2>1 DEF LifeInv, ResultsInOrder, evalVars, EvalAt, Earlier, IsChampion
<1>4. BestInOrder'
  BY DEF LifeInv, BestInOrder, Best, evalVars, EvalAt, Is, Earlier, IsMax
<1> QED
  BY <1>2, <1>3, <1>4

(* Most steps of a trainer take it to another place and that is all.       *)
LEMMA QuietStep ==
  ASSUME LifeInv, NEW t \in Workers, NEW place \in Places, Goes(t, place),
         UNCHANGED <<setting, first, step, ready, ckpts, done, trained, evalVars>>,
         place \in InSession => ready,
         trainer[t].at \notin {"waiting", "over"},
         place \in InTraining => trainer[t].at \in InTraining
  PROVE  LifeInv'
<1>1. trainer \in TrainerType
  BY DEF LifeInv, LifeTypeOK, TrainerType
<1>2. /\ trainer' \in TrainerType
      /\ \A u \in Workers :
           /\ trainer'[u].stage = trainer[u].stage
           /\ trainer'[u].target = trainer[u].target
           /\ trainer'[u].at = IF u = t THEN place ELSE trainer[u].at
  BY <1>1, GoesTo
<1>3. Latest' = Latest
  BY DEF Latest
<1>4. LifeTypeOK'
  BY <1>2 DEF LifeInv, LifeTypeOK, TrainerType, evalVars
<1>5. StepsInOrder'
  BY <1>2, <1>3 DEF LifeInv, StepsInOrder, IsMax
<1>6. DoneMeansTrained'
  BY <1>2, <1>3, ConstantsAreNumbers DEF LifeInv, DoneMeansTrained, Trained
<1>7. EvalInOrder' /\ ResultsInOrder' /\ BestInOrder'
  BY <1>3, EvaluatorKept
<1> QED
  BY <1>4, <1>5, <1>6, <1>7 DEF LifeInv

(* A save of the last step: the checkpoints stay in order.                 *)
LEMMA SavedStep ==
  ASSUME LifeInv, NEW s \in Steps, \A e \in ckpts : e <= s, Save(s), ready', step' = s,
         UNCHANGED <<setting, first, evalVars>>,
         done' = done, first => trained' = trained \/ trained = None
  PROVE  /\ ckpts' \in SUBSET Steps /\ Latest' = s /\ Trained(Latest') = s
         /\ Trained(Latest) <= s
         /\ ready' => \A e \in ckpts' : e <= step'
         /\ ckpts' = {} \/ IsMax(Latest', ckpts')
         /\ EvalInOrder' /\ ResultsInOrder' /\ BestInOrder'
<1>1. ckpts' \in SUBSET Steps /\ IsMax(s, ckpts') /\ ckpts' # {} /\ Latest' = s
  BY SaveIsLatest DEF LifeInv, LifeTypeOK
<1>2. Trained(s) = s /\ s >= 0
  BY ConstantsAreNumbers DEF Trained, Steps
<1>3. Trained(Latest) <= s
  <2>1. CASE Latest = None
    BY <1>2, <2>1 DEF Trained
  <2>2. CASE Latest # None
    BY <2>2, LatestType DEF LifeInv
  <2> QED
    BY <2>1, <2>2
<1>4. EvalInOrder' /\ ResultsInOrder' /\ BestInOrder'
  BY <1>1, <1>3, EvaluatorKept
<1> QED
  BY <1>1, <1>2, <1>3, <1>4 DEF IsMax

(* The chief's session begins with a save of what it has restored.         *)
LEMMA ChiefSessionStep ==
  ASSUME LifeInv, ChiefSession, UNCHANGED <<setting, evalVars>>
  PROVE  LifeInv'
<1> USE DEF TrainerType
<1>1. /\ trainer' \in TrainerType
      /\ \A u \in Workers :
           /\ trainer'[u].stage = trainer[u].stage
           /\ trainer'[u].target = trainer[u].target
           /\ trainer'[u].at = IF u = Chief THEN "clearing" ELSE trainer[u].at
  BY GoesTo, ConstantsAreNumbers DEF LifeInv, LifeTypeOK, ChiefSession, Places
<1>2. Trained(Latest) \in Steps /\ \A e \in ckpts : e <= Trained(Latest)
  BY LatestType DEF LifeInv
<1>3. /\ Save(Trained(Latest)) /\ ready' /\ ready' \in BOOLEAN /\ step' = Trained(Latest)
      /\ first' = first /\ done' = done /\ trained' = trained
  BY DEF ChiefSession
<1>4. /\ ckpts' \in SUBSET Steps /\ Trained(Latest') = Trained(Latest)
      /\ ready' => \A e \in ckpts' : e <= step'
      /\ ckpts' = {} \/ IsMax(Latest', ckpts')
      /\ EvalInOrder' /\ ResultsInOrder' /\ BestInOrder'
  BY <1>2, <1>3, SavedStep
<1>5. LifeTypeOK'
  BY <1>1, <1>2, <1>3, <1>4 DEF LifeInv, LifeTypeOK, evalVars
<1>6. StepsInOrder'
  BY <1>3, <1>4 DEF StepsInOrder
<1>7. DoneMeansTrained'
  BY <1>1, <1>3, <1>4, ConstantsAreNumbers
  DEF LifeInv, DoneMeansTrained, ChiefSession, At, InTraining, InSession
<1> QED
  BY <1>4, <1>5, <1>6, <1>7 DEF LifeInv

(* A training step, with or without a save.                                *)
LEMMA TrainStepStep ==
  ASSUME LifeInv, NEW t \in Workers, TrainStep(t), UNCHANGED <<setting, evalVars>>
  PROVE  LifeInv'
<1> USE DEF TrainerType
<1>1. PICK place \in {"leaving", "running"} : Goes(t, place)
  BY DEF TrainStep
<1>2. /\ trainer' \in TrainerType
      /\ \A u \in Workers :
           /\ trainer'[u].stage = trainer[u].stage
           /\ trainer'[u].target = trainer[u].target
           /\ trainer'[u].at = IF u = t THEN place ELSE trainer[u].at
  BY <1>1, GoesTo DEF LifeInv, LifeTypeOK, Places
<1>3. /\ trainer[t].at = "running" /\ ready /\ step' = step + 1 /\ step \in Steps
      /\ ready' = ready /\ first' = first /\ done' = done /\ trained' = trained
      /\ step < MaxStep
  BY DEF TrainStep, At, LifeInv, LifeTypeOK, StepsInOrder, InSession
<1>4. step' \in Steps /\ \A e \in ckpts : e <= step /\ e <= step'
  BY <1>3, ConstantsAreNumbers DEF LifeInv, LifeTypeOK, StepsInOrder, Steps
<1>5. /\ ckpts' \in SUBSET Steps /\ Trained(Latest) <= Trained(Latest')
      /\ Trained(Latest') \in Steps
      /\ ready' => \A e \in ckpts' : e <= step'
      /\ ckpts' = {} \/ IsMax(Latest', ckpts')
      /\ EvalInOrder' /\ ResultsInOrder' /\ BestInOrder'
  <2>1. CASE Save(step')
    BY <1>3, <1>4, <2>1, SavedStep
  <2>2. CASE NoSave
    <3>1. ckpts' = ckpts /\ Latest' = Latest
      BY <2>2 DEF NoSave, Latest
    <3>2. EvalInOrder' /\ ResultsInOrder' /\ BestInOrder'
      BY <1>3, <3>1, EvaluatorKept
    <3>3. Trained(Latest') = Trained(Latest) /\ Trained(Latest) \in Steps
      BY <3>1, LatestType DEF LifeInv, Trained
    <3> QED
      BY <1>4, <3>1, <3>2, <3>3, ConstantsAreNumbers
      DEF LifeInv, LifeTypeOK, StepsInOrder, Steps, IsMax
  <2> QED
    BY <2>1, <2>2 DEF TrainStep
<1>6. LifeTypeOK'
  BY <1>2, <1>3, <1>4, <1>5 DEF LifeInv, LifeTypeOK, evalVars
<1>7. StepsInOrder'
  BY <1>2, <1>3, <1>5 DEF LifeInv, StepsInOrder
<1>8. DoneMeansTrained'
  <2>1. Trained(Latest) \in Steps /\ (trained # None => trained \in Nat)
    BY LatestType DEF LifeInv, LifeTypeOK
  <2> QED
    BY <1>2, <1>3, <1>5, <2>1, ConstantsAreNumbers
    DEF LifeInv, DoneMeansTrained, InTraining, InSession, Steps
<1> QED
  BY <1>5, <1>6, <1>7, <1>8 DEF LifeInv

(* The chief's last save, behind the barrier, is what it has trained.      *)
LEMMA PollStep ==
  ASSUME LifeInv, NEW t \in Workers, Poll(t), UNCHANGED <<setting, evalVars>>
  PROVE  LifeInv'
<1> USE DEF TrainerType
<1>1. trainer[t].at = "counted" /\ ready
  BY DEF Poll, At, LifeInv, StepsInOrder, InSession
<1>2. CASE t # Chief
  <2>1. /\ Goes(t, "receiving")
        /\ UNCHANGED <<setting, first, step, ready, ckpts, done, trained, evalVars>>
    BY <1>2 DEF Poll, NoSave
  <2> QED
    BY <1>1, <2>1, QuietStep DEF Places, InSession, InTraining
<1>3. CASE t = Chief
  <2>1. /\ trainer' \in TrainerType
        /\ \A u \in Workers :
             /\ trainer'[u].stage = trainer[u].stage
             /\ trainer'[u].target = trainer[u].target
             /\ trainer'[u].at = IF u = Chief THEN "through" ELSE trainer[u].at
    BY <1>3, GoesTo DEF LifeInv, LifeTypeOK, Poll, Places
  <2>2. /\ Save(step) /\ step' = step /\ step \in Steps /\ ready'
        /\ ready' \in BOOLEAN /\ first' = first /\ done' = done
        /\ trained' = IF trainer[Chief].stage = "train" THEN step ELSE trained
    BY <1>1, <1>3 DEF Poll, LifeInv, LifeTypeOK
  <2>3. \A e \in ckpts : e <= step
    BY <1>1 DEF LifeInv, StepsInOrder
  <2>4. first /\ trainer[Chief].stage = "train" => trained = None
    BY <1>1, <1>3 DEF LifeInv, DoneMeansTrained, InTraining, InSession
  <2>5. /\ ckpts' \in SUBSET Steps /\ Trained(Latest') = step /\ Trained(Latest) <= step
        /\ ready' => \A e \in ckpts' : e <= step'
        /\ ckpts' = {} \/ IsMax(Latest', ckpts')
        /\ EvalInOrder' /\ ResultsInOrder' /\ BestInOrder'
    BY <2>2, <2>3, <2>4, SavedStep
  <2>6. LifeTypeOK'
    BY <2>1, <2>2, <2>5, ConstantsAreNumbers DEF LifeInv, LifeTypeOK, evalVars, Steps
  <2>7. StepsInOrder'
    BY <2>1, <2>2, <2>5 DEF LifeInv, StepsInOrder
  <2>8. step \in Nat /\ Trained(Latest) \in Steps /\ (trained # None => trained \in Nat)
    BY <2>2, LatestType, ConstantsAreNumbers DEF LifeInv, LifeTypeOK, Steps
  <2>9. CASE trainer[Chief].stage = "train"
    <3>1. first => trained = None /\ \A u \in Workers : trainer[u].stage # "fit"
      BY <2>4, <2>9 DEF LifeInv, DoneMeansTrained
    <3>2. trained' = step
      BY <2>2, <2>9
    <3>3. first => ~done
      BY <3>1 DEF LifeInv, DoneMeansTrained
    <3>4. DoneMeansTrained'
      BY <2>1, <2>2, <2>5, <2>8, <3>1, <3>2, <3>3, ConstantsAreNumbers
      DEF DoneMeansTrained, InTraining, InSession
    <3> QED
      BY <2>5, <2>6, <2>7, <3>4 DEF LifeInv
  <2>10. CASE trainer[Chief].stage # "train"
    <3>1. trained' = trained /\ (first /\ trained # None => Trained(Latest) >= trained)
      BY <2>2, <2>10 DEF LifeInv, DoneMeansTrained
    <3>2. trainer[Chief].stage = "fit"
      BY <2>10, ConstantsAreNumbers DEF LifeInv, LifeTypeOK
    <3>3. trained # None => step >= trained \/ ~(Trained(Latest) >= trained)
      BY <2>5, <2>8, ConstantsAreNumbers DEF Steps
    <3>4. DoneMeansTrained'
      BY <2>1, <2>2, <2>5, <3>1, <3>2, <3>3, ConstantsAreNumbers
      DEF LifeInv, DoneMeansTrained
    <3> QED
      BY <2>5, <2>6, <2>7, <3>4 DEF LifeInv
  <2> QED
    BY <2>9, <2>10
<1> QED
  BY <1>2, <1>3

(* The chief writes ESTIMATOR_TRAIN_DONE when it has trained.              *)
LEMMA FinishStep ==
  ASSUME LifeInv, NEW t \in Workers, Finish(t), UNCHANGED <<setting, evalVars>>
  PROVE  LifeInv'
<1> USE DEF TrainerType
<1>1. PICK place \in {"waiting", "over"} : Goes(t, place)
  BY DEF Finish
<1>2. /\ trainer' \in TrainerType
      /\ \A u \in Workers :
           /\ trainer'[u].stage = trainer[u].stage
           /\ trainer'[u].target = trainer[u].target
           /\ trainer'[u].at = IF u = t THEN place ELSE trainer[u].at
  BY <1>1, GoesTo DEF LifeInv, LifeTypeOK, Places
<1>3. /\ UNCHANGED <<first, step, ready, ckpts>> /\ Latest' = Latest
      /\ trainer[t].at \in {"through", "skipped"}
      /\ trained' = IF t = Chief /\ trained = None THEN Trained(Latest) ELSE trained
      /\ done' = (done \/ t = Chief)
  BY DEF Finish, NoSave, Latest
<1>4. Trained(Latest) \in Steps /\ Trained(Latest') = Trained(Latest)
  BY <1>3, LatestType DEF LifeInv, Trained
<1>5. LifeTypeOK'
  BY <1>2, <1>3, <1>4, ConstantsAreNumbers DEF LifeInv, LifeTypeOK, evalVars, Steps
<1>6. StepsInOrder'
  BY <1>2, <1>3 DEF LifeInv, StepsInOrder, InSession, IsMax
<1>7. DoneMeansTrained'
  <2>1. trained' # None => trained' = trained \/ trained' = Trained(Latest)
    BY <1>3
  <2>2. Trained(Latest) # None
    BY <1>4, ConstantsAreNumbers DEF Steps
  <2>3. CASE t = Chief
    BY <1>1, <1>2, <1>3, <1>4, <2>1, <2>2, <2>3, ConstantsAreNumbers
    DEF LifeInv, DoneMeansTrained, InTraining, InSession, Steps
  <2>4. CASE t # Chief
    BY <1>1, <1>2, <1>3, <1>4, <2>4, ConstantsAreNumbers
    DEF LifeInv, DoneMeansTrained, InTraining, InSession, Steps
  <2> QED
    BY <2>3, <2>4
<1>8. EvalInOrder' /\ ResultsInOrder' /\ BestInOrder'
  BY <1>3, EvaluatorKept
<1> QED
  BY <1>5, <1>6, <1>7, <1>8 DEF LifeInv

(* Who begins to fit counts from what is trained at least.                 *)
LEMMA BeginFitStep ==
  ASSUME LifeInv, NEW t \in Workers, BeginFit(t), UNCHANGED <<setting, evalVars>>
  PROVE  LifeInv'
<1> DEFINE fits == [stage |-> "fit", at |-> "starting", target |-> Trained(Latest) + setting.fit]
<1>1. /\ trainer[t].at = "waiting" /\ done /\ trainer' = [trainer EXCEPT ![t] = fits]
      /\ UNCHANGED <<first, step, ready, ckpts, done, trained>> /\ Latest' = Latest
  BY DEF BeginFit, At, NoSave, Latest
<1>2. Trained(Latest) \in Steps /\ Trained(Latest) \in Nat /\ setting.fit \in Nat
  BY LatestType, ConstantsAreNumbers DEF LifeInv, LifeTypeOK, Steps
<1>3. /\ trainer' \in TrainerType
      /\ \A u \in Workers : trainer'[u] = IF u = t THEN fits ELSE trainer[u]
  BY <1>1, <1>2 DEF LifeInv, LifeTypeOK, TrainerType, Places
<1>4. LifeTypeOK'
  BY <1>1, <1>3 DEF LifeInv, LifeTypeOK, evalVars, TrainerType
<1>5. StepsInOrder'
  BY <1>1, <1>3 DEF LifeInv, StepsInOrder, InSession, IsMax
<1>6. first => trained # None /\ fits.target >= trained + setting.fit
  <2>1. first => trained # None /\ Trained(Latest) >= trained
    BY <1>1 DEF LifeInv, DoneMeansTrained
  <2>2. trained # None => trained \in Nat
    BY DEF LifeInv, LifeTypeOK
  <2> QED
    BY <1>2, <2>1, <2>2
<1>7. DoneMeansTrained'
  BY <1>1, <1>3, <1>6 DEF LifeInv, DoneMeansTrained, Trained
<1>8. EvalInOrder' /\ ResultsInOrder' /\ BestInOrder'
  BY <1>1, EvaluatorKept
<1> QED
  BY <1>4, <1>5, <1>7, <1>8 DEF LifeInv

(* Every step of a trainer keeps the invariant.                            *)
LEMMA TrainerStepStep ==
  ASSUME LifeInv, NEW t \in Workers, TrainerStep(t)
  PROVE  LifeInv'
<1> USE DEF Places, InSession, InTraining
<1>1. UNCHANGED <<setting, evalVars>>
  BY DEF TrainerStep
<1>2. trainer[t].at \in InSession => ready
  BY DEF LifeInv, StepsInOrder
<1>3. CASE Enter(t)
  <2>1. PICK place \in {"skipped", "joining"} : Goes(t, place)
    BY <1>3 DEF Enter
  <2>2. UNCHANGED <<setting, first, step, ready, ckpts, done, trained, evalVars>>
        /\ trainer[t].at = "starting"
    BY <1>1, <1>3 DEF Enter, At, NoSave
  <2> QED
    BY <2>1, <2>2, QuietStep
<1>4. CASE WorkerSession(t)
  <2>1. /\ UNCHANGED <<setting, first, step, ready, ckpts, done, trained, evalVars>>
        /\ Goes(t, "running") /\ ready /\ trainer[t].at = "joining"
    BY <1>1, <1>4 DEF WorkerSession, At, NoSave
  <2> QED
    BY <2>1, QuietStep
<1>5. CASE TrainStep(t)
  BY <1>1, <1>5, TrainStepStep
<1>6. CASE DataEnd(t)
  <2>1. /\ UNCHANGED <<setting, first, step, ready, ckpts, done, trained, evalVars>>
        /\ Goes(t, "leaving") /\ trainer[t].at = "running"
    BY <1>1, <1>6 DEF DataEnd, At, NoSave
  <2> QED
    BY <1>2, <2>1, QuietStep
<1>7. CASE CountIn(t)
  <2>1. /\ UNCHANGED <<setting, first, step, ready, ckpts, done, trained, evalVars>>
        /\ Goes(t, "counted") /\ trainer[t].at = "leaving"
    BY <1>1, <1>7 DEF CountIn, At, NoSave
  <2> QED
    BY <1>2, <2>1, QuietStep
<1>8. CASE Poll(t)
  BY <1>1, <1>8, PollStep
<1>9. CASE Receive(t)
  <2>1. /\ UNCHANGED <<setting, first, step, ready, ckpts, done, trained, evalVars>>
        /\ Goes(t, "through") /\ trainer[t].at = "receiving"
    BY <1>1, <1>9 DEF Receive, At, NoSave
  <2> QED
    BY <2>1, QuietStep
<1>10. CASE Finish(t)
  BY <1>1, <1>10, FinishStep
<1>11. CASE BeginFit(t)
  BY <1>1, <1>11, BeginFitStep
<1>12. CASE ChiefSession
  BY <1>1, <1>12, ChiefSessionStep
<1>13. CASE t = Chief /\ ClearCounter
  <2>1. /\ UNCHANGED <<setting, first, step, ready, ckpts, done, trained, evalVars>>
        /\ trainer[t].at = "clearing"
        /\ Goes(t, "running") \/ trainer' = trainer
    BY <1>1, <1>13 DEF ClearCounter, At, NoSave
  <2>2. CASE Goes(t, "running")
    BY <1>2, <2>1, <2>2, QuietStep
  <2>3. CASE trainer' = trainer
    <3>1. Goes(t, "clearing")
      BY <2>1, <2>3 DEF Goes, LifeInv, LifeTypeOK
    <3> QED
      BY <1>2, <2>1, <3>1, QuietStep
  <2> QED
    BY <2>1, <2>2, <2>3
<1> QED
  BY <1>3, <1>4, <1>5, <1>6, <1>7, <1>8, <1>9, <1>10, <1>11, <1>12, <1>13 DEF TrainerStep

---------------------------------------------------------------------------
(* The best of some results.                                               *)

(* A champion is the one that is chosen.                                   *)
LEMMA ChampionIsChosen ==
  ASSUME setting \in Settings, NEW S \in SUBSET Steps, NEW c, IsChampion(c, S)
  PROVE  Champion(S, setting.metric) = c
<1> DEFINE m == setting.metric
           d == CHOOSE s \in S : \A e \in S : m[e] < m[s] \/ (m[e] = m[s] /\ s <= e)
<1>1. \A s \in S : m[s] \in Nat /\ s \in Int
  BY ConstantsAreNumbers DEF Steps
<1>2. IsChampion(d, S)
  BY DEF IsChampion
<1>3. d \in S /\ c \in S /\ d \in Int /\ c \in Int /\ m[d] \in Nat /\ m[c] \in Nat
  BY <1>1, <1>2 DEF IsChampion
<1> HIDE DEF d
<1>4. m[c] < m[d] \/ (m[c] = m[d] /\ d <= c)
  BY <1>2, <1>3 DEF IsChampion
<1>5. m[d] < m[c] \/ (m[d] = m[c] /\ c <= d)
  BY <1>3 DEF IsChampion
<1>6. d = c
  BY <1>3, <1>4, <1>5
<1> QED
  BY <1>6 DEF d, Champion

(* One more result is the new champion, or leaves the old one in place.    *)
LEMMA NewChampion ==
  ASSUME setting \in Settings, NEW S \in SUBSET Steps, NEW s \in Steps,
         S = {} \/ \E c \in Steps : IsChampion(c, S)
  PROVE  /\ \E c \in Steps : IsChampion(c, S \cup {s})
         /\ \A c : IsChampion(c, S) => IsChampion(s, S \cup {s}) \/ IsChampion(c, S \cup {s})
         /\ S = {} => IsChampion(s, S \cup {s})
<1> DEFINE m == setting.metric
<1>1. /\ \A e \in S \cup {s} : m[e] \in Nat /\ e \in Int
  BY ConstantsAreNumbers DEF Steps
<1>2. S = {} => IsChampion(s, S \cup {s})
  BY <1>1 DEF IsChampion
<1>3. ASSUME NEW c, IsChampion(c, S)
      PROVE  IsChampion(s, S \cup {s}) \/ IsChampion(c, S \cup {s})
  <2>1. /\ c \in S
        /\ \A e \in S : m[e] < m[c] \/ (m[e] = m[c] /\ c <= e)
    BY <1>3 DEF IsChampion
  <2>2. CASE m[s] < m[c] \/ (m[s] = m[c] /\ c <= s)
    BY <2>1, <2>2 DEF IsChampion
  <2>3. CASE m[c] < m[s] \/ (m[s] = m[c] /\ s < c)
    <3>1. \A e \in S : m[e] < m[s] \/ (m[e] = m[s] /\ s <= e)
      BY <1>1, <2>1, <2>3
    <3> QED
      BY <1>1, <3>1 DEF IsChampion
  <2> QED
    BY <1>1, <2>1, <2>2, <2>3
<1> QED
  BY <1>2, <1>3 DEF IsChampion

(* All results are those before the step after the last.                   *)
LEMMA AllAreEarlier ==
  ASSUME LifeInv
  PROVE  results = {} \/ (IsChampion(Best, results) /\ Best \in Steps)
<1>1. MaxStep + 1 \in Int /\ results \in SUBSET Steps /\ setting \in Settings
  BY ConstantsAreNumbers DEF LifeInv, LifeTypeOK
<1>2. Earlier(MaxStep + 1) = results
  BY <1>1, ConstantsAreNumbers DEF Earlier, Steps
<1>3. results = {} \/ \E c \in Steps : IsChampion(c, results)
  BY <1>1, <1>2 DEF LifeInv, ResultsInOrder
<1> QED
  BY <1>1, <1>3, ChampionIsChosen DEF Best

---------------------------------------------------------------------------
(* The steps of the evaluator.                                             *)

(* The trainers' variables are as they were.                               *)
LEMMA TrainersKept ==
  ASSUME LifeInv, UNCHANGED <<setting, step, ready, trainer, ckpts, done, trained>>,
         first' => first
  PROVE  StepsInOrder' /\ DoneMeansTrained' /\ Latest' = Latest
<1>1. Latest' = Latest
  BY DEF Latest
<1>2. StepsInOrder'
  BY <1>1 DEF LifeInv, StepsInOrder, IsMax
<1>3. DoneMeansTrained'
  BY <1>1 DEF LifeInv, DoneMeansTrained, Trained
<1> QED
  BY <1>1, <1>2, <1>3

(* The evaluator goes on with what it has.                                 *)
EvaluatorType ==
  [pc : Rounds, at : Steps \cup {None}, prev : Steps \cup {None},
   best : Steps \cup {None}, loaded : BOOLEAN]

(* The checkpoint that is taken is not earlier than any result, and later  *)
(* than those that this evaluator has seen.                                *)
LEMMA LookStep ==
  ASSUME LifeInv, Look, UNCHANGED <<setting, trainVars>>
  PROVE  LifeInv'
<1> DEFINE taken == ~(Latest \in {None, evaluator.prev})
           ends  == evaluator.at # None /\ IsLast(evaluator.at)
<1>1. /\ evaluator.pc = "look" /\ evaluator \in EvaluatorType
      /\ UNCHANGED <<results, finalDir, final, best, cut>>
      /\ UNCHANGED <<setting, first, step, ready, trainer, ckpts, done, trained>>
  BY DEF Look, EvalAt, LifeInv, LifeTypeOK, EvaluatorType, trainVars
<1>2. StepsInOrder' /\ DoneMeansTrained' /\ Latest' = Latest
  BY <1>1, TrainersKept
<1>3. /\ evaluator'.prev = evaluator.prev /\ evaluator'.best = evaluator.best
      /\ evaluator'.loaded = evaluator.loaded /\ evaluator' \in EvaluatorType
      /\ \/ evaluator'.pc = "ending" /\ evaluator'.at = evaluator.at /\ ends
         \/ evaluator'.pc = "after" /\ evaluator'.at = None
         \/ evaluator'.pc = "evaluate" /\ evaluator'.at = Latest /\ taken
  <2>1. Latest \in Steps \cup {None}
    BY LatestType DEF LifeInv
  <2>2. CASE ends
    BY <1>1, <2>2 DEF Look, EvaluatorType, Rounds
  <2>3. CASE ~ends /\ ~taken
    BY <1>1, <2>3 DEF Look, EvaluatorType, Rounds
  <2>4. CASE ~ends /\ taken
    BY <1>1, <2>1, <2>4 DEF Look, EvaluatorType, Rounds
  <2> QED
    BY <2>2, <2>3, <2>4
<1>4. LifeTypeOK'
  BY <1>1, <1>3 DEF LifeInv, LifeTypeOK, EvaluatorType
<1>5. EvalInOrder'
  <2>1. Latest # None => Latest <= Latest
    BY LatestType, ConstantsAreNumbers DEF LifeInv, Steps
  <2> QED
    BY <1>1, <1>2, <1>3, <2>1 DEF LifeInv, EvalInOrder, EvalAt, Is, IsLast, AtTheEnd
<1>6. ResultsInOrder'
  BY <1>1, <1>2, <1>3 DEF LifeInv, ResultsInOrder, EvalAt, Earlier, IsChampion
<1>7. BestInOrder'
  <2>1. evaluator.loaded /\ Is("best") => IsMax(evaluator.prev, results) /\ evaluator.best = Best
    BY <1>1 DEF LifeInv, BestInOrder, EvalAt
  <2>2. taken /\ evaluator.loaded /\ Is("best") => Latest > evaluator.prev
    <3>1. SUFFICES ASSUME taken, evaluator.loaded, Is("best") PROVE Latest > evaluator.prev
      OBVIOUS
    <3>2. evaluator.prev \in results /\ evaluator.prev <= Latest /\ evaluator.prev # Latest
      BY <2>1, <3>1 DEF IsMax, LifeInv, ResultsInOrder
    <3>3. evaluator.prev \in Int /\ Latest \in Int
      BY <3>2, LatestType, ConstantsAreNumbers DEF LifeInv, LifeTypeOK, Steps
    <3> QED
      BY <3>2, <3>3
  <2>3. Best' = Best /\ Is("best")' = Is("best")
    BY <1>1 DEF Best, Is
  <2> QED
    BY <1>1, <1>3, <2>1, <2>2, <2>3 DEF LifeInv, BestInOrder, EvalAt, IsMax
<1> QED
  BY <1>2, <1>4, <1>5, <1>6, <1>7 DEF LifeInv

(* A step of the evaluator that neither evaluates nor exports.             *)
LEMMA QuietEvaluator ==
  ASSUME LifeInv, UNCHANGED <<setting, trainVars, results, best, cut>>,
         finalDir' \in BOOLEAN, final' \in Nat \cup {None},
         evaluator' \in EvaluatorType, evaluator'.at = evaluator.at,
         evaluator'.prev = evaluator.prev, evaluator'.best = evaluator.best,
         evaluator'.loaded = evaluator.loaded,
         evaluator'.pc \notin {"evaluate", "export"},
         evaluator.pc \notin {"export", "dead"} \/ evaluator'.pc = "dead",
         evaluator.pc # "export", EvalInOrder'
  PROVE  LifeInv'
<1>1. StepsInOrder' /\ DoneMeansTrained' /\ Latest' = Latest
  BY TrainersKept DEF trainVars
<1>2. LifeTypeOK'
  BY DEF LifeInv, LifeTypeOK, EvaluatorType, trainVars
<1>3. ResultsInOrder'
  BY <1>1 DEF LifeInv, ResultsInOrder, EvalAt, Earlier, IsChampion
<1>4. BestInOrder'
  <2>1. Best' = Best /\ Is("best")' = Is("best")
    BY DEF Best, Is
  <2> QED
    BY <2>1 DEF LifeInv, BestInOrder, EvalAt, IsMax
<1> QED
  BY <1>1, <1>2, <1>3, <1>4 DEF LifeInv

(* Nothing is in hand any more, or a newer checkpoint is to be looked at.  *)
LEMMA CompareStep ==
  ASSUME LifeInv, Compare, UNCHANGED <<setting, trainVars>>
  PROVE  LifeInv'
<1>1. /\ evaluator.pc = "compare" /\ evaluator \in EvaluatorType
      /\ UNCHANGED <<results, finalDir, final, best, cut>>
      /\ Latest' = Latest /\ finalDir \in BOOLEAN /\ final \in Nat \cup {None}
  BY DEF Compare, EvalAt, LifeInv, LifeTypeOK, EvaluatorType, trainVars, Latest
<1>2. PICK pc \in {"look", "after"} : evaluator' = [evaluator EXCEPT !.pc = pc]
  BY DEF Compare
<1>3. /\ evaluator'.prev = evaluator.prev /\ evaluator'.best = evaluator.best
      /\ evaluator'.loaded = evaluator.loaded /\ evaluator'.at = evaluator.at
      /\ evaluator' \in EvaluatorType /\ evaluator'.pc = pc
  BY <1>1, <1>2 DEF EvaluatorType, Rounds
<1>4. EvalInOrder'
  BY <1>1, <1>3 DEF LifeInv, EvalInOrder, EvalAt, AtTheEnd, IsLast, trainVars
<1> QED
  BY <1>1, <1>3, <1>4, QuietEvaluator

(* The evaluation ends if the training is done.                            *)
LEMMA AfterStep ==
  ASSUME LifeInv, After, UNCHANGED <<setting, trainVars>>
  PROVE  LifeInv'
<1>1. /\ evaluator.pc = "after" /\ evaluator \in EvaluatorType
      /\ UNCHANGED <<results, finalDir, final, best, cut>>
      /\ Latest' = Latest /\ finalDir \in BOOLEAN /\ final \in Nat \cup {None}
  BY DEF After, EvalAt, LifeInv, LifeTypeOK, EvaluatorType, trainVars, Latest
<1>2. PICK pc \in {"look", "ending"} :
        evaluator' = [evaluator EXCEPT !.pc = pc] /\ (pc = "ending" => done)
  BY DEF After
<1>3. /\ evaluator'.prev = evaluator.prev /\ evaluator'.best = evaluator.best
      /\ evaluator'.loaded = evaluator.loaded /\ evaluator'.at = evaluator.at
      /\ evaluator' \in EvaluatorType /\ evaluator'.pc = pc
  BY <1>1, <1>2 DEF EvaluatorType, Rounds
<1>4. EvalInOrder'
  BY <1>1, <1>2, <1>3 DEF LifeInv, EvalInOrder, EvalAt, AtTheEnd, IsLast, trainVars
<1> QED
  BY <1>1, <1>3, <1>4, QuietEvaluator

(* What is exported at the end is what the training came to.               *)
LEMMA EndingStep ==
  ASSUME LifeInv, Ending, UNCHANGED <<setting, trainVars>>
  PROVE  LifeInv'
<1> DEFINE exports == Is("final") /\ ~finalDir
<1>1. /\ evaluator.pc = "ending" /\ evaluator \in EvaluatorType
      /\ UNCHANGED <<results, best, cut>>
      /\ Latest' = Latest /\ finalDir \in BOOLEAN /\ final \in Nat \cup {None}
      /\ Latest \in Steps \cup {None}
  BY LatestType DEF Ending, EvalAt, LifeInv, LifeTypeOK, EvaluatorType, trainVars, Latest
<1>2. PICK pc \in {"over", "dead"} : evaluator' = [evaluator EXCEPT !.pc = pc]
  BY DEF Ending
<1>3. /\ evaluator'.prev = evaluator.prev /\ evaluator'.best = evaluator.best
      /\ evaluator'.loaded = evaluator.loaded /\ evaluator'.at = evaluator.at
      /\ evaluator' \in EvaluatorType /\ evaluator'.pc = pc
  BY <1>1, <1>2 DEF EvaluatorType, Rounds
<1>4. /\ finalDir' \in BOOLEAN
      /\ Is("final") => finalDir'
      /\ final' = final \/ (final' = Latest /\ Latest \in ckpts)
  BY <1>1 DEF Ending, ExportFinal
<1>5. first /\ Latest \in ckpts => AtTheEnd(Latest)
  <2>1. SUFFICES ASSUME first, Latest \in ckpts PROVE AtTheEnd(Latest)
    OBVIOUS
  <2>2. Latest \in Steps /\ Latest # None /\ Trained(Latest) = Latest /\ Latest \in Int
    BY <2>1, LatestType, ConstantsAreNumbers DEF LifeInv, LifeTypeOK, Steps
  <2>3. CASE done
    BY <2>1, <2>2, <2>3 DEF LifeInv, DoneMeansTrained, AtTheEnd
  <2>4. CASE ~done
    <3>1. evaluator.at # None /\ IsLast(evaluator.at) /\ evaluator.at <= Latest
      BY <1>1, <2>1, <2>4 DEF LifeInv, EvalInOrder, EvalAt
    <3>2. evaluator.at \in Int /\ setting.steps \in Int
      BY <1>1, <3>1, ConstantsAreNumbers DEF EvaluatorType, LifeInv, LifeTypeOK, Steps
    <3> QED
      BY <2>2, <3>1, <3>2 DEF IsLast, AtTheEnd
  <2> QED
    BY <2>3, <2>4
<1>6. EvalInOrder'
  <2>1. \A s : AtTheEnd(s)' = AtTheEnd(s)
    BY DEF AtTheEnd, IsLast, trainVars
  <2>2. first /\ final' # None => AtTheEnd(final')
    BY <1>4, <1>5 DEF LifeInv, EvalInOrder
  <2>3. first /\ final' # None => AtTheEnd(final)'
    BY <2>2 DEF AtTheEnd, IsLast, trainVars
  <2> QED
    BY <1>1, <1>3, <1>4, <2>3 DEF LifeInv, EvalInOrder, EvalAt, Is, trainVars
<1>7. final' \in Nat \cup {None}
  BY <1>1, <1>4, ConstantsAreNumbers DEF LifeInv, LifeTypeOK, Steps
<1> QED
  BY <1>1, <1>3, <1>4, <1>6, <1>7, QuietEvaluator

(* A new result keeps the results in order, and is to be exported.         *)
LEMMA EvaluateStep ==
  ASSUME LifeInv, Evaluate, UNCHANGED <<setting, trainVars>>
  PROVE  LifeInv'
<1> DEFINE s == evaluator.at
<1>1. /\ evaluator.pc = "evaluate" /\ evaluator \in EvaluatorType
      /\ UNCHANGED <<finalDir, final, best, cut>>
      /\ UNCHANGED <<setting, first, step, ready, trainer, ckpts, done, trained>>
      /\ finalDir \in BOOLEAN /\ final \in Nat \cup {None}
      /\ setting \in Settings /\ results \in SUBSET Steps
  BY DEF Evaluate, EvalAt, LifeInv, LifeTypeOK, EvaluatorType, trainVars
<1>2. StepsInOrder' /\ DoneMeansTrained' /\ Latest' = Latest
  BY <1>1, TrainersKept
<1>3. PICK pc \in {"export", "dead"} :
        /\ evaluator' = [evaluator EXCEPT !.pc = pc]
        /\ results' = IF pc = "export" THEN results \cup {s} ELSE results
  BY DEF Evaluate
<1>4. /\ evaluator'.prev = evaluator.prev /\ evaluator'.best = evaluator.best
      /\ evaluator'.loaded = evaluator.loaded /\ evaluator'.at = s
      /\ evaluator' \in EvaluatorType /\ evaluator'.pc = pc
  BY <1>1, <1>3 DEF EvaluatorType, Rounds
<1>5. EvalInOrder'
  BY <1>1, <1>2, <1>4 DEF LifeInv, EvalInOrder, EvalAt, AtTheEnd, IsLast
<1>6. CASE pc = "dead"
  BY <1>1, <1>3, <1>4, <1>5, <1>6, QuietEvaluator
<1>7. CASE pc = "export"
  <2>1. /\ s \in Steps /\ s <= Latest /\ Latest # None
        /\ \A r \in results : r <= s
        /\ results' = results \cup {s} /\ results' \in SUBSET Steps
    BY <1>1, <1>3, <1>7
    DEF LifeInv, EvalInOrder, ResultsInOrder, EvaluatorType
  <2>2. s \in Int /\ \A r \in results : r \in Int
    BY <1>1, <2>1, ConstantsAreNumbers DEF Steps
  <2>3. LifeTypeOK'
    BY <1>1, <1>4, <2>1 DEF LifeInv, LifeTypeOK, EvaluatorType
  <2>4. ASSUME NEW n \in Int
        PROVE  Earlier(n)' = {} \/ (\E c \in Steps : IsChampion(c, Earlier(n)))'
    <3>1. Earlier(n) \in SUBSET Steps
          /\ (Earlier(n) = {} \/ \E c \in Steps : IsChampion(c, Earlier(n)))
      BY <1>1 DEF Earlier, LifeInv, ResultsInOrder
    <3>2. \A c, S : IsChampion(c, S)' = IsChampion(c, S)
      BY <1>1 DEF IsChampion
    <3>3. CASE s < n
      <4>1. Earlier(n)' = Earlier(n) \cup {s}
        BY <2>1, <3>3 DEF Earlier
      <4>2. \E c \in Steps : IsChampion(c, Earlier(n) \cup {s})
        BY <1>1, <2>1, <3>1, NewChampion
      <4> QED
        BY <1>1, <4>1, <4>2 DEF IsChampion
    <3>4. CASE ~(s < n)
      <4>1. Earlier(n)' = Earlier(n)
        BY <2>1, <3>4 DEF Earlier
      <4> QED
        BY <1>1, <3>1, <4>1 DEF IsChampion
    <3> QED
      BY <3>3, <3>4
  <2>5. ResultsInOrder'
    <3>1. Latest' # None /\ \A r \in results' : r <= Latest' /\ r <= s
      BY <1>2, <2>1, <2>2, LatestType, ConstantsAreNumbers DEF LifeInv, ResultsInOrder, Steps
    <3>2. s # None
      BY <2>1, ConstantsAreNumbers DEF Steps
    <3>3. (\A n \in Int : Earlier(n) = {} \/ \E c \in Steps : IsChampion(c, Earlier(n)))'
      BY <2>4
    <3> QED
      BY <1>4, <1>7, <2>1, <3>1, <3>2, <3>3 DEF ResultsInOrder, EvalAt
  <2>6. BestInOrder'
    <3>1. SUFFICES ASSUME Is("best")
                   PROVE  BestInOrder'
      BY <1>1 DEF BestInOrder, Is
    <3>2. results = {} \/ (IsChampion(Best, results) /\ Best \in Steps)
      BY AllAreEarlier
    <3>3. Best' = s \/ (results # {} /\ Best' = Best)
      <4>1. IsChampion(s, results \cup {s}) \/ (results # {} /\ IsChampion(Best, results \cup {s}))
        BY <1>1, <2>1, <3>2, NewChampion
      <4>2. Best' = Champion(results \cup {s}, setting.metric)
        BY <1>1, <2>1 DEF Best
      <4>3. results \cup {s} \in SUBSET Steps
        BY <2>1
      <4> QED
        BY <1>1, <4>1, <4>2, <4>3, ChampionIsChosen
    <3>4. best' \subseteq results'
      BY <1>1, <2>1, <3>1 DEF LifeInv, BestInOrder
    <3>5. ASSUME evaluator.loaded
          PROVE  Earlier(s)' = results /\ results # {} /\ evaluator.best = Best
      <4>1. IsMax(evaluator.prev, results) /\ evaluator.best = Best /\ s > evaluator.prev
        BY <1>1, <3>1, <3>5 DEF LifeInv, BestInOrder, EvalAt
      <4>2. evaluator.prev \in results /\ evaluator.prev \in Int
        BY <2>2, <4>1 DEF IsMax
      <4>3. \A r \in results : r < s
        BY <2>2, <4>1, <4>2 DEF IsMax
      <4>4. ~(s < s)
        BY <2>2
      <4> QED
        BY <1>4, <2>1, <4>1, <4>2, <4>3, <4>4 DEF Earlier
    <3>6. Best \in best \cup cut \/ results = {}
      BY <1>1, <3>1 DEF LifeInv, BestInOrder, EvalAt
    <3> QED
      BY <1>1, <1>4, <1>7, <2>1, <3>3, <3>4, <3>5, <3>6 DEF BestInOrder, EvalAt, Best, Earlier
  <2> QED
    BY <1>2, <1>5, <2>3, <2>5, <2>6 DEF LifeInv
<1> QED
  BY <1>6, <1>7

(* Exports, if any, of another kind than the best.                         *)
LEMMA OtherExportStep ==
  ASSUME LifeInv, FinalExporter \/ NoExporter, UNCHANGED <<setting, trainVars>>
  PROVE  LifeInv'
<1> DEFINE s == evaluator.at
<1>1. /\ evaluator.pc = "export" /\ evaluator \in EvaluatorType /\ ~Is("best")
      /\ UNCHANGED <<results, best, cut>>
      /\ UNCHANGED <<setting, first, step, ready, trainer, ckpts, done, trained>>
      /\ finalDir \in BOOLEAN /\ final \in Nat \cup {None}
  BY DEF FinalExporter, NoExporter, EvalAt, LifeInv, LifeTypeOK, EvaluatorType, trainVars, Is
<1>2. StepsInOrder' /\ DoneMeansTrained' /\ Latest' = Latest
  BY <1>1, TrainersKept
<1>3. /\ evaluator' \in EvaluatorType /\ evaluator'.at = s
      /\ evaluator'.pc \in {"compare", "dead"}
  <2>1. CASE evaluator' = [evaluator EXCEPT !.pc = "dead"]
    BY <1>1, <2>1 DEF EvaluatorType, Rounds
  <2>2. CASE evaluator' = [evaluator EXCEPT !.pc = "compare", !.prev = evaluator.at]
    BY <1>1, <2>2 DEF EvaluatorType, Rounds
  <2> QED
    BY <2>1, <2>2 DEF FinalExporter, NoExporter, Exported
<1>4. /\ finalDir' \in BOOLEAN
      /\ finalDir => finalDir'
      /\ final' = final \/ (final' = s /\ s \in ckpts /\ IsLast(s))
  BY <1>1 DEF FinalExporter, NoExporter, ExportFinal
<1>5. LifeTypeOK'
  <2>1. final' \in Nat \cup {None}
    BY <1>1, <1>4, ConstantsAreNumbers DEF LifeInv, LifeTypeOK, Steps
  <2> QED
    BY <1>1, <1>3, <1>4, <2>1 DEF LifeInv, LifeTypeOK, EvaluatorType
<1>6. EvalInOrder'
  BY <1>1, <1>2, <1>3, <1>4 DEF LifeInv, EvalInOrder, EvalAt, AtTheEnd, IsLast, Is
<1>7. ResultsInOrder'
  BY <1>1, <1>2, <1>3 DEF LifeInv, ResultsInOrder, EvalAt, Earlier, IsChampion
<1>8. BestInOrder'
  BY <1>1 DEF BestInOrder, Is
<1> QED
  BY <1>2, <1>5, <1>6, <1>7, <1>8 DEF LifeInv

(* BestExporter exports the best of the results if it is the one in hand.  *)
LEMMA BestExportStep ==
  ASSUME LifeInv, BestExporter, UNCHANGED <<setting, trainVars>>
  PROVE  LifeInv'
<1> DEFINE s == evaluator.at
           m == setting.metric
           champion == IF evaluator.loaded THEN evaluator.best ELSE BestBefore(results, m, s)
           better == IsBetter(m, s, champion)
           fails == better /\ s \notin ckpts
<1>1. /\ evaluator.pc = "export" /\ evaluator \in EvaluatorType /\ Is("best")
      /\ UNCHANGED <<results, finalDir, final>>
      /\ UNCHANGED <<setting, first, step, ready, trainer, ckpts, done, trained>>
      /\ finalDir \in BOOLEAN /\ final \in Nat \cup {None}
      /\ setting \in Settings /\ results \in SUBSET Steps
  BY DEF BestExporter, EvalAt, LifeInv, LifeTypeOK, EvaluatorType, trainVars
<1>2. StepsInOrder' /\ DoneMeansTrained' /\ Latest' = Latest
  BY <1>1, TrainersKept
<1>3. /\ s \in results /\ s \in Steps /\ s \in Int /\ s # None
      /\ \A r \in results : r <= s /\ r \in Int
  BY <1>1, ConstantsAreNumbers DEF LifeInv, ResultsInOrder, EvalAt, Steps
<1>4. /\ Earlier(s) \in SUBSET Steps /\ results = Earlier(s) \cup {s}
      /\ Earlier(s) = {} \/ \E c \in Steps : IsChampion(c, Earlier(s))
  <2>1. Earlier(s) = {} \/ \E c \in Steps : IsChampion(c, Earlier(s))
    BY <1>3 DEF LifeInv, ResultsInOrder
  <2>2. \A r \in results : r < s \/ r = s
    BY <1>3
  <2> QED
    BY <1>1, <1>3, <2>1, <2>2 DEF Earlier
<1>5. \/ Earlier(s) = {} /\ champion = None
      \/ Earlier(s) # {} /\ IsChampion(champion, Earlier(s)) /\ champion \in Steps
  <2>1. CASE Earlier(s) = {}
    BY <1>1, <2>1 DEF LifeInv, BestInOrder, EvalAt, BestBefore, Earlier
  <2>2. CASE Earlier(s) # {}
    <3>1. champion = Champion(Earlier(s), m)
      BY <1>1, <2>2 DEF LifeInv, BestInOrder, EvalAt, BestBefore, Earlier
    <3>2. PICK c \in Steps : IsChampion(c, Earlier(s))
      BY <1>4, <2>2
    <3>3. Champion(Earlier(s), m) = c
      BY <1>1, <1>4, <3>2, ChampionIsChosen
    <3> QED
      BY <2>2, <3>1, <3>2, <3>3
  <2> QED
    BY <2>1, <2>2
<1> HIDE DEF champion
<1>6. Best = IF better THEN s ELSE champion
  <2>1. m[s] \in Nat /\ \A e \in Earlier(s) : m[e] \in Nat /\ e \in Int /\ e < s
    BY <1>1, <1>3, <1>4, ConstantsAreNumbers DEF Earlier
  <2>2. CASE Earlier(s) = {}
    <3>1. IsChampion(s, results) /\ better
      BY <1>3, <1>4, <1>5, <2>1, <2>2 DEF IsChampion, IsBetter
    <3> QED
      BY <1>1, <3>1, ChampionIsChosen DEF Best
  <2>3. CASE Earlier(s) # {}
    <3>1. champion \in Earlier(s) /\ champion # None
      BY <1>5, <2>3, ConstantsAreNumbers DEF IsChampion, Steps
    <3>2. CASE better
      <4>1. m[champion] < m[s]
        BY <2>1, <3>1, <3>2 DEF IsBetter
      <4>2. \A e \in Earlier(s) : m[e] < m[s]
        BY <1>5, <2>1, <2>3, <3>1, <4>1 DEF IsChampion
      <4>3. IsChampion(s, results)
        BY <1>3, <1>4, <4>2 DEF IsChampion
      <4> QED
        BY <1>1, <3>2, <4>3, ChampionIsChosen DEF Best
    <3>3. CASE ~better
      <4>1. ~(m[s] > m[champion])
        BY <3>1, <3>3 DEF IsBetter
      <4>2. m[s] < m[champion] \/ (m[s] = m[champion] /\ champion <= s)
        <5>1. m[s] \in Nat /\ m[champion] \in Nat /\ champion < s /\ champion \in Int
          BY <2>1, <3>1
        <5> QED
          BY <1>3, <4>1, <5>1
      <4>3. IsChampion(champion, results)
        BY <1>4, <1>5, <2>3, <4>2 DEF IsChampion
      <4> QED
        BY <1>1, <3>3, <4>3, ChampionIsChosen DEF Best
    <3> QED
      BY <3>2, <3>3
  <2> QED
    BY <2>2, <2>3
<1>7. Best \in Steps
  BY <1>3, AllAreEarlier
<1>8. /\ evaluator' \in EvaluatorType /\ evaluator'.at = s /\ evaluator'.prev = s
      /\ evaluator'.best = Best /\ evaluator'.pc \in {"compare", "dead"}
  <2>1. PICK pc \in {"compare", "dead"} :
          evaluator' = [Exported(evaluator) EXCEPT !.loaded = TRUE,
                          !.best = IF better THEN s ELSE champion, !.pc = pc]
    BY DEF BestExporter, champion
  <2>2. evaluator' = [[evaluator EXCEPT !.pc = "compare", !.prev = s]
                        EXCEPT !.loaded = TRUE, !.best = Best, !.pc = pc]
    BY <1>6, <2>1 DEF Exported
  <2> QED
    BY <1>1, <1>3, <1>7, <2>2 DEF EvaluatorType, Rounds
<1>9. /\ best' = IF better /\ ~fails THEN Newest(best \cup {s}, ToKeep) ELSE best
      /\ cut' = IF fails THEN cut \cup {s} ELSE cut
  BY DEF BestExporter, champion
<1>10. LifeTypeOK'
  BY <1>1, <1>8 DEF LifeInv, LifeTypeOK, EvaluatorType
<1>11. EvalInOrder'
  BY <1>1, <1>2, <1>8 DEF LifeInv, EvalInOrder, EvalAt, AtTheEnd, IsLast, Is
<1>12. ResultsInOrder'
  BY <1>1, <1>2, <1>8 DEF LifeInv, ResultsInOrder, EvalAt, Earlier, IsChampion
<1>13. BestInOrder'
  <2>1. best \subseteq results
    BY <1>1 DEF LifeInv, BestInOrder
  <2>2. s \in Newest(best \cup {s}, ToKeep) /\ Newest(best \cup {s}, ToKeep) \subseteq results
    <3>1. IsMax(s, best \cup {s}) /\ best \cup {s} \in SUBSET Int
      BY <1>3, <2>1 DEF IsMax
    <3>2. /\ s \in Newest(best \cup {s}, ToKeep)
          /\ Newest(best \cup {s}, ToKeep) \subseteq best \cup {s}
      <4>1. ToKeep \in Nat /\ ToKeep > 0
        BY ConstantsAreNumbers
      <4> QED
        BY <3>1, <4>1, NewestKeepsLast
    <3> QED
      BY <1>3, <2>1, <3>2
  <2>3. best' \subseteq results
    BY <1>9, <2>1, <2>2
  <2>4. Best \in best' \cup cut'
    <3>1. CASE better
      BY <1>6, <1>9, <2>2, <3>1
    <3>2. CASE ~better
      <4>1. Best = champion /\ Best # s
        BY <1>3, <1>5, <1>6, <3>2, ConstantsAreNumbers
        DEF IsBetter, IsChampion, Earlier
      <4>2. Best \in best \cup cut
        BY <1>1, <1>3, <4>1 DEF LifeInv, BestInOrder
      <4> QED
        BY <1>9, <3>2, <4>2
    <3> QED
      BY <3>1, <3>2
  <2>5. IsMax(s, results) /\ Best' = Best
    BY <1>1, <1>3 DEF IsMax, Best
  <2> QED
    BY <1>1, <1>8, <2>3, <2>4, <2>5 DEF BestInOrder, EvalAt, IsMax
<1> QED
  BY <1>2, <1>10, <1>11, <1>12, <1>13 DEF LifeInv

(* Every step of the evaluator keeps the invariant.                        *)
LEMMA EvaluatorStepStep ==
  ASSUME LifeInv, EvaluatorStep
  PROVE  LifeInv'
<1>1. UNCHANGED <<setting, trainVars>>
  BY DEF EvaluatorStep
<1> QED
  BY <1>1, LookStep, EvaluateStep, OtherExportStep, BestExportStep, CompareStep,
     AfterStep, EndingStep
  DEF EvaluatorStep

---------------------------------------------------------------------------
(* The world outside.                                                      *)

(* A new evaluator begins with nothing in hand; an export that was cut is  *)
(* remembered.                                                             *)
LEMMA StoppedStep ==
  ASSUME LifeInv, Stopped, evaluator' = NewEvaluator, setting' = setting, ckpts' = ckpts,
         first' => UNCHANGED <<first, done, trained>>
  PROVE  /\ evaluator' \in EvaluatorType /\ finalDir' \in BOOLEAN
         /\ UNCHANGED <<results, final, best>>
         /\ EvalInOrder' /\ ResultsInOrder' /\ BestInOrder'
<1>1. /\ evaluator' \in EvaluatorType /\ evaluator'.pc = "look" /\ evaluator'.at = None
      /\ evaluator'.loaded = FALSE
  BY DEF NewEvaluator, EvaluatorType, Rounds
<1>2. /\ UNCHANGED <<results, final, best>> /\ Latest' = Latest
      /\ finalDir' \in {finalDir, TRUE}
      /\ cut' = IF EvalAt("export") /\ Is("best") THEN cut \cup {evaluator.at} ELSE cut
  <2>1. UNCHANGED <<results, final, best>> /\ Latest' = Latest
    BY DEF Stopped, Latest
  <2>2. finalDir' \in {finalDir, TRUE}
    BY DEF Stopped
  <2>3. cut' = IF EvalAt("export") /\ Is("best") THEN cut \cup {evaluator.at} ELSE cut
    BY DEF Stopped
  <2> QED
    BY <2>1, <2>2, <2>3
<1>3. EvalInOrder'
  <2>1. first' /\ final # None => AtTheEnd(final)'
    BY <1>2 DEF LifeInv, EvalInOrder, AtTheEnd, IsLast
  <2> QED
    BY <1>1, <1>2, <2>1 DEF EvalInOrder, EvalAt
<1>4. ResultsInOrder'
  BY <1>1, <1>2 DEF LifeInv, ResultsInOrder, EvalAt, Earlier, IsChampion
<1>5. BestInOrder'
  BY <1>1, <1>2 DEF LifeInv, BestInOrder, EvalAt, Is, Best
<1>6. finalDir' \in BOOLEAN
  BY <1>2 DEF LifeInv, LifeTypeOK
<1> QED
  BY <1>1, <1>2, <1>3, <1>4, <1>5, <1>6

(* Another evaluator of the same job.                                      *)
LEMMA EvaluatorRestartsStep ==
  ASSUME LifeInv, EvaluatorRestarts
  PROVE  LifeInv'
<1>1. /\ UNCHANGED <<setting, trainVars>> /\ Stopped /\ evaluator' = NewEvaluator
      /\ UNCHANGED <<setting, first, step, ready, trainer, ckpts, done, trained>>
  BY DEF EvaluatorRestarts, trainVars
<1>2. StepsInOrder' /\ DoneMeansTrained'
  BY <1>1, TrainersKept
<1>3. /\ evaluator' \in EvaluatorType /\ finalDir' \in BOOLEAN
      /\ UNCHANGED <<results, final, best>>
      /\ EvalInOrder' /\ ResultsInOrder' /\ BestInOrder'
  BY <1>1, StoppedStep
<1>4. LifeTypeOK'
  BY <1>1, <1>3 DEF LifeInv, LifeTypeOK, EvaluatorType
<1> QED
  BY <1>2, <1>3, <1>4 DEF LifeInv

(* Another job on the same model_dir.                                      *)
LEMMA RunAgainStep ==
  ASSUME LifeInv, RunAgain
  PROVE  LifeInv'
<1>1. /\ UNCHANGED <<setting, ckpts, done>> /\ Stopped /\ evaluator' = NewEvaluator
      /\ first' = FALSE /\ step' = 0 /\ ready' = FALSE /\ trained' = None
      /\ trainer' = [t \in Workers |-> NewTrainer]
  BY DEF RunAgain
<1>2. /\ evaluator' \in EvaluatorType /\ finalDir' \in BOOLEAN
      /\ UNCHANGED <<results, final, best>>
      /\ EvalInOrder' /\ ResultsInOrder' /\ BestInOrder'
  BY <1>1, StoppedStep
<1>3. /\ trainer' \in TrainerType
      /\ \A t \in Workers : trainer'[t].at = "starting"
  BY <1>1 DEF TrainerType, NewTrainer, Places
<1>4. LifeTypeOK'
  <2>1. 0 \in Steps
    BY ConstantsAreNumbers DEF Steps
  <2>2. trained' \in Nat \cup {None} /\ first' \in BOOLEAN /\ ready' \in BOOLEAN
    BY <1>1
  <2> QED
    BY <1>1, <1>2, <1>3, <2>1, <2>2 DEF LifeInv, LifeTypeOK, EvaluatorType, TrainerType
<1>5. StepsInOrder' /\ DoneMeansTrained'
  BY <1>1, <1>3 DEF LifeInv, StepsInOrder, DoneMeansTrained, InSession, IsMax, Latest
<1> QED
  BY <1>2, <1>4, <1>5 DEF LifeInv

(* Nothing has begun.                                                      *)
LEMMA LifeInvInit == LifecycleInit => LifeInv
<1> SUFFICES ASSUME LifecycleInit PROVE LifeInv
  OBVIOUS
<1>1. Latest = None
  BY DEF LifecycleInit, Latest
<1>2. /\ trainer \in TrainerType
      /\ \A t \in Workers : trainer[t].at = "starting" /\ trainer[t].stage = "train"
  BY DEF LifecycleInit, NewTrainer, TrainerType, Places
<1>3. /\ evaluator \in EvaluatorType /\ evaluator.pc = "look" /\ evaluator.at = None
      /\ evaluator.loaded = FALSE
  BY DEF LifecycleInit, NewEvaluator, EvaluatorType, Rounds
<1>4. LifeTypeOK
  <2>1. 0 \in Steps
    BY ConstantsAreNumbers DEF Steps
  <2> QED
    BY <1>2, <1>3, <2>1 DEF LifecycleInit, LifeTypeOK, TrainerType, EvaluatorType
<1>5. StepsInOrder /\ DoneMeansTrained
  BY <1>2, ConstantsAreNumbers
  DEF LifecycleInit, StepsInOrder, DoneMeansTrained, InSession
<1>6. EvalInOrder
  BY <1>3 DEF LifecycleInit, EvalInOrder, EvalAt
<1>7. ResultsInOrder /\ BestInOrder
  BY <1>3 DEF LifecycleInit, ResultsInOrder, BestInOrder, EvalAt, Earlier
<1> QED
  BY <1>4, <1>5, <1>6, <1>7 DEF LifeInv

(* Every step of a job keeps the invariant.                                *)
LEMMA LifeInvStep == LifeInv /\ [LifecycleNext]_vars => LifeInv'
<1> SUFFICES ASSUME LifeInv, [LifecycleNext]_vars PROVE LifeInv'
  OBVIOUS
<1>1. ASSUME NEW t \in Workers, TrainerStep(t) PROVE LifeInv'
  BY <1>1, TrainerStepStep
<1>2. CASE EvaluatorStep
  BY <1>2, EvaluatorStepStep
<1>3. CASE EvaluatorRestarts
  BY <1>3, EvaluatorRestartsStep
<1>4. CASE RunAgain
  BY <1>4, RunAgainStep
<1>5. CASE (Watch /\ UNCHANGED <<setting, evalVars>>) \/ PutSignal \/ UNCHANGED vars
  <2>1. /\ UNCHANGED <<setting, first, evalVars>>
        /\ UNCHANGED <<step, ready, trainer, ckpts, done, trained>>
    BY <1>5 DEF Watch, PutSignal, NoSave, vars, trainVars, evalVars
  <2>2. StepsInOrder' /\ DoneMeansTrained' /\ Latest' = Latest
    BY <2>1, TrainersKept
  <2>3. EvalInOrder' /\ ResultsInOrder' /\ BestInOrder'
    BY <2>1, <2>2, EvaluatorKept
  <2>4. LifeTypeOK'
    BY <2>1 DEF LifeInv, LifeTypeOK, evalVars
  <2> QED
    BY <2>2, <2>3, <2>4 DEF LifeInv
<1> QED
  BY <1>1, <1>2, <1>3, <1>4, <1>5 DEF LifecycleNext

(* The invariant of a job, on which the theorems rest.                     *)
THEOREM LifecycleInvariant == LifecycleSpec => []LifeInv
  BY LifeInvInit, LifeInvStep, PTL DEF LifecycleSpec

(* With any number of trainers and checkpoints and any restarts, nobody    *)
(* fits on the evaluation data, or counts from an earlier step, before the *)
(* chief of the first job has come out of training.                        *)
THEOREM NobodyFitsEarly == LifecycleSpec => []FitAfterTraining
<1>1. LifeInv => FitAfterTraining
  BY DEF LifeInv, DoneMeansTrained, FitAfterTraining
<1> QED
  BY LifecycleInvariant, <1>1, PTL

(* The model in export/final, if one is there when the evaluator of the    *)
(* first job is over, is of the end of the training.                       *)
THEOREM FinalIsOfTheEnd == LifecycleSpec => []FinalOut
<1>1. LifeInv => FinalOut
  BY DEF LifeInv, EvalInOrder, FinalOut, AtTheEnd
<1> QED
  BY LifecycleInvariant, <1>1, PTL

(* For any metric and any number of exports to keep, the best checkpoint of*)
(* all that were evaluated is not lost by a deletion or by a restart.      *)
THEOREM BestIsKept == LifecycleSpec => []BestKept
<1>1. LifeInv => BestKept
  BY DEF LifeInv, BestInOrder, BestKept, Best
<1> QED
  BY LifecycleInvariant, <1>1, PTL
=============================================================================
