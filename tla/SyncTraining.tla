---------------------------- MODULE SyncTraining ----------------------------
(***************************************************************************)
(* A synchronous training job: SyncReplicas and ExitBarrier as the hooks   *)
(* of the same workers (model/easy_rec_estimator.py).  In each session the *)
(* sync hook runs before the barrier hook, when the session begins and     *)
(* when it ends.                                                           *)
(***************************************************************************)
EXTENDS SyncReplicas, ExitBarrier

jobVars == <<syncReplicasVars, barrierVars>>

JobInit == SyncInit /\ BarrierInit

(* The sync hook, the saver and the train and sync ops, which know of no   *)
(* barrier.                                                                *)
SyncPart(w) ==
  /\ Hook(w) \/ TrainOp(w) \/ SyncOp(w) \/ Saver(w)
  /\ UNCHANGED barrierVars

(* The barrier hook of the chief, after its sync hook.                     *)
ClearHook ==
  /\ pc[Chief] = "hooked" /\ Clear
  /\ UNCHANGED syncReplicasVars

LoopBegins(w) ==
  /\ BeginLoop(w) /\ bpc[w] = "train"
  /\ UNCHANGED barrierVars

(* The session hooks of the chief run again, so does its clearing.         *)
SessionRecovers(w) ==
  /\ Recover(w)
  /\ bpc' = [bpc EXCEPT ![w] = IF w = Chief THEN "clear" ELSE @]
  /\ UNCHANGED <<exitCounter, signals, sent, flagFile>>

(* Once the sync hook has ended, so does the barrier hook.                 *)
BarrierPart(w) ==
  /\ pc[w] = "ended" /\ (EnterBarrier(w) \/ AfterEnd(w))
  /\ UNCHANGED syncReplicasVars

JobNext ==
  \/ \E w \in Workers :
       \/ SyncPart(w) \/ LoopBegins(w) \/ SessionRecovers(w) \/ BarrierPart(w)
  \/ ClearHook
  \/ AllGone /\ UNCHANGED jobVars

(* Every process, session and queue runner keeps running.                  *)
JobFairness ==
  /\ WF_jobVars(ClearHook)
  /\ \A w \in Workers :
       /\ WF_jobVars((Hook(w) \/ TrainOp(w) \/ Saver(w)) /\ UNCHANGED barrierVars)
       /\ WF_jobVars(SyncOp(w) /\ UNCHANGED barrierVars)
       /\ WF_jobVars(LoopBegins(w)) /\ WF_jobVars(BarrierPart(w))

JobSpec == JobInit /\ [][JobNext]_jobVars /\ JobFairness
---------------------------------------------------------------------------
(* Properties                                                              *)

(* While no session was lost, the token queue protects the barrier: no     *)
(* worker gets through while another one is still in its loop, because     *)
(* none ends before the chief has emptied exit_counter and pushed.  (That  *)
(* is where every worker has input for a batch, as in the run's settings:  *)
(* one without ends at once, and elements left by an earlier job may let it*)
(* through.)                                                               *)
JobBarrierHolds == recoveries = 0 => BarrierHolds

(* Nor is a gradient applied any more: the model that the chief exports is *)
(* not changed behind its back.                                            *)
FrozenAtExport ==
  [][(recoveries = 0 /\ \E w \in Workers : Through(w)) => ver' = ver]_jobVars

(* The job ends: every worker gets out of its loop and through the         *)
(* barrier, as long as no session was lost and no two queue runners have   *)
(* shared the gradients of one step.                                       *)
JobEnds == ([](~Split /\ recoveries = 0)) => AllExit

=============================================================================
