---------------------------- MODULE SyncReplicas ----------------------------
(***************************************************************************)
(* Synchronous training (compat/sync_replicas_optimizer.py) as the         *)
(* estimator sets it up: replicas_to_aggregate and total_num_replicas are  *)
(* the number of workers, and no initial tokens are put.                   *)
(*                                                                         *)
(* On the parameter servers: one conditional accumulator per variable, the *)
(* global step, and the token queue.  Each worker runs the train op, which *)
(* pushes one gradient per variable and takes a token, and the sync op in  *)
(* a queue runner: it is put in the QUEUE_RUNNERS collection, whose        *)
(* members every session starts, not only the chief's.                     *)
(*                                                                         *)
(* A gradient is its worker and its local step; a variable is the number   *)
(* of updates it got.  The chief saves checkpoints while the other workers *)
(* go on, and a session it creates again restores the latest one.          *)
(* Accumulators, FIFO queues, sessions and their queue runners are         *)
(* TensorFlow's.                                                           *)
(***************************************************************************)
EXTENDS TrainingTasks, Integers, Sequences, SequencesExt

CONSTANTS
  Vars,         \* the variables that get a gradient
  GlobalStep,   \* the name of global_step, a variable of checkpoints too
  Settings,     \* the jobs to try.  sizes: numbers of batches that a worker's
                \*   input may hold; losses, a bound: sessions created again
                \*   after a preemption
  StartStep,    \* the global step the job starts from
  MaxSteps      \* num_steps: the stop hook's last step

ASSUME SyncAssumption ==
  \* apply_gradients must be given a variable (sync_replicas_optimizer.py 240)
  /\ IsFiniteSet(Vars) /\ Vars # {} /\ GlobalStep \notin Vars
  /\ \A s \in Settings : s.sizes \subseteq Nat /\ s.losses \in Nat
  /\ {StartStep, MaxSteps} \subseteq Nat

VARIABLES
  setting,   \* the job, one of Settings
  gstep,     \* global_step
  ver,       \* ver[v]: updates of v, counted from the step of the start
  acc,       \* acc[v]: the gradients in the accumulator of v
  accStep,   \* accStep[v]: its current global step
  attempts,  \* attempts[v]: the sync threads waiting in take_grad, in order
  tokens,    \* sync_token_queue
  closed,    \* the token queue is closed
  pc,        \* pc[w]: where the training loop of w is
  data,      \* data[w]: batches left in its input
  local,     \* local[w]: sync_rep_local_step
  grads,     \* grads[w]: variables whose gradient is yet to be pushed
  sync,      \* sync[w]: the queue runner of w: "off", "run", "publish", "dead"
  got,       \* got[w][v]: how far its sync op is with v
  ckpt,      \* the latest checkpoint: the value of each variable
  saving,    \* the variables when the save began that the chief is at
  restoring, \* the variables the chief's new session has yet to restore
  recoveries, \* sessions created again so far
  rolledBack \* one of them was the chief's

psVars     == <<gstep, ver, acc, accStep, attempts, tokens, closed>>
workerVars == <<pc, data, local, grads>>
syncVars   == <<sync, got>>
sessionVars == <<setting, ckpt, saving, restoring, recoveries, rolledBack>>
syncReplicasVars == <<psVars, workerVars, syncVars, sessionVars>>

PCs == {"boot", "restore", "created", "inited", "hooked", "save", "step", "push",
        "hook", "end", "ended", "failed"}

Idle == [v \in Vars |-> "no"]

(* What a checkpoint holds, and its present values.                        *)
Saved == Vars \cup {GlobalStep}
Values == [x \in Saved |-> IF x = GlobalStep THEN gstep ELSE ver[x]]

SyncInit ==
  /\ setting \in Settings /\ data \in [Workers -> setting.sizes]
  /\ gstep = StartStep /\ ver = [v \in Vars |-> StartStep]
  /\ acc = [v \in Vars |-> <<>>] /\ accStep = [v \in Vars |-> 0]
  /\ attempts = [v \in Vars |-> <<>>]
  /\ tokens = <<>> /\ closed = FALSE
  /\ pc = [w \in Workers |-> "boot"]
  /\ local = [w \in Workers |-> 0] /\ grads = [w \in Workers |-> {}]
  /\ sync = [w \in Workers |-> "off"] /\ got = [w \in Workers |-> Idle]
  /\ ckpt = Values /\ saving = ckpt /\ restoring = {}
  /\ recoveries = 0 /\ rolledBack = FALSE

Goto(w, l) == pc' = [pc EXCEPT ![w] = l]

---------------------------------------------------------------------------
(* A session and its hooks                                                 *)

(* The chief initializes or restores the variables; the others wait until  *)
(* they are initialized.  Every session starts the queue runners of its    *)
(* graph.                                                                  *)
CreateSession(w) ==
  /\ \/ pc[w] = "boot" /\ (w = Chief \/ pc[Chief] # "boot")
     \/ pc[w] = "restore" /\ restoring = {}
  /\ Goto(w, "created")
  /\ sync' = [sync EXCEPT ![w] = "run"]
  /\ UNCHANGED <<psVars, data, local, grads, got, sessionVars>>

(* after_create_session: local_step_init_op, on the chief chief_init_op.   *)
LocalInit(w) ==
  /\ pc[w] = "created" /\ Goto(w, "inited")
  /\ local' = [local EXCEPT ![w] = gstep]
  /\ accStep' = IF w = Chief THEN [v \in Vars |-> gstep] ELSE accStep
  /\ UNCHANGED <<gstep, ver, acc, attempts, tokens, closed, data, grads,
                 syncVars, sessionVars>>

(* assert not is_closed                                                    *)
AssertOpen(w) ==
  /\ pc[w] = "inited"
  /\ Goto(w, IF closed THEN "failed" ELSE "hooked")
  /\ UNCHANGED <<psVars, data, local, grads, syncVars, sessionVars>>

(* The session runs the save op: saving is what it may read first.         *)
BeginSave(w) == w = Chief /\ Goto(w, "save") /\ saving' = Values

(* The other hooks are through, the last of them the chief's saver, whose  *)
(* after_create_session saves: the training loop begins.                   *)
BeginLoop(w) ==
  /\ pc[w] = "hooked"
  /\ IF w = Chief THEN BeginSave(w) ELSE Goto(w, "step") /\ UNCHANGED saving
  /\ UNCHANGED <<psVars, data, local, grads, syncVars, setting, ckpt, restoring,
                 recoveries, rolledBack>>

(* Values from those of f to those of g.                                   *)
Between(f, g) ==
  {h \in [Saved -> UNION {f[x]..g[x] : x \in Saved}] :
     \A x \in Saved : h[x] \in f[x]..g[x]}

(* Each variable was read at some time since the save began, while the     *)
(* other workers went on; the checkpoint is there when all is written.     *)
FinishSave(w) ==
  /\ pc[w] = "save" /\ Goto(w, IF sync[w] = "dead" THEN "end" ELSE "step")
  /\ ckpt' \in Between(saving, Values) /\ saving' = ckpt'
  /\ UNCHANGED <<psVars, data, local, grads, syncVars, setting, restoring,
                 recoveries, rolledBack>>

(* The hook's end: the token queue is closed, if it is not.                *)
EndSync(w) ==
  /\ pc[w] = "end" /\ Goto(w, "ended")
  /\ closed' = TRUE
  /\ UNCHANGED <<gstep, ver, acc, accStep, attempts, tokens, data, local,
                 grads, syncVars, sessionVars>>

(* A closed session's take_grad leaves the line.                           *)
Cancelled(line, w) ==
  IF w \in ToSet(line)
  THEN RemoveAt(line, CHOOSE i \in DOMAIN line : line[i] = w)
  ELSE line

(* A preempted session is created again: its input starts again, its hooks *)
(* are called again; what its queue runner had taken is gone.  The chief's *)
(* is given the latest checkpoint by its scaffold, whatever the others do; *)
(* the others' find the variables initialized.                             *)
Recover(w) ==
  /\ recoveries < setting.losses
  /\ pc[w] \notin {"boot", "end", "ended", "failed"}
  /\ recoveries' = recoveries + 1
  /\ grads' = [grads EXCEPT ![w] = {}]
  /\ IF w = Chief
     THEN /\ Goto(w, "restore") /\ sync' = [sync EXCEPT ![w] = "off"]
          /\ restoring' = Saved /\ rolledBack' = TRUE /\ saving' = ckpt
     ELSE /\ Goto(w, "created") /\ sync' = [sync EXCEPT ![w] = "run"]
          /\ UNCHANGED <<restoring, rolledBack, saving>>
  /\ got' = [got EXCEPT ![w] = Idle]
  /\ attempts' = [v \in Vars |-> Cancelled(attempts[v], w)]
  /\ \E d \in setting.sizes : data' = [data EXCEPT ![w] = d]
  /\ UNCHANGED <<setting, gstep, ver, acc, accStep, tokens, closed, local, ckpt>>

(* The restore op of the chief's new session assigns one variable.         *)
Restore(w, x) ==
  /\ pc[w] = "restore" /\ x \in restoring
  /\ restoring' = restoring \ {x}
  /\ IF x = GlobalStep
     THEN gstep' = ckpt[x] /\ UNCHANGED ver
     ELSE ver' = [ver EXCEPT ![x] = ckpt[x]] /\ UNCHANGED gstep
  /\ UNCHANGED <<acc, accStep, attempts, tokens, closed, workerVars, syncVars,
                 setting, ckpt, saving, recoveries, rolledBack>>

---------------------------------------------------------------------------
(* The train op of a worker                                                *)

(* Faulty variant: the end of the input is not looked at.                  *)
ComputeAnyway(w) ==
  /\ pc[w] = "step" /\ Goto(w, "push")
  /\ data' = [data EXCEPT ![w] = @ - 1]
  /\ grads' = [grads EXCEPT ![w] = Vars]
  /\ UNCHANGED <<psVars, local, syncVars, sessionVars>>

(* The next batch: variables are read and gradients computed.              *)
Compute(w) ==
  /\ pc[w] = "step" /\ data[w] > 0 /\ Goto(w, "push")
  /\ data' = [data EXCEPT ![w] = @ - 1]
  /\ grads' = [grads EXCEPT ![w] = Vars]
  /\ UNCHANGED <<psVars, local, syncVars, sessionVars>>

OutOfData(w) ==
  /\ pc[w] = "step" /\ data[w] = 0 /\ Goto(w, "end")
  /\ UNCHANGED <<psVars, data, local, grads, syncVars, sessionVars>>

(* apply_grad: the accumulator drops a gradient older than its step.       *)
Push(w, v) ==
  /\ pc[w] = "push" /\ v \in grads[w]
  /\ grads' = [grads EXCEPT ![w] = @ \ {v}]
  /\ acc' = IF local[w] < accStep[v] THEN acc
            ELSE [acc EXCEPT ![v] = Append(@, [from |-> w, at |-> local[w]])]
  /\ UNCHANGED <<gstep, ver, accStep, attempts, tokens, closed, pc, data,
                 local, syncVars, sessionVars>>

(* Once all are pushed: the token is the local step of the next batch.     *)
TakeToken(w) ==
  /\ pc[w] = "push" /\ grads[w] = {} /\ tokens # <<>> /\ Goto(w, "hook")
  /\ local' = [local EXCEPT ![w] = Head(tokens)]
  /\ tokens' = Tail(tokens)
  /\ UNCHANGED <<gstep, ver, acc, accStep, attempts, closed, data, grads,
                 syncVars, sessionVars>>

(* dequeue on the closed and empty queue: OutOfRangeError ends the loop.   *)
NoMoreTokens(w) ==
  /\ pc[w] = "push" /\ grads[w] = {} /\ tokens = <<>> /\ closed
  /\ Goto(w, "end")
  /\ UNCHANGED <<psVars, data, local, grads, syncVars, sessionVars>>

(* The stop hook, and a stop asked for by the queue runner that died.      *)
Stops(w) == gstep >= MaxSteps \/ sync[w] = "dead"
AfterRun(w) ==
  /\ pc[w] = "hook" /\ Goto(w, IF Stops(w) THEN "end" ELSE "step")
  /\ UNCHANGED <<psVars, data, local, grads, syncVars, sessionVars>>

(* The saver's timer may have come, by steps or by seconds.                *)
AfterRunSave(w) ==
  /\ pc[w] = "hook" /\ ~Stops(w) /\ BeginSave(w)
  /\ UNCHANGED <<psVars, data, local, grads, syncVars, setting, ckpt, restoring,
                 recoveries, rolledBack>>

---------------------------------------------------------------------------
(* The sync op in the queue runner of worker t                             *)

(* take_grad arrives at the accumulator of v and waits its turn.           *)
Attempt(t, v) ==
  /\ sync[t] = "run" /\ got[t][v] = "no"
  /\ got' = [got EXCEPT ![t][v] = "waiting"]
  /\ attempts' = [attempts EXCEPT ![v] = Append(@, t)]
  /\ UNCHANGED <<gstep, ver, acc, accStep, tokens, closed, workerVars, sync,
                 sessionVars>>

(* Faulty variant: one gradient less is enough.                            *)
EnoughButOne(v) == Len(acc[v]) >= NumWorkers - 1

(* take_grad waits for replicas_to_aggregate gradients.                    *)
Enough(v) == Len(acc[v]) >= NumWorkers

(* The first in line takes the average, and the accumulator moves on.      *)
Take(t, v) ==
  /\ attempts[v] # <<>> /\ Head(attempts[v]) = t /\ Enough(v)
  /\ attempts' = [attempts EXCEPT ![v] = Tail(@)]
  /\ acc' = [acc EXCEPT ![v] = <<>>]
  /\ accStep' = [accStep EXCEPT ![v] = @ + 1]
  /\ got' = [got EXCEPT ![t][v] = "taken"]
  /\ UNCHANGED <<gstep, ver, tokens, closed, workerVars, sync, sessionVars>>

(* The variable is updated with the average.                               *)
Apply(t, v) ==
  /\ sync[t] = "run" /\ got[t][v] = "taken"
  /\ ver' = [ver EXCEPT ![v] = @ + 1]
  /\ got' = [got EXCEPT ![t][v] = "applied"]
  /\ UNCHANGED <<gstep, acc, accStep, attempts, tokens, closed, workerVars,
                 sync, sessionVars>>

(* Faulty variant: the global step does not wait for the updates.          *)
AdvanceEarly(t) ==
  /\ sync[t] = "run" /\ \A v \in Vars : got[t][v] \in {"taken", "applied"}
  /\ gstep' = gstep + 1
  /\ sync' = [sync EXCEPT ![t] = "publish"]
  /\ UNCHANGED <<ver, acc, accStep, attempts, tokens, closed, workerVars, got,
                 sessionVars>>

(* All variables are updated: the global step is.                          *)
Advance(t) ==
  /\ sync[t] = "run" /\ \A v \in Vars : got[t][v] = "applied"
  /\ gstep' = gstep + 1
  /\ sync' = [sync EXCEPT ![t] = "publish"]
  /\ UNCHANGED <<ver, acc, accStep, attempts, tokens, closed, workerVars, got,
                 sessionVars>>

(* tokens_per_step tokens; on a closed queue the queue runner dies.        *)
Publish(t) ==
  /\ sync[t] = "publish" /\ ~closed
  /\ tokens' = tokens \o [i \in 1..NumWorkers |-> gstep]
  /\ sync' = [sync EXCEPT ![t] = "run"]
  /\ got' = [got EXCEPT ![t] = Idle]
  /\ UNCHANGED <<gstep, ver, acc, accStep, attempts, closed, workerVars,
                 sessionVars>>

PublishFails(t) ==
  /\ sync[t] = "publish" /\ closed
  /\ sync' = [sync EXCEPT ![t] = "dead"]
  /\ UNCHANGED <<psVars, workerVars, got, sessionVars>>

---------------------------------------------------------------------------

Hook(w) == CreateSession(w) \/ LocalInit(w) \/ AssertOpen(w) \/ EndSync(w)

Saver(w) ==
  FinishSave(w) \/ AfterRunSave(w) \/ \E x \in Saved : Restore(w, x)

TrainOp(w) ==
  \/ Compute(w) \/ OutOfData(w) \/ \E v \in Vars : Push(w, v)
  \/ TakeToken(w) \/ NoMoreTokens(w) \/ AfterRun(w)

SyncOp(t) ==
  \/ \E v \in Vars : Attempt(t, v) \/ Take(t, v) \/ Apply(t, v)
  \/ Advance(t) \/ Publish(t) \/ PublishFails(t)

SyncNext ==
  \E w \in Workers :
    Hook(w) \/ BeginLoop(w) \/ TrainOp(w) \/ SyncOp(w) \/ Saver(w) \/ Recover(w)

SyncFairness ==
  \A w \in Workers :
    /\ WF_syncReplicasVars(Hook(w) \/ BeginLoop(w) \/ TrainOp(w) \/ Saver(w))
    /\ WF_syncReplicasVars(SyncOp(w))

SyncSpec == SyncInit /\ [][SyncNext]_syncReplicasVars
---------------------------------------------------------------------------
(* Properties                                                              *)

Grad == [from : Workers, at : Nat]

(* Every variable keeps to its type.                                       *)
SyncTypeOK ==
  /\ setting \in Settings
  /\ gstep \in Nat /\ ver \in [Vars -> Nat] /\ accStep \in [Vars -> Nat]
  /\ acc \in [Vars -> Seq(Grad)] /\ attempts \in [Vars -> Seq(Workers)]
  /\ tokens \in Seq(Nat) /\ closed \in BOOLEAN
  /\ pc \in [Workers -> PCs] /\ data \in [Workers -> Nat]
  /\ local \in [Workers -> Nat] /\ grads \in [Workers -> SUBSET Vars]
  /\ sync \in [Workers -> {"off", "run", "publish", "dead"}]
  /\ got \in [Workers -> [Vars -> {"no", "waiting", "taken", "applied"}]]
  /\ ckpt \in [Saved -> Nat] /\ saving \in [Saved -> Nat]
  /\ restoring \in SUBSET Saved
  /\ recoveries \in Nat /\ rolledBack \in BOOLEAN

InLoop(w) == pc[w] \in {"save", "step", "push", "hook"}

(* A worker that holds the token of step s computes on variables that all  *)
(* have the updates of step s: tokens follow the global step, which        *)
(* follows the updates, whichever queue runners did them and whichever     *)
(* workers' sessions were lost.  (Not the chief's: it takes the variables  *)
(* back to the checkpoint, and leaves the others their tokens.)            *)
ReadsNotBehind ==
  ~rolledBack =>
    \A w \in Workers : InLoop(w) => \A v \in Vars : ver[v] >= local[w]

(* No gradient is dropped as stale while no session was created again: the *)
(* accumulators move on only when every token of the step has come back as *)
(* a gradient.                                                             *)
NoneDropped ==
  recoveries = 0 =>
    \A w \in Workers : \A v \in grads[w] : local[w] >= accStep[v]

(* The variables keep together while no session was created again: none is *)
(* a whole step ahead of the global step that the tokens carry, so no batch*)
(* sees one variable two updates apart from another.                       *)
UpdatesTogether ==
  recoveries = 0 => \A v \in Vars : ver[v] - gstep \in 0..1

(* A checkpoint is of one step, although it is read variable by variable   *)
(* while the other workers go on: the chief holds a token meanwhile.  So   *)
(* is the one that the first session lost restores, if it is the chief's,  *)
(* at whatever point of a save or of the loop.                             *)
CkptWhole ==
  recoveries = 0 \/ (recoveries = 1 /\ pc[Chief] = "restore") =>
    \A v \in Vars : ckpt[v] = ckpt[GlobalStep]

(* Two queue runners have each taken averages that belong to one step.     *)
Split ==
  \E t, u \in Workers : t # u /\ \E v, x \in Vars :
     got[t][v] \in {"taken", "applied"} /\ got[u][x] \in {"taken", "applied"}
=============================================================================
