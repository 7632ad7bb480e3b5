------------------------- MODULE SyncTraining_proof -------------------------
(***************************************************************************)
(* What holds of synchronous training for any number of workers and        *)
(* variables, where a theorem says so whatever sessions are lost.          *)
(***************************************************************************)
EXTENDS SyncTraining, FiniteSetTheorems, SequenceTheorems, TLAPS

(* The number of workers is a natural number.                              *)
LEMMA WorkersCounted == NumWorkers \in Nat
  BY ClusterAssumption, FS_CardinalityType DEF NumWorkers

(* The head of a sequence of steps is one of them, the tail is a sequence  *)
(* of others: taking a token invents none.                                 *)
LEMMA TakenFromQueue ==
  ASSUME NEW S, NEW q \in Seq(S), q # <<>>
  PROVE  /\ Head(q) \in S /\ Tail(q) \in Seq(S)
         /\ Head(q) = q[1] /\ 1 \in DOMAIN q
         /\ \A i \in DOMAIN Tail(q) : i + 1 \in DOMAIN q /\ Tail(q)[i] = q[i + 1]
  OBVIOUS

(* A line of threads that one of them leaves is a line of threads.         *)
LEMMA CancelledType ==
  ASSUME NEW S, NEW q \in Seq(S), NEW x
  PROVE  Cancelled(q, x) \in Seq(S)
<1>1. CASE x \in ToSet(q)
  <2> DEFINE i == CHOOSE i \in DOMAIN q : q[i] = x
  <2>1. i \in 1..Len(q)
    BY <1>1 DEF ToSet
  <2> HIDE DEF i
  <2>2. SubSeq(q, 1, i - 1) \in Seq(S) /\ SubSeq(q, i + 1, Len(q)) \in Seq(S)
    BY <2>1, SubSeqProperties
  <2>3. SubSeq(q, 1, i - 1) \o SubSeq(q, i + 1, Len(q)) \in Seq(S)
    BY <2>2
  <2> QED
    BY <1>1, <2>3 DEF Cancelled, RemoveAt, i
<1>2. CASE x \notin ToSet(q)
  BY <1>2 DEF Cancelled
<1> QED
  BY <1>1, <1>2

(* What a save may write is a checkpoint.                                  *)
LEMMA SavedType ==
  ASSUME SyncTypeOK
  PROVE  /\ Values \in [Saved -> Nat]
         /\ Between(saving, Values) \subseteq [Saved -> Nat]
<1>1. Values \in [Saved -> Nat]
  BY SyncAssumption DEF SyncTypeOK, Values, Saved
<1> QED
  BY <1>1 DEF SyncTypeOK, Between

(* Every step of the training hooks and ops keeps the types.               *)
LEMMA SyncTypeStep ==
  ASSUME SyncTypeOK, [SyncNext]_syncReplicasVars
  PROVE  SyncTypeOK'
<1> USE DEF psVars, workerVars, syncVars, sessionVars, syncReplicasVars
<1>1. CASE UNCHANGED syncReplicasVars
  BY <1>1 DEF SyncTypeOK
<1>2. ASSUME NEW w \in Workers, CreateSession(w) PROVE SyncTypeOK'
  BY <1>2 DEF SyncTypeOK, CreateSession, Goto, PCs
<1>3. ASSUME NEW w \in Workers, LocalInit(w) PROVE SyncTypeOK'
  <2>1. accStep' \in [Vars -> Nat]
    BY <1>3 DEF SyncTypeOK, LocalInit
  <2>2. local' \in [Workers -> Nat]
    BY <1>3 DEF SyncTypeOK, LocalInit
  <2> QED
    BY <1>3, <2>1, <2>2 DEF SyncTypeOK, LocalInit, Goto, PCs
<1>4. ASSUME NEW w \in Workers, AssertOpen(w) PROVE SyncTypeOK'
  BY <1>4 DEF SyncTypeOK, AssertOpen, Goto, PCs
<1>5. ASSUME NEW w \in Workers, EndSync(w) PROVE SyncTypeOK'
  BY <1>5 DEF SyncTypeOK, EndSync, Goto, PCs
<1>6. ASSUME NEW w \in Workers, BeginLoop(w) PROVE SyncTypeOK'
  BY <1>6, SavedType DEF SyncTypeOK, BeginLoop, BeginSave, Goto, PCs
<1>7. ASSUME NEW w \in Workers, Recover(w) PROVE SyncTypeOK'
  <2>1. attempts' \in [Vars -> Seq(Workers)]
    BY <1>7, CancelledType DEF SyncTypeOK, Recover
  <2>2. data' \in [Workers -> Nat]
    BY <1>7, SyncAssumption DEF SyncTypeOK, Recover
  <2>3. got' \in [Workers -> [Vars -> {"no", "waiting", "taken", "applied"}]]
    BY <1>7 DEF SyncTypeOK, Recover, Idle
  <2>4. sync' \in [Workers -> {"off", "run", "publish", "dead"}]
    BY <1>7 DEF SyncTypeOK, Recover
  <2>5. grads' \in [Workers -> SUBSET Vars] /\ pc' \in [Workers -> PCs]
    BY <1>7 DEF SyncTypeOK, Recover, Goto, PCs
  <2>8. /\ ckpt' \in [Saved -> Nat] /\ saving' \in [Saved -> Nat]
        /\ restoring' \in SUBSET Saved /\ rolledBack' \in BOOLEAN
    BY <1>7 DEF SyncTypeOK, Recover
  <2>6. /\ gstep' \in Nat /\ ver' \in [Vars -> Nat] /\ accStep' \in [Vars -> Nat]
        /\ acc' \in [Vars -> Seq(Grad)] /\ tokens' \in Seq(Nat)
        /\ closed' \in BOOLEAN /\ local' \in [Workers -> Nat]
    BY <1>7 DEF SyncTypeOK, Recover
  <2>7. recoveries' \in Nat /\ setting' \in Settings
    BY <1>7 DEF SyncTypeOK, Recover
  <2> QED
    BY <2>1, <2>2, <2>3, <2>4, <2>5, <2>6, <2>7, <2>8 DEF SyncTypeOK
<1>8. ASSUME NEW w \in Workers, Compute(w) PROVE SyncTypeOK'
  BY <1>8 DEF SyncTypeOK, Compute, Goto, PCs
<1>9. ASSUME NEW w \in Workers, OutOfData(w) PROVE SyncTypeOK'
  BY <1>9 DEF SyncTypeOK, OutOfData, Goto, PCs
<1>10. ASSUME NEW w \in Workers, NEW v \in Vars, Push(w, v) PROVE SyncTypeOK'
  <2>1. acc' \in [Vars -> Seq(Grad)]
    BY <1>10 DEF SyncTypeOK, Push, Grad
  <2>2. grads' \in [Workers -> SUBSET Vars]
    BY <1>10 DEF SyncTypeOK, Push
  <2> QED
    BY <1>10, <2>1, <2>2 DEF SyncTypeOK, Push
<1>11. ASSUME NEW w \in Workers, TakeToken(w) PROVE SyncTypeOK'
  <2>1. Head(tokens) \in Nat /\ Tail(tokens) \in Seq(Nat)
    BY <1>11, TakenFromQueue DEF SyncTypeOK, TakeToken
  <2> QED
    BY <1>11, <2>1 DEF SyncTypeOK, TakeToken, Goto, PCs
<1>12. ASSUME NEW w \in Workers, NoMoreTokens(w) PROVE SyncTypeOK'
  BY <1>12 DEF SyncTypeOK, NoMoreTokens, Goto, PCs
<1>13. ASSUME NEW w \in Workers, AfterRun(w) PROVE SyncTypeOK'
  BY <1>13 DEF SyncTypeOK, AfterRun, Goto, PCs
<1>14. ASSUME NEW t \in Workers, NEW v \in Vars, Attempt(t, v) PROVE SyncTypeOK'
  <2>1. attempts' \in [Vars -> Seq(Workers)]
    BY <1>14 DEF SyncTypeOK, Attempt
  <2>2. got' \in [Workers -> [Vars -> {"no", "waiting", "taken", "applied"}]]
    BY <1>14 DEF SyncTypeOK, Attempt
  <2> QED
    BY <1>14, <2>1, <2>2 DEF SyncTypeOK, Attempt
<1>15. ASSUME NEW t \in Workers, NEW v \in Vars, Take(t, v) PROVE SyncTypeOK'
  <2>1. attempts' \in [Vars -> Seq(Workers)]
    <3>1. Tail(attempts[v]) \in Seq(Workers)
      BY <1>15, TakenFromQueue DEF SyncTypeOK, Take
    <3> QED
      BY <1>15, <3>1 DEF SyncTypeOK, Take
  <2>2. got' \in [Workers -> [Vars -> {"no", "waiting", "taken", "applied"}]]
    BY <1>15 DEF SyncTypeOK, Take
  <2>3. acc' \in [Vars -> Seq(Grad)] /\ accStep' \in [Vars -> Nat]
    BY <1>15 DEF SyncTypeOK, Take
  <2> QED
    BY <1>15, <2>1, <2>2, <2>3 DEF SyncTypeOK, Take
<1>16. ASSUME NEW t \in Workers, NEW v \in Vars, Apply(t, v) PROVE SyncTypeOK'
  <2>1. got' \in [Workers -> [Vars -> {"no", "waiting", "taken", "applied"}]]
    BY <1>16 DEF SyncTypeOK, Apply
  <2>2. ver' \in [Vars -> Nat]
    BY <1>16 DEF SyncTypeOK, Apply
  <2> QED
    BY <1>16, <2>1, <2>2 DEF SyncTypeOK, Apply
<1>17. ASSUME NEW t \in Workers, Advance(t) PROVE SyncTypeOK'
  BY <1>17 DEF SyncTypeOK, Advance
<1>18. ASSUME NEW t \in Workers, Publish(t) PROVE SyncTypeOK'
  <2>1. tokens' \in Seq(Nat)
    BY <1>18, WorkersCounted DEF SyncTypeOK, Publish
  <2>2. got' \in [Workers -> [Vars -> {"no", "waiting", "taken", "applied"}]]
    BY <1>18 DEF SyncTypeOK, Publish, Idle
  <2> QED
    BY <1>18, <2>1, <2>2 DEF SyncTypeOK, Publish
<1>19. ASSUME NEW t \in Workers, PublishFails(t) PROVE SyncTypeOK'
  BY <1>19 DEF SyncTypeOK, PublishFails
<1>20. ASSUME NEW w \in Workers, FinishSave(w) PROVE SyncTypeOK'
  BY <1>20, SavedType DEF SyncTypeOK, FinishSave, Goto, PCs
<1>21. ASSUME NEW w \in Workers, AfterRunSave(w) PROVE SyncTypeOK'
  BY <1>21, SavedType DEF SyncTypeOK, AfterRunSave, BeginSave, Goto, PCs
<1>22. ASSUME NEW w \in Workers, NEW x \in Saved, Restore(w, x) PROVE SyncTypeOK'
  <2>1. gstep' \in Nat /\ ver' \in [Vars -> Nat] /\ restoring' \in SUBSET Saved
    BY <1>22 DEF SyncTypeOK, Restore
  <2> QED
    BY <1>22, <2>1 DEF SyncTypeOK, Restore
<1> QED
  BY <1>1, <1>2, <1>3, <1>4, <1>5, <1>6, <1>7, <1>8, <1>9, <1>10, <1>11, <1>12,
     <1>13, <1>14, <1>15, <1>16, <1>17, <1>18, <1>19, <1>20, <1>21, <1>22
  DEF SyncNext, Hook, TrainOp, SyncOp, Saver

---------------------------------------------------------------------------
(* The sync ops that have updated v and not yet advanced the global step.  *)
Applied(v) == {t \in Workers : sync[t] = "run" /\ got[t][v] = "applied"}

(* What keeps a token behind the updates: every variable is ahead of the   *)
(* global step by the sync ops that are still to advance it (or that were  *)
(* lost), no token or local step is ahead of the global step, and a queue  *)
(* runner that is yet to start has updated nothing.                        *)
UpdatesFirst == \A v \in Vars : ver[v] >= gstep + Cardinality(Applied(v))

NoTokenAhead ==
  /\ \A i \in DOMAIN tokens : tokens[i] <= gstep
  /\ \A w \in Workers : local[w] <= gstep

BootIdle ==
  \A w \in Workers : pc[w] \in {"boot", "restore"} =>
    sync[w] = "off" /\ \A v \in Vars : got[w][v] # "applied"

(* Only a chief saves, only one whose session was lost restores.           *)
RestoreInv ==
  /\ rolledBack => recoveries # 0
  /\ \A w \in Workers :
       (pc[w] = "restore" => rolledBack /\ w = Chief) /\ (pc[w] = "save" => w = Chief)

(* A checkpoint restored takes the variables back, but not the tokens.     *)
SyncInv ==
  /\ SyncTypeOK /\ BootIdle /\ RestoreInv
  /\ ~rolledBack => UpdatesFirst /\ NoTokenAhead

(* Fewer sync ops in the count.                                            *)
LEMMA AppliedShrinks ==
  ASSUME NEW v \in Vars, Applied(v)' \subseteq Applied(v)
  PROVE  /\ Cardinality(Applied(v)') <= Cardinality(Applied(v))
         /\ Cardinality(Applied(v)') \in Nat /\ Cardinality(Applied(v)) \in Nat
<1>1. IsFiniteSet(Applied(v))
  BY ClusterAssumption, FS_Subset DEF Applied
<1> QED
  BY <1>1, FS_Subset, FS_CardinalityType

(* The invariant holds at first: nothing is updated.                       *)
LEMMA SyncInvInit == SyncInit => SyncInv
<1> SUFFICES ASSUME SyncInit PROVE SyncInv
  OBVIOUS
<1>1. SyncTypeOK
  <2>1. acc \in [Vars -> Seq(Grad)] /\ attempts \in [Vars -> Seq(Workers)]
    BY DEF SyncInit
  <2>2. got \in [Workers -> [Vars -> {"no", "waiting", "taken", "applied"}]]
    BY DEF SyncInit, Idle
  <2>3. pc \in [Workers -> PCs] /\ data \in [Workers -> Nat]
    BY SyncAssumption DEF SyncInit, PCs
  <2>4. /\ gstep \in Nat /\ ver \in [Vars -> Nat] /\ accStep \in [Vars -> Nat]
        /\ closed \in BOOLEAN /\ recoveries \in Nat /\ rolledBack \in BOOLEAN
        /\ local \in [Workers -> Nat] /\ grads \in [Workers -> SUBSET Vars]
    BY SyncAssumption, Zenon DEF SyncInit
  <2>6. tokens \in Seq(Nat)
    BY DEF SyncInit
  <2>5. sync \in [Workers -> {"off", "run", "publish", "dead"}]
    BY DEF SyncInit
  <2>7. /\ ckpt \in [Saved -> Nat] /\ saving \in [Saved -> Nat]
        /\ restoring \in SUBSET Saved /\ setting \in Settings
    BY SyncAssumption DEF SyncInit, Values, Saved
  <2> QED
    BY <2>1, <2>2, <2>3, <2>4, <2>5, <2>6, <2>7 DEF SyncTypeOK
<1>2. \A v \in Vars : Applied(v) = {}
  BY DEF SyncInit, Applied
<1>3. UpdatesFirst
  <2> SUFFICES ASSUME NEW v \in Vars
               PROVE  ver[v] >= gstep + Cardinality(Applied(v))
    BY DEF UpdatesFirst
  <2>1. Cardinality(Applied(v)) = 0
    BY <1>2, FS_EmptySet
  <2> QED
    BY <2>1, SyncAssumption DEF SyncInit
<1>4. NoTokenAhead
  BY SyncAssumption DEF SyncInit, NoTokenAhead
<1>5. BootIdle /\ RestoreInv
  BY DEF SyncInit, BootIdle, RestoreInv, Idle
<1> QED
  BY <1>1, <1>3, <1>4, <1>5 DEF SyncInv

(* What a chief whose session was not lost leaves alone.                   *)
LEMMA RolledBackStays ==
  ASSUME SyncTypeOK, RestoreInv, [SyncNext]_syncReplicasVars, ~rolledBack'
  PROVE  /\ ~rolledBack
         /\ \A w \in Workers :
              (\A x \in Saved : ~Restore(w, x)) /\ (Recover(w) => w # Chief)
<1> USE DEF psVars, workerVars, syncVars, sessionVars, syncReplicasVars
<1>1. ASSUME NEW w \in Workers, Hook(w) \/ BeginLoop(w) \/ TrainOp(w) \/ SyncOp(w) \/ Saver(w)
      PROVE  rolledBack' = rolledBack
  BY <1>1
  DEF Hook, TrainOp, SyncOp, Saver, CreateSession, LocalInit, AssertOpen, EndSync, BeginLoop,
      Compute, OutOfData, Push, TakeToken, NoMoreTokens, AfterRun, Attempt, Take, Apply,
      Advance, Publish, PublishFails, FinishSave, AfterRunSave, Restore
<1>2. ASSUME NEW w \in Workers, Recover(w) PROVE w # Chief /\ rolledBack' = rolledBack
  BY <1>2 DEF Recover
<1>3. ~rolledBack
  BY <1>1, <1>2 DEF SyncNext
<1> QED
  BY <1>2, <1>3 DEF RestoreInv, Restore

(* No step leaves a variable behind the global step.                       *)
LEMMA UpdatesFirstStep ==
  ASSUME SyncInv, [SyncNext]_syncReplicasVars, ~rolledBack'
  PROVE  UpdatesFirst'
<1> SUFFICES ASSUME NEW v \in Vars
             PROVE  (ver[v] >= gstep + Cardinality(Applied(v)))'
  BY DEF UpdatesFirst
<1>0. ~rolledBack
  BY RolledBackStays DEF SyncInv
<1>1. /\ gstep \in Nat /\ ver \in [Vars -> Nat]
      /\ sync \in [Workers -> {"off", "run", "publish", "dead"}]
      /\ got \in [Workers -> [Vars -> {"no", "waiting", "taken", "applied"}]]
  BY DEF SyncInv, SyncTypeOK
<1>2. /\ ver[v] >= gstep + Cardinality(Applied(v))
      /\ IsFiniteSet(Applied(v)) /\ Cardinality(Applied(v)) \in Nat
  BY <1>0, ClusterAssumption, FS_Subset, FS_CardinalityType
  DEF SyncInv, UpdatesFirst, Applied
<1>3. ASSUME gstep' = gstep, ver' = ver, Applied(v)' \subseteq Applied(v)
      PROVE  (ver[v] >= gstep + Cardinality(Applied(v)))'
  BY <1>1, <1>2, <1>3, AppliedShrinks
<1> USE DEF psVars, workerVars, syncVars, sessionVars, syncReplicasVars
<1>4. CASE UNCHANGED syncReplicasVars
  BY <1>3, <1>4 DEF Applied
<1>5. ASSUME NEW w \in Workers, CreateSession(w)
      PROVE  (ver[v] >= gstep + Cardinality(Applied(v)))'
  <2>1. got[w][v] # "applied"
    BY <1>5 DEF SyncInv, BootIdle, CreateSession
  <2> QED
    BY <1>1, <1>3, <1>5, <2>1 DEF Applied, CreateSession
<1>6. ASSUME NEW w \in Workers,
             LocalInit(w) \/ AssertOpen(w) \/ EndSync(w) \/ BeginLoop(w)
      PROVE  (ver[v] >= gstep + Cardinality(Applied(v)))'
  BY <1>3, <1>6 DEF Applied, LocalInit, AssertOpen, EndSync, BeginLoop
<1>7. ASSUME NEW w \in Workers, TrainOp(w)
      PROVE  (ver[v] >= gstep + Cardinality(Applied(v)))'
  BY <1>3, <1>7
  DEF Applied, TrainOp, Compute, OutOfData, Push, TakeToken, NoMoreTokens,
      AfterRun
<1>8. ASSUME NEW w \in Workers, Recover(w)
      PROVE  (ver[v] >= gstep + Cardinality(Applied(v)))'
  BY <1>1, <1>3, <1>8 DEF Applied, Recover, Idle
<1>9. ASSUME NEW t \in Workers, NEW x \in Vars, Attempt(t, x) \/ Take(t, x)
      PROVE  (ver[v] >= gstep + Cardinality(Applied(v)))'
  <2>1. \A u \in Workers : got'[u][v] = "applied" => got[u][v] = "applied"
    <3> DEFINE Moves(k) == got' = [got EXCEPT ![t][x] = k]
    <3>1. Moves("waiting") \/ Moves("taken")
      BY <1>9 DEF Attempt, Take
    <3>2. CASE Moves("waiting")
      BY <1>1, <3>2
    <3>3. CASE Moves("taken")
      BY <1>1, <3>3
    <3> QED
      BY <3>1, <3>2, <3>3
  <2>2. gstep' = gstep /\ ver' = ver /\ sync' = sync
    BY <1>9 DEF Attempt, Take
  <2> QED
    BY <1>3, <2>1, <2>2 DEF Applied
<1>10. ASSUME NEW t \in Workers, NEW x \in Vars, Apply(t, x)
       PROVE  (ver[v] >= gstep + Cardinality(Applied(v)))'
  <2>1. CASE x # v
    <3>1. \A u \in Workers : got'[u][v] = got[u][v]
      BY <1>1, <1>10, <2>1 DEF Apply
    <3>2. gstep' = gstep /\ ver'[v] = ver[v] /\ sync' = sync
      BY <1>1, <1>10, <2>1 DEF Apply
    <3>3. Applied(v)' = Applied(v)
      BY <3>1, <3>2 DEF Applied
    <3> QED
      BY <1>2, <3>2, <3>3
  <2>2. CASE x = v
    <3>1. Applied(v)' = Applied(v) \cup {t} /\ t \notin Applied(v)
      BY <1>1, <1>10, <2>2 DEF Applied, Apply
    <3>2. Cardinality(Applied(v)') = Cardinality(Applied(v)) + 1
      BY <1>2, <3>1, FS_AddElement
    <3> QED
      BY <1>1, <1>2, <1>10, <2>2, <3>2 DEF Apply
  <2> QED
    BY <2>1, <2>2
<1>11. ASSUME NEW t \in Workers, Advance(t)
       PROVE  (ver[v] >= gstep + Cardinality(Applied(v)))'
  <2>1. Applied(v)' = Applied(v) \ {t} /\ t \in Applied(v)
    BY <1>1, <1>11 DEF Applied, Advance
  <2>2. Cardinality(Applied(v)') = Cardinality(Applied(v)) - 1
    BY <1>2, <2>1, FS_RemoveElement
  <2> QED
    BY <1>1, <1>2, <1>11, <2>2 DEF Advance
<1>12. ASSUME NEW t \in Workers, Publish(t) \/ PublishFails(t)
       PROVE  (ver[v] >= gstep + Cardinality(Applied(v)))'
  BY <1>1, <1>3, <1>12 DEF Applied, Publish, PublishFails, Idle
<1>13. ASSUME NEW w \in Workers, Saver(w)
       PROVE  (ver[v] >= gstep + Cardinality(Applied(v)))'
  <2>1. FinishSave(w) \/ AfterRunSave(w)
    BY <1>13, RolledBackStays DEF Saver, SyncInv
  <2> QED
    BY <1>3, <2>1 DEF FinishSave, AfterRunSave, Applied
<1> QED
  BY <1>4, <1>5, <1>6, <1>7, <1>8, <1>9, <1>10, <1>11, <1>12, <1>13
  DEF SyncNext, Hook, SyncOp

(* No step lets a token or a local step run ahead.                         *)
LEMMA NoTokenAheadStep ==
  ASSUME SyncInv, [SyncNext]_syncReplicasVars, ~rolledBack'
  PROVE  NoTokenAhead'
<1> USE DEF psVars, workerVars, syncVars, sessionVars, syncReplicasVars
<1>1. /\ gstep \in Nat /\ tokens \in Seq(Nat) /\ local \in [Workers -> Nat]
      /\ \A i \in DOMAIN tokens : tokens[i] <= gstep
      /\ \A w \in Workers : local[w] <= gstep
  BY RolledBackStays DEF SyncInv, SyncTypeOK, NoTokenAhead
<1>2. ASSUME gstep' = gstep, tokens' = tokens, local' = local
      PROVE  NoTokenAhead'
  BY <1>1, <1>2 DEF NoTokenAhead
<1>3. ASSUME NEW w \in Workers, LocalInit(w) PROVE NoTokenAhead'
  BY <1>1, <1>3 DEF NoTokenAhead, LocalInit
<1>4. ASSUME NEW w \in Workers, TakeToken(w) PROVE NoTokenAhead'
  <2>1. tokens # <<>> /\ Head(tokens) <= gstep
    BY <1>1, <1>4, TakenFromQueue DEF TakeToken
  <2>2. \A i \in DOMAIN Tail(tokens) : Tail(tokens)[i] <= gstep
    BY <1>1, <2>1, TakenFromQueue
  <2>3. \A u \in Workers : local'[u] <= gstep
    BY <1>1, <1>4, <2>1 DEF TakeToken
  <2> QED
    BY <1>4, <2>2, <2>3 DEF NoTokenAhead, TakeToken
<1>5. ASSUME NEW t \in Workers, Advance(t) PROVE NoTokenAhead'
  BY <1>1, <1>5 DEF NoTokenAhead, Advance
<1>6. ASSUME NEW t \in Workers, Publish(t) PROVE NoTokenAhead'
  <2> DEFINE new == [i \in 1..NumWorkers |-> gstep]
  <2>1. new \in Seq(Nat) /\ \A i \in DOMAIN new : new[i] = gstep
    BY <1>1, WorkersCounted
  <2>2. \A i \in DOMAIN (tokens \o new) : (tokens \o new)[i] <= gstep
    <3> HIDE DEF new
    <3> SUFFICES ASSUME NEW i \in DOMAIN (tokens \o new)
                 PROVE  (tokens \o new)[i] <= gstep
      OBVIOUS
    <3>1. CASE i <= Len(tokens)
      BY <1>1, <2>1, <3>1
    <3>2. CASE i > Len(tokens)
      <4>1. i - Len(tokens) \in DOMAIN new
        BY <1>1, <2>1, <3>2
      <4>2. (tokens \o new)[i] = new[i - Len(tokens)]
        BY <1>1, <2>1, <3>2
      <4> QED
        BY <1>1, <2>1, <4>1, <4>2
    <3> QED
      BY <1>1, <2>1, <3>1, <3>2
  <2> QED
    BY <1>1, <1>6, <2>2 DEF NoTokenAhead, Publish
<1>7. ASSUME NEW w \in Workers,
             \/ CreateSession(w) \/ AssertOpen(w) \/ EndSync(w) \/ BeginLoop(w) \/ Recover(w)
             \/ Compute(w) \/ OutOfData(w) \/ NoMoreTokens(w) \/ AfterRun(w) \/ PublishFails(w)
      PROVE  gstep' = gstep /\ tokens' = tokens /\ local' = local
  BY <1>7 DEF CreateSession, AssertOpen, EndSync, BeginLoop, Recover, Compute, OutOfData,
              NoMoreTokens, AfterRun, PublishFails
<1>8. ASSUME NEW w \in Workers, NEW v \in Vars,
             Push(w, v) \/ Attempt(w, v) \/ Take(w, v) \/ Apply(w, v)
      PROVE  gstep' = gstep /\ tokens' = tokens /\ local' = local
  BY <1>8 DEF Push, Attempt, Take, Apply
<1>9. ASSUME NEW w \in Workers, Saver(w)
      PROVE  gstep' = gstep /\ tokens' = tokens /\ local' = local
  <2>1. FinishSave(w) \/ AfterRunSave(w)
    BY <1>9, RolledBackStays DEF Saver, SyncInv
  <2> QED
    BY <2>1 DEF FinishSave, AfterRunSave
<1> QED
  BY <1>2, <1>3, <1>4, <1>5, <1>6, <1>7, <1>8, <1>9 DEF SyncNext, Hook, TrainOp, SyncOp

(* Nothing runs in a session that does not exist yet.                      *)
LEMMA BootIdleStep ==
  ASSUME SyncInv, [SyncNext]_syncReplicasVars
  PROVE  BootIdle'
<1> USE DEF psVars, workerVars, syncVars, sessionVars, syncReplicasVars
<1>1. /\ pc \in [Workers -> PCs] /\ BootIdle
      /\ sync \in [Workers -> {"off", "run", "publish", "dead"}]
      /\ got \in [Workers -> [Vars -> {"no", "waiting", "taken", "applied"}]]
  BY DEF SyncInv, SyncTypeOK
<1>2. ASSUME NEW w \in Workers, Hook(w) \/ BeginLoop(w) PROVE BootIdle'
  BY <1>1, <1>2 DEF BootIdle, Hook, CreateSession, LocalInit, AssertOpen,
                    EndSync, BeginLoop, BeginSave, Goto
<1>3. ASSUME NEW w \in Workers, TrainOp(w) PROVE BootIdle'
  BY <1>1, <1>3 DEF BootIdle, TrainOp, Compute, OutOfData, Push, TakeToken,
                    NoMoreTokens, AfterRun, Goto
<1>4. ASSUME NEW w \in Workers, Recover(w) PROVE BootIdle'
  BY <1>1, <1>4 DEF BootIdle, Recover, Goto, Idle
<1>5. ASSUME NEW t \in Workers, NEW v \in Vars,
             Attempt(t, v) \/ Take(t, v) \/ Apply(t, v)
      PROVE  BootIdle'
  BY <1>1, <1>5 DEF BootIdle, Attempt, Take, Apply
<1>6. ASSUME NEW t \in Workers, Advance(t) \/ Publish(t) \/ PublishFails(t)
      PROVE  BootIdle'
  BY <1>1, <1>6 DEF BootIdle, Advance, Publish, PublishFails, Idle
<1>7. CASE UNCHANGED syncReplicasVars
  BY <1>1, <1>7 DEF BootIdle
<1>8. ASSUME NEW w \in Workers, Saver(w) PROVE BootIdle'
  BY <1>1, <1>8 DEF BootIdle, Saver, FinishSave, AfterRunSave, BeginSave, Restore, Goto
<1> QED
  BY <1>2, <1>3, <1>4, <1>5, <1>6, <1>7, <1>8 DEF SyncNext, SyncOp

(* Nothing is restored before a session of the chief is lost.              *)
LEMMA RestoreStep ==
  ASSUME SyncTypeOK, RestoreInv, [SyncNext]_syncReplicasVars
  PROVE  RestoreInv'
<1> USE DEF psVars, workerVars, syncVars, sessionVars, syncReplicasVars
<1>1. CASE UNCHANGED syncReplicasVars
  BY <1>1 DEF RestoreInv
<1>2. ASSUME NEW w \in Workers, Hook(w) \/ BeginLoop(w) \/ TrainOp(w) \/ SyncOp(w) \/ Saver(w)
      PROVE  /\ rolledBack' = rolledBack /\ recoveries' = recoveries
             /\ \A u \in Workers :
                  /\ pc'[u] = "restore" => pc[u] = "restore"
                  /\ pc'[u] = "save" => pc[u] = "save" \/ u = Chief
  BY <1>2
  DEF Hook, TrainOp, SyncOp, Saver, CreateSession, LocalInit, AssertOpen, EndSync, BeginLoop,
      BeginSave, Compute, OutOfData, Push, TakeToken, NoMoreTokens, AfterRun, Attempt, Take,
      Apply, Advance, Publish, PublishFails, FinishSave, AfterRunSave, Restore, Goto, SyncTypeOK
<1>3. ASSUME NEW w \in Workers, Recover(w) PROVE RestoreInv'
  <2>1. recoveries' # 0 /\ (rolledBack => rolledBack')
    BY <1>3 DEF Recover, SyncTypeOK
  <2>2. \A u \in Workers :
          /\ pc'[u] = "restore" => pc[u] = "restore" \/ (u = Chief /\ rolledBack')
          /\ pc'[u] = "save" => pc[u] = "save"
    BY <1>3 DEF Recover, Goto, SyncTypeOK
  <2> QED
    BY <2>1, <2>2 DEF RestoreInv
<1> QED
  BY <1>1, <1>2, <1>3 DEF SyncNext, RestoreInv

(* The invariant of synchronous training, on which the theorems rest.      *)
THEOREM SyncInvariant == SyncSpec => []SyncInv
<1>1. SyncInv /\ [SyncNext]_syncReplicasVars => SyncInv'
  BY SyncTypeStep, UpdatesFirstStep, NoTokenAheadStep, BootIdleStep, RestoreStep DEF SyncInv
<1> QED
  BY SyncInvInit, <1>1, PTL DEF SyncSpec

(* Every variable keeps its type.                                          *)
THEOREM SyncTyping == SyncSpec => []SyncTypeOK
  BY SyncInvariant, PTL DEF SyncInv

(* A replica never computes on a variable that lacks the updates of its    *)
(* local step: for any number of replicas, of variables and of sessions    *)
(* lost by others than the chief, although every replica runs the sync op. *)
THEOREM NoReadBehind == SyncSpec => []ReadsNotBehind
<1>1. SyncInv => ReadsNotBehind
  <2> SUFFICES ASSUME SyncInv, ~rolledBack, NEW w \in Workers, NEW v \in Vars
               PROVE  ver[v] >= local[w]
    BY DEF ReadsNotBehind
  <2>1. Cardinality(Applied(v)) \in Nat
    BY ClusterAssumption, FS_Subset, FS_CardinalityType DEF Applied
  <2>2. gstep \in Nat /\ ver[v] \in Nat /\ local[w] \in Nat
    BY DEF SyncInv, SyncTypeOK
  <2>3. ver[v] >= gstep + Cardinality(Applied(v)) /\ local[w] <= gstep
    BY DEF SyncInv, UpdatesFirst, NoTokenAhead
  <2> QED
    BY <2>1, <2>2, <2>3
<1> QED
  BY SyncInvariant, <1>1, PTL

---------------------------------------------------------------------------
(* A job does to the queues and variables of synchronous training only     *)
(* what SyncReplicas allows: the barrier holds steps back, it adds none.   *)
THEOREM JobIsSyncTraining == JobSpec => SyncSpec
<1>1. JobInit => SyncInit
  BY DEF JobInit
<1>2. [JobNext]_jobVars => [SyncNext]_syncReplicasVars
  BY DEF JobNext, jobVars, SyncPart, LoopBegins, SessionRecovers, BarrierPart,
         ClearHook, SyncNext
<1> QED
  BY <1>1, <1>2, PTL DEF JobSpec, SyncSpec

(* So the property holds of the job.                                       *)
THEOREM JobReadsNotBehind == JobSpec => []ReadsNotBehind
  BY JobIsSyncTraining, NoReadBehind

---------------------------------------------------------------------------
(* What keeps the workers until the chief exits: the flag file is there    *)
(* only if the chief is gone, who went before anybody else, and a worker   *)
(* is in the barrier only after its loop.                                  *)
FlagInv ==
  /\ bpc \in [Workers -> BarrierPCs] /\ pc \in [Workers -> PCs]
  /\ flagFile => bpc[Chief] = "gone"
  /\ \A w \in Workers : bpc[w] = "gone" => flagFile
  /\ \A w \in Workers : pc[w] # "ended" => bpc[w] \in {"clear", "train"}

(* A worker whose loop has ended does not train again.                     *)
LEMMA EndedForGood ==
  ASSUME SyncTypeOK, NEW w \in Workers,
         Hook(w) \/ TrainOp(w) \/ SyncOp(w) \/ Saver(w) \/ BeginLoop(w) \/ Recover(w)
  PROVE  \A u \in Workers : pc[u] = "ended" => pc'[u] = "ended"
<1>1. pc' = pc \/ (pc[w] # "ended" /\ \E l \in PCs : pc' = [pc EXCEPT ![w] = l])
  BY DEF Hook, TrainOp, SyncOp, Saver, BeginLoop, BeginSave, Recover, CreateSession,
         LocalInit, AssertOpen, EndSync, Compute, OutOfData, Push, TakeToken,
         NoMoreTokens, AfterRun, Attempt, Take, Apply, Advance, Publish, PublishFails,
         FinishSave, AfterRunSave, Restore, Goto, PCs, psVars, workerVars, syncVars
<1> QED
  BY <1>1 DEF SyncTypeOK

(* Every step of the job keeps the flag file in its place.                 *)
LEMMA FlagStep ==
  ASSUME SyncTypeOK, SyncTypeOK', FlagInv, [JobNext]_jobVars
  PROVE  FlagInv'
<1> USE ClusterAssumption
<1>1. pc' \in [Workers -> PCs]
  BY DEF SyncTypeOK
<1>2. CASE UNCHANGED jobVars
  BY <1>2 DEF FlagInv, jobVars, syncReplicasVars, workerVars, barrierVars
<1>3. ASSUME NEW w \in Workers, SyncPart(w) \/ LoopBegins(w) PROVE FlagInv'
  BY <1>1, <1>3, EndedForGood
  DEF FlagInv, SyncPart, LoopBegins, barrierVars
<1>4. ASSUME NEW w \in Workers, SessionRecovers(w) PROVE FlagInv'
  <2>1. bpc[w] \in {"clear", "train"}
    BY <1>4 DEF FlagInv, SessionRecovers, Recover
  <2>2. bpc' = bpc \/ (w = Chief /\ bpc' = [bpc EXCEPT ![w] = "clear"])
    BY <1>4 DEF FlagInv, SessionRecovers
  <2>3. \A u \in Workers : pc[u] = "ended" => pc'[u] = "ended"
    BY <1>4, EndedForGood DEF SessionRecovers
  <2> QED
    BY <1>1, <1>4, <2>1, <2>2, <2>3 DEF FlagInv, SessionRecovers, BarrierPCs
<1>5. CASE ClearHook
  BY <1>1, <1>5
  DEF FlagInv, ClearHook, Clear, Step, BarrierPCs, syncReplicasVars, workerVars
<1>6. ASSUME NEW w \in Workers, BarrierPart(w) PROVE FlagInv'
  <2>1. pc' = pc /\ pc[w] = "ended"
    BY <1>6 DEF BarrierPart, syncReplicasVars, workerVars
  <2>2. CASE \/ EnterBarrier(w) \/ CountIn(w) \/ Poll(w) \/ Recv(w)
             \/ w = Chief /\ Send
    BY <2>1, <2>2
    DEF FlagInv, EnterBarrier, CountIn, Poll, Recv, Send, Step, BarrierPCs
  <2>3. CASE SeeFlagFile(w)
    BY <2>1, <2>3 DEF FlagInv, SeeFlagFile, Step, BarrierPCs
  <2>4. CASE w = Chief /\ WriteFlagFile
    BY <2>1, <2>4 DEF FlagInv, WriteFlagFile, Step, BarrierPCs
  <2> QED
    BY <1>6, <2>2, <2>3, <2>4 DEF BarrierPart, AfterEnd
<1> QED
  BY <1>2, <1>3, <1>4, <1>5, <1>6 DEF JobNext

(* The flag file is in its place throughout the job.                       *)
LEMMA FlagInvariant == JobSpec => []FlagInv
<1>1. JobInit => FlagInv
  BY ClusterAssumption
  DEF JobInit, SyncInit, BarrierInit, FlagInv, BarrierPCs, PCs
<1>2. SyncTypeOK /\ SyncTypeOK' /\ FlagInv /\ [JobNext]_jobVars => FlagInv'
  BY FlagStep
<1>3. JobSpec => []SyncTypeOK
  BY JobIsSyncTraining, SyncTyping
<1> QED
  BY <1>1, <1>2, <1>3, PTL DEF JobSpec

(* No worker's process goes before the chief's, whatever sessions are lost *)
(* and whatever an earlier job left in the exit counter.                   *)
THEOREM ChiefGoesFirst == JobSpec => []ChiefFirst
<1>1. FlagInv => ChiefFirst
  BY DEF FlagInv, ChiefFirst
<1> QED
  BY FlagInvariant, <1>1, PTL

---------------------------------------------------------------------------
(* The account.  While no session is created again, each step's tokens,    *)
(* gradients and averages are counted from one account, which the first    *)
(* worker to end overdraws for good: none is dropped, all variables are    *)
(* updated together, and nothing is applied behind the exit barrier.       *)

Beginning == {"boot", "created", "inited", "hooked"}
Began(w) == pc[w] \notin Beginning

(* A worker that may still push a gradient of v for the step of its token. *)
Holds(w, v) ==
  pc[w] \in Beginning \cup {"save", "step", "hook"} \/ (pc[w] = "push" /\ v \in grads[w])
Holders(v) == {w \in Workers : Holds(w, v)}

(* The sync ops that have an average of v.                                 *)
Takers(v) == {t \in Workers : got[t][v] \in {"taken", "applied"}}

SomeEnded == \E w \in Workers : pc[w] \in {"end", "ended"}

(* A worker is there once: as one that may push, as a token, as a gradient *)
(* or in an average, which takes all of them; a worker that has ended first*)
(* is there no more.                                                       *)
AccountOf(v) ==
  \/ /\ Takers(v) = {}
     /\ Cardinality(Holders(v)) + Len(tokens) + Len(acc[v]) <= NumWorkers
     /\ SomeEnded =>
          Cardinality(Holders(v)) + Len(tokens) + Len(acc[v]) <= NumWorkers - 1
  \/ /\ \E t \in Workers : Takers(v) = {t}
     /\ Holders(v) = {} /\ tokens = <<>> /\ acc[v] = <<>> /\ ~SomeEnded

Account == \A v \in Vars : AccountOf(v)

(* The steps of tokens, gradients and variables.                           *)
HoldersAtStep ==
  \A w \in Workers : \A v \in Vars :
    Holds(w, v) /\ pc[w] \notin {"boot", "created"} => local[w] = gstep
VarsAtStep ==
  \A v \in Vars :
    /\ accStep[v] <= gstep + 1 /\ ver[v] <= gstep + 1
    /\ \A t \in Workers : got[t][v] = "taken" => ver[v] <= gstep
    /\ (\A t \in Takers(v) : sync[t] = "publish") => accStep[v] <= gstep /\ ver[v] <= gstep

InStep ==
  /\ \A i \in DOMAIN tokens : tokens[i] = gstep
  /\ HoldersAtStep /\ VarsAtStep
  /\ \A t \in Workers : sync[t] = "publish" => \A v \in Vars : got[t][v] = "applied"
  /\ closed => SomeEnded
  /\ \A w \in Workers : pc[w] # "push" => grads[w] = {}
  /\ \A t \in Workers : sync[t] # "dead"

AccountInv == recoveries = 0 => Account /\ InStep

(* The steps of the account: no session is lost, none restores.            *)
Undisturbed ==
  /\ recoveries' = recoveries
  /\ \A w \in Workers : ~Recover(w) /\ \A x \in Saved : ~Restore(w, x)

---------------------------------------------------------------------------
(* Facts about the constants and the sets.                                 *)

(* There is a worker, and a variable.                                      *)
LEMMA SomeWorker == NumWorkers \in Nat /\ NumWorkers >= 1 /\ \E v \in Vars : TRUE
<1>1. NumWorkers # 0
  BY ClusterAssumption, FS_EmptySet DEF NumWorkers
<1> QED
  BY <1>1, WorkersCounted, SyncAssumption

(* The holders can be counted.                                             *)
LEMMA HoldersCounted ==
  ASSUME NEW v
  PROVE  /\ IsFiniteSet(Holders(v)) /\ Cardinality(Holders(v)) \in Nat
         /\ IsFiniteSet(Holders(v)') /\ Cardinality(Holders(v)') \in Nat
         /\ Cardinality(Holders(v)) = 0 <=> Holders(v) = {}
  BY ClusterAssumption, FS_Subset, FS_CardinalityType, FS_EmptySet DEF Holders

(* A step that takes nothing from and adds nothing to an account keeps it: *)
(* holders may leave, one of them at least when a worker is the first to   *)
(* end.                                                                    *)
LEMMA AccountKept ==
  ASSUME NEW v \in Vars, SyncTypeOK, AccountOf(v),
         Takers(v)' = Takers(v), tokens' = tokens, acc'[v] = acc[v],
         Holders(v)' \subseteq Holders(v),
         SomeEnded' => SomeEnded \/ Holders(v)' # Holders(v)
  PROVE  AccountOf(v)'
<1> DEFINE Sum == Cardinality(Holders(v)) + Len(tokens) + Len(acc[v])
<1>1. Len(tokens) \in Nat /\ Len(acc[v]) \in Nat /\ NumWorkers \in Nat
  BY WorkersCounted DEF SyncTypeOK
<1>2. /\ Cardinality(Holders(v)) \in Nat /\ Cardinality(Holders(v)') \in Nat
      /\ Cardinality(Holders(v)') <= Cardinality(Holders(v))
      /\ Holders(v)' # Holders(v) => Cardinality(Holders(v)') < Cardinality(Holders(v))
  BY HoldersCounted, FS_Subset
<1>3. CASE Takers(v) = {}
  <2>1. /\ Cardinality(Holders(v)') + Len(tokens') + Len(acc'[v]) <= NumWorkers
        /\ SomeEnded' =>
             Cardinality(Holders(v)') + Len(tokens') + Len(acc'[v]) <= NumWorkers - 1
    BY <1>1, <1>2, <1>3 DEF AccountOf
  <2> QED
    BY <1>3, <2>1 DEF AccountOf
<1>4. CASE Takers(v) # {}
  BY <1>4 DEF AccountOf
<1> QED
  BY <1>3, <1>4

---------------------------------------------------------------------------
(* The account.                                                            *)

(* At first every worker is a holder.                                      *)
LEMMA AccountInit == SyncInit => AccountInv
<1> SUFFICES ASSUME SyncInit PROVE Account /\ InStep
  BY DEF AccountInv
<1>1. ASSUME NEW v \in Vars PROVE AccountOf(v)
  <2>1. Takers(v) = {} /\ ~SomeEnded
    BY <1>1 DEF SyncInit, Takers, Idle, SomeEnded
  <2>2. Holders(v) = Workers
    BY DEF SyncInit, Holders, Holds, Beginning
  <2>3. Len(tokens) = 0 /\ Len(acc[v]) = 0
    BY DEF SyncInit
  <2> QED
    BY <2>1, <2>2, <2>3, WorkersCounted DEF AccountOf, NumWorkers
<1>2. HoldersAtStep
  BY DEF SyncInit, HoldersAtStep
<1>3. VarsAtStep
  BY SyncAssumption DEF SyncInit, VarsAtStep, Idle
<1>4. InStep
  BY <1>2, <1>3 DEF SyncInit, InStep
<1> QED
  BY <1>1, <1>4 DEF Account

(* The steps of the training loop that push nothing and take no token: a   *)
(* worker that leaves its loop as the first one was a holder.              *)
LEMMA AccountLoop ==
  ASSUME SyncTypeOK, RestoreInv, ~rolledBack, Account, InStep, NEW w \in Workers,
         \/ Hook(w) \/ BeginLoop(w) \/ Compute(w) \/ OutOfData(w)
         \/ NoMoreTokens(w) \/ AfterRun(w) \/ FinishSave(w) \/ AfterRunSave(w),
         NEW v \in Vars
  PROVE  AccountOf(v)'
<1> USE DEF Hook, CreateSession, LocalInit, AssertOpen, EndSync, BeginLoop, BeginSave,
            Compute, OutOfData, NoMoreTokens, AfterRun, FinishSave, AfterRunSave, Goto,
            psVars, workerVars, syncVars
<1>0. pc[w] # "restore"
  BY DEF RestoreInv
<1>1. /\ tokens' = tokens /\ acc' = acc /\ got' = got
      /\ \A u \in Workers \ {w} : pc'[u] = pc[u] /\ grads'[u] = grads[u]
  BY DEF SyncTypeOK
<1>2. Takers(v)' = Takers(v)
  BY <1>1 DEF Takers
<1>3. Holds(w, v)' => Holds(w, v)
  <2>1. \/ pc[w] \in Beginning \cup {"save", "step", "hook"}
        \/ pc'[w] \in {"end", "ended", "failed"}
    BY <1>0 DEF Beginning, SyncTypeOK
  <2> QED
    BY <2>1 DEF Holds, Beginning
<1>4. Holders(v)' \subseteq Holders(v)
  BY <1>1, <1>3 DEF Holders, Holds
<1>5. ASSUME SomeEnded', ~SomeEnded PROVE Holders(v)' # Holders(v)
  <2>1. ~closed /\ pc[w] \notin {"end", "ended"}
    BY <1>5 DEF InStep, SomeEnded
  <2>2. PICK u \in Workers : pc'[u] \in {"end", "ended"}
    BY <1>5 DEF SomeEnded
  <2>3. pc'[w] \in {"end", "ended"}
    BY <1>1, <1>5, <2>2 DEF SomeEnded
  <2>4. Holds(w, v) /\ ~Holds(w, v)'
    BY <2>1, <2>3 DEF Holds, SyncTypeOK, Beginning
  <2> QED
    BY <2>4 DEF Holders
<1> QED
  BY <1>1, <1>2, <1>4, <1>5, AccountKept DEF Account

(* A gradient comes from a holder.                                         *)
LEMMA AccountPush ==
  ASSUME SyncTypeOK, Account, NEW w \in Workers, NEW x \in Vars, Push(w, x), NEW v \in Vars
  PROVE  AccountOf(v)'
<1>1. /\ pc' = pc /\ tokens' = tokens /\ got' = got
      /\ grads' = [grads EXCEPT ![w] = @ \ {x}]
      /\ pc[w] = "push" /\ x \in grads[w]
  BY DEF Push, syncVars
<1>2. Takers(v)' = Takers(v) /\ SomeEnded' = SomeEnded
  BY <1>1 DEF Takers, SomeEnded
<1>3. \A y \in Vars : Holders(y)' = IF y = x THEN Holders(y) \ {w} ELSE Holders(y)
  BY <1>1 DEF Holders, Holds, SyncTypeOK, Beginning
<1>4. CASE v # x
  <2>1. acc'[v] = acc[v]
    BY <1>4 DEF Push, SyncTypeOK
  <2> QED
    BY <1>1, <1>2, <1>3, <1>4, <2>1, AccountKept DEF Account
<1>5. CASE v = x
  <2>1. w \in Holders(v)
    BY <1>1, <1>5 DEF Holders, Holds
  <2>2. Takers(v) = {} /\ Takers(v)' = {}
    BY <1>2, <2>1 DEF Account, AccountOf
  <2>3. Cardinality(Holders(v)') = Cardinality(Holders(v)) - 1
    BY <1>3, <1>5, <2>1, HoldersCounted, FS_RemoveElement
  <2>4. Len(acc'[v]) \in Nat /\ Len(acc[v]) \in Nat /\ Len(acc'[v]) <= Len(acc[v]) + 1
    <3>1. acc' = acc \/ \E g : acc' = [acc EXCEPT ![v] = Append(acc[v], g)]
      BY <1>5 DEF Push
    <3>2. acc[v] \in Seq(Grad) /\ acc \in [Vars -> Seq(Grad)]
      BY DEF SyncTypeOK
    <3>3. \A g : Len(Append(acc[v], g)) = Len(acc[v]) + 1
      BY <3>2
    <3> QED
      BY <3>1, <3>2, <3>3
  <2>5. /\ Cardinality(Holders(v)) + Len(tokens) + Len(acc[v]) <= NumWorkers
        /\ SomeEnded => Cardinality(Holders(v)) + Len(tokens) + Len(acc[v]) <= NumWorkers - 1
    BY <2>2 DEF Account, AccountOf
  <2>6. Len(tokens) \in Nat /\ Cardinality(Holders(v)) \in Nat /\ NumWorkers \in Nat
    BY HoldersCounted, WorkersCounted DEF SyncTypeOK
  <2>7. /\ Cardinality(Holders(v)') + Len(tokens') + Len(acc'[v]) <= NumWorkers
        /\ SomeEnded' => Cardinality(Holders(v)') + Len(tokens') + Len(acc'[v]) <= NumWorkers - 1
    <3> DEFINE h == Cardinality(Holders(v))
               a == Len(acc[v])
               b == Len(acc'[v])
               m == Len(tokens)
    <3>1. Cardinality(Holders(v)') = h - 1 /\ tokens' = tokens /\ (SomeEnded' => SomeEnded)
      BY <1>1, <1>2, <2>3
    <3> HIDE DEF h, a, b, m
    <3>2. /\ h \in Nat /\ a \in Nat /\ b \in Nat /\ m \in Nat /\ NumWorkers \in Nat
          /\ b <= a + 1 /\ h + m + a <= NumWorkers /\ (SomeEnded => h + m + a <= NumWorkers - 1)
      BY <2>4, <2>5, <2>6 DEF h, a, b, m
    <3>3. h - 1 + m + b <= NumWorkers /\ (SomeEnded => h - 1 + m + b <= NumWorkers - 1)
      BY <3>2
    <3> QED
      BY <3>1, <3>3 DEF b, m
  <2> QED
    BY <2>2, <2>7 DEF AccountOf
<1> QED
  BY <1>4, <1>5

(* Whoever takes a token is a holder again.                                *)
LEMMA AccountToken ==
  ASSUME SyncTypeOK, Account, NEW w \in Workers, TakeToken(w), NEW v \in Vars
  PROVE  AccountOf(v)'
<1>1. /\ pc' = [pc EXCEPT ![w] = "hook"] /\ acc' = acc /\ got' = got /\ grads' = grads
      /\ pc[w] = "push" /\ grads[w] = {} /\ tokens # <<>> /\ tokens' = Tail(tokens)
  BY DEF TakeToken, Goto, syncVars
<1>2. Takers(v)' = Takers(v) /\ Takers(v) = {}
  BY <1>1 DEF Takers, Account, AccountOf
<1>3. SomeEnded' = SomeEnded
  BY <1>1 DEF SomeEnded, SyncTypeOK
<1>4. Holders(v)' = Holders(v) \cup {w} /\ w \notin Holders(v)
  BY <1>1 DEF Holders, Holds, SyncTypeOK, Beginning
<1>5. Cardinality(Holders(v)') = Cardinality(Holders(v)) + 1
  BY <1>4, HoldersCounted, FS_AddElement
<1>6. Len(tokens) \in Nat /\ Len(tokens') = Len(tokens) - 1
  BY <1>1 DEF SyncTypeOK
<1>7. Len(acc[v]) \in Nat /\ NumWorkers \in Nat /\ Cardinality(Holders(v)) \in Nat
  BY HoldersCounted, WorkersCounted DEF SyncTypeOK
<1>8. /\ Cardinality(Holders(v)) + Len(tokens) + Len(acc[v]) <= NumWorkers
      /\ SomeEnded => Cardinality(Holders(v)) + Len(tokens) + Len(acc[v]) <= NumWorkers - 1
  BY <1>2 DEF Account, AccountOf
<1>9. /\ Cardinality(Holders(v)') + Len(tokens') + Len(acc'[v]) <= NumWorkers
      /\ SomeEnded' => Cardinality(Holders(v)') + Len(tokens') + Len(acc'[v]) <= NumWorkers - 1
  BY <1>1, <1>3, <1>5, <1>6, <1>7, <1>8
<1> QED
  BY <1>2, <1>9 DEF AccountOf

(* An average takes the whole account.                                     *)
LEMMA AccountTake ==
  ASSUME SyncTypeOK, Account, NEW t \in Workers, NEW x \in Vars, Take(t, x), NEW v \in Vars
  PROVE  AccountOf(v)'
<1>1. /\ pc' = pc /\ grads' = grads /\ tokens' = tokens
      /\ acc' = [acc EXCEPT ![x] = <<>>]
      /\ got' = [got EXCEPT ![t][x] = "taken"]
      /\ Len(acc[x]) >= NumWorkers
  BY DEF Take, Enough, workerVars
<1>2. SomeEnded' = SomeEnded /\ Holders(v)' = Holders(v)
  BY <1>1 DEF SomeEnded, Holders, Holds
<1>3. CASE v # x
  <2>1. acc'[v] = acc[v] /\ \A u \in Workers : got'[u][v] = got[u][v]
    BY <1>1, <1>3 DEF SyncTypeOK
  <2>2. Takers(v)' = Takers(v)
    BY <2>1 DEF Takers
  <2> QED
    BY <1>1, <1>2, <2>1, <2>2, AccountKept DEF Account
<1>4. CASE v = x
  <2>1. Len(acc[v]) \in Nat /\ Len(tokens) \in Nat /\ Cardinality(Holders(v)) \in Nat
    BY HoldersCounted DEF SyncTypeOK
  <2>2. Takers(v) = {}
    BY <1>1, <1>4, SomeWorker DEF Account, AccountOf
  <2>3. Cardinality(Holders(v)) = 0 /\ Len(tokens) = 0 /\ ~SomeEnded
    BY <1>1, <1>4, <2>1, <2>2, SomeWorker DEF Account, AccountOf
  <2>4. Holders(v) = {} /\ tokens = <<>>
    BY <2>3, HoldersCounted, EmptySeq DEF SyncTypeOK
  <2>5. got'[t][v] = "taken" /\ \A u \in Workers \ {t} : got'[u][v] = got[u][v]
    BY <1>1, <1>4 DEF SyncTypeOK
  <2>6. Takers(v)' = {t}
    BY <2>2, <2>5 DEF Takers
  <2>7. acc'[v] = <<>>
    BY <1>1, <1>4 DEF SyncTypeOK
  <2> QED
    BY <1>1, <1>2, <2>3, <2>4, <2>6, <2>7 DEF AccountOf
<1> QED
  BY <1>3, <1>4

(* The other steps of a sync op on the way to its tokens.                  *)
LEMMA AccountSync ==
  ASSUME SyncTypeOK, Account, NEW t \in Workers,
         Advance(t) \/ \E x \in Vars : Attempt(t, x) \/ Apply(t, x),
         NEW v \in Vars
  PROVE  AccountOf(v)'
<1>1. pc' = pc /\ grads' = grads /\ tokens' = tokens /\ acc' = acc
  BY DEF Advance, Attempt, Apply, workerVars
<1>2. Takers(v)' = Takers(v)
  <2>1. CASE Advance(t)
    BY <2>1 DEF Advance, Takers
  <2>2. ASSUME NEW x \in Vars, Attempt(t, x) \/ Apply(t, x) PROVE Takers(v)' = Takers(v)
    <3>1. \/ got[t][x] = "no" /\ got' = [got EXCEPT ![t][x] = "waiting"]
          \/ got[t][x] = "taken" /\ got' = [got EXCEPT ![t][x] = "applied"]
      BY <2>2 DEF Attempt, Apply
    <3>2. \A u \in Workers : got'[u][v] \in {"taken", "applied"} <=> got[u][v] \in {"taken", "applied"}
      <4>1. CASE got[t][x] = "no" /\ got' = [got EXCEPT ![t][x] = "waiting"]
        BY <4>1 DEF SyncTypeOK
      <4>2. CASE got[t][x] = "taken" /\ got' = [got EXCEPT ![t][x] = "applied"]
        BY <4>2 DEF SyncTypeOK
      <4> QED
        BY <3>1, <4>1, <4>2
    <3> QED
      BY <3>2 DEF Takers
  <2> QED
    BY <2>1, <2>2
<1> QED
  BY <1>1, <1>2, AccountKept DEF Account, SomeEnded, Holders, Holds

(* An average becomes a token for each worker.                             *)
LEMMA AccountPublish ==
  ASSUME SyncTypeOK, Account, InStep, NEW t \in Workers, Publish(t), NEW v \in Vars
  PROVE  AccountOf(v)'
<1>1. /\ pc' = pc /\ grads' = grads /\ acc' = acc
      /\ tokens' = tokens \o [i \in 1..NumWorkers |-> gstep]
      /\ sync[t] = "publish" /\ got' = [got EXCEPT ![t] = Idle]
  BY DEF Publish, workerVars
<1>2. t \in Takers(v)
  BY <1>1 DEF InStep, Takers
<1>3. /\ Takers(v) = {t} /\ Holders(v) = {} /\ tokens = <<>> /\ acc[v] = <<>> /\ ~SomeEnded
  BY <1>2 DEF Account, AccountOf
<1>4. Takers(v)' = {}
  BY <1>1, <1>3 DEF Takers, SyncTypeOK, Idle
<1>5. Holders(v)' = {} /\ ~SomeEnded'
  BY <1>1, <1>3 DEF Holders, Holds, SomeEnded
<1>6. Len(tokens') = NumWorkers /\ Len(acc'[v]) = 0
  <2> DEFINE new == [i \in 1..NumWorkers |-> gstep]
  <2>1. new \in Seq(Nat) /\ Len(new) = NumWorkers
    BY SomeWorker DEF SyncTypeOK
  <2>2. tokens' = <<>> \o new /\ acc'[v] = <<>>
    BY <1>1, <1>3
  <2> HIDE DEF new
  <2>3. Len(<<>> \o new) = NumWorkers
    BY <2>1
  <2>4. Len(acc'[v]) = 0
    BY <2>2
  <2> QED
    BY <2>2, <2>3, <2>4
<1>7. Cardinality(Holders(v)') = 0
  BY <1>5, FS_EmptySet
<1> QED
  BY <1>4, <1>5, <1>6, <1>7, SomeWorker DEF AccountOf

(* Every step of the training, a lost session apart.                       *)
LEMMA AccountStep ==
  ASSUME SyncTypeOK, RestoreInv, ~rolledBack, Account, InStep, [SyncNext]_syncReplicasVars,
         Undisturbed
  PROVE  Account'
<1> SUFFICES ASSUME NEW v \in Vars PROVE AccountOf(v)'
  BY DEF Account
<1>1. CASE UNCHANGED syncReplicasVars
  BY <1>1, AccountKept
  DEF Account, syncReplicasVars, psVars, workerVars, syncVars, sessionVars, Takers, Holders, Holds, SomeEnded
<1>2. ASSUME NEW w \in Workers, Hook(w) \/ BeginLoop(w) PROVE AccountOf(v)'
  BY <1>2, AccountLoop
<1>3. ASSUME NEW w \in Workers, TrainOp(w) PROVE AccountOf(v)'
  BY <1>3, AccountLoop, AccountPush, AccountToken DEF TrainOp
<1>4. ASSUME NEW t \in Workers, SyncOp(t) PROVE AccountOf(v)'
  <2>1. CASE PublishFails(t)
    BY <2>1, SomeWorker
    DEF PublishFails, InStep, Account, AccountOf, Takers
  <2> QED
    BY <1>4, <2>1, AccountSync, AccountTake, AccountPublish DEF SyncOp
<1>5. ASSUME NEW w \in Workers, Saver(w) PROVE AccountOf(v)'
  BY <1>5, AccountLoop DEF Saver, Undisturbed
<1> QED
  BY <1>1, <1>2, <1>3, <1>4, <1>5 DEF SyncNext, Undisturbed

---------------------------------------------------------------------------
(* The steps.                                                              *)

(* While there is a holder no sync op has an average, of any variable.     *)
LEMMA NoneTakenWhileHeld ==
  ASSUME SyncTypeOK, Account, NEW w \in Workers, NEW v \in Vars, Holds(w, v)
  PROVE  /\ Takers(v) = {}
         /\ pc[w] # "push" => \A x \in Vars : Takers(x) = {}
<1>1. \A x \in Vars : Holds(w, x) => Takers(x) = {}
  BY DEF Account, AccountOf, Holders
<1> QED
  BY <1>1 DEF Holds

(* The step of a holder, and those of the tokens: they are the global step,*)
(* which waits for the averages, that is until nobody holds it.            *)
LEMMA TokensAtStep ==
  ASSUME SyncTypeOK, RestoreInv, ~rolledBack, Account, InStep, [SyncNext]_syncReplicasVars,
         Undisturbed
  PROVE  /\ \A i \in DOMAIN tokens' : tokens'[i] = gstep'
         /\ HoldersAtStep'
<1> USE DEF psVars, workerVars, syncVars, sessionVars, syncReplicasVars
<1>1. ASSUME gstep' = gstep, tokens' = tokens, local' = local,
             \A w \in Workers : \A v \in Vars :
               /\ Holds(w, v)' => Holds(w, v)
               /\ pc[w] \in {"boot", "created"} => pc'[w] \in {"boot", "created"}
      PROVE  (\A i \in DOMAIN tokens' : tokens'[i] = gstep') /\ HoldersAtStep'
  BY <1>1 DEF InStep, HoldersAtStep
<1>2. CASE UNCHANGED syncReplicasVars
  BY <1>1, <1>2 DEF Holds
<1>3. ASSUME NEW w \in Workers, CreateSession(w) \/ AssertOpen(w) \/ EndSync(w) \/ BeginLoop(w)
      PROVE  (\A i \in DOMAIN tokens' : tokens'[i] = gstep') /\ HoldersAtStep'
  BY <1>1, <1>3
  DEF CreateSession, AssertOpen, EndSync, BeginLoop, BeginSave, Goto, Holds, Beginning,
      RestoreInv, SyncTypeOK
<1>4. ASSUME NEW w \in Workers, LocalInit(w)
      PROVE  (\A i \in DOMAIN tokens' : tokens'[i] = gstep') /\ HoldersAtStep'
  <2>1. /\ gstep' = gstep /\ tokens' = tokens /\ grads' = grads
        /\ local' = [local EXCEPT ![w] = gstep] /\ pc' = [pc EXCEPT ![w] = "inited"]
    BY <1>4 DEF LocalInit, Goto
  <2>2. ASSUME NEW u \in Workers, NEW v \in Vars, Holds(u, v)', pc'[u] \notin {"boot", "created"}
        PROVE  local'[u] = gstep'
    <3>1. CASE u = w
      BY <2>1, <3>1 DEF SyncTypeOK
    <3>2. CASE u # w
      <4>1. pc'[u] = pc[u] /\ local'[u] = local[u]
        BY <2>1, <3>2 DEF SyncTypeOK
      <4> QED
        BY <2>1, <2>2, <4>1 DEF InStep, HoldersAtStep, Holds
    <3> QED
      BY <3>1, <3>2
  <2> QED
    BY <2>1, <2>2 DEF InStep, HoldersAtStep
<1>5. ASSUME NEW w \in Workers, Compute(w) \/ OutOfData(w) \/ NoMoreTokens(w) \/ AfterRun(w)
      PROVE  (\A i \in DOMAIN tokens' : tokens'[i] = gstep') /\ HoldersAtStep'
  BY <1>1, <1>5
  DEF Compute, OutOfData, NoMoreTokens, AfterRun, Goto, Holds, Beginning, SyncTypeOK
<1>6. ASSUME NEW w \in Workers, NEW x \in Vars, Push(w, x)
      PROVE  (\A i \in DOMAIN tokens' : tokens'[i] = gstep') /\ HoldersAtStep'
  BY <1>1, <1>6 DEF Push, Holds, Beginning, SyncTypeOK
<1>7. ASSUME NEW w \in Workers, TakeToken(w)
      PROVE  (\A i \in DOMAIN tokens' : tokens'[i] = gstep') /\ HoldersAtStep'
  <2>1. /\ gstep' = gstep /\ grads' = grads /\ tokens # <<>> /\ tokens' = Tail(tokens)
        /\ local' = [local EXCEPT ![w] = Head(tokens)] /\ pc' = [pc EXCEPT ![w] = "hook"]
    BY <1>7 DEF TakeToken, Goto
  <2>2. Head(tokens) = gstep /\ \A i \in DOMAIN tokens' : tokens'[i] = gstep'
    BY <2>1, TakenFromQueue DEF InStep, SyncTypeOK
  <2>3. ASSUME NEW u \in Workers, NEW v \in Vars, Holds(u, v)', pc'[u] \notin {"boot", "created"}
        PROVE  local'[u] = gstep'
    <3>1. CASE u = w
      BY <2>1, <2>2, <3>1 DEF SyncTypeOK
    <3>2. CASE u # w
      <4>1. pc'[u] = pc[u] /\ local'[u] = local[u]
        BY <2>1, <3>2 DEF SyncTypeOK
      <4> QED
        BY <2>1, <2>3, <4>1 DEF InStep, HoldersAtStep, Holds
    <3> QED
      BY <3>1, <3>2
  <2> QED
    BY <2>2, <2>3 DEF HoldersAtStep
<1>8. ASSUME NEW t \in Workers,
             \/ PublishFails(t)
             \/ \E x \in Vars : Attempt(t, x) \/ Take(t, x) \/ Apply(t, x)
      PROVE  (\A i \in DOMAIN tokens' : tokens'[i] = gstep') /\ HoldersAtStep'
  BY <1>1, <1>8 DEF PublishFails, Attempt, Take, Apply, Holds
<1>9. ASSUME NEW t \in Workers, Advance(t)
      PROVE  (\A i \in DOMAIN tokens' : tokens'[i] = gstep') /\ HoldersAtStep'
  <2>1. tokens' = tokens /\ pc' = pc /\ grads' = grads /\ \A v \in Vars : t \in Takers(v)
    BY <1>9 DEF Advance, Takers
  <2>2. tokens = <<>> /\ \A v \in Vars : Holders(v) = {}
    BY <2>1, SomeWorker DEF Account, AccountOf
  <2> QED
    BY <2>1, <2>2 DEF HoldersAtStep, Holders, Holds
<1>10. ASSUME NEW t \in Workers, Publish(t)
       PROVE  (\A i \in DOMAIN tokens' : tokens'[i] = gstep') /\ HoldersAtStep'
  <2>1. /\ gstep' = gstep /\ pc' = pc /\ grads' = grads /\ local' = local
        /\ tokens' = tokens \o [i \in 1..NumWorkers |-> gstep]
    BY <1>10 DEF Publish
  <2>2. \A i \in DOMAIN tokens' : tokens'[i] = gstep
    <3> DEFINE new == [i \in 1..NumWorkers |-> gstep]
    <3>1. new \in Seq(Nat) /\ Len(new) = NumWorkers /\ \A i \in 1..NumWorkers : new[i] = gstep
      BY SomeWorker DEF SyncTypeOK
    <3> HIDE DEF new
    <3>2. tokens \in Seq(Nat) /\ tokens' = tokens \o new /\ \A i \in 1..Len(tokens) : tokens[i] = gstep
      BY <2>1 DEF SyncTypeOK, InStep, new
    <3> QED
      BY <3>1, <3>2
  <2> QED
    BY <2>1, <2>2 DEF InStep, HoldersAtStep, Holds
<1>11. ASSUME NEW w \in Workers, FinishSave(w) \/ AfterRunSave(w)
       PROVE  (\A i \in DOMAIN tokens' : tokens'[i] = gstep') /\ HoldersAtStep'
  BY <1>1, <1>11
  DEF FinishSave, AfterRunSave, BeginSave, Goto, Holds, Beginning, SyncTypeOK
<1> QED
  BY <1>2, <1>3, <1>4, <1>5, <1>6, <1>7, <1>8, <1>9, <1>10, <1>11
  DEF SyncNext, Hook, TrainOp, SyncOp, Saver, Undisturbed

(* The steps of the accumulators and variables: an average is taken only   *)
(* where none is taken yet, and applied once.                              *)
LEMMA VarsStep ==
  ASSUME SyncInv, Account, InStep, [SyncNext]_syncReplicasVars,
         Undisturbed
  PROVE  VarsAtStep'
<1> USE DEF psVars, workerVars, syncVars, sessionVars, syncReplicasVars
<1>t. SyncTypeOK
  BY DEF SyncInv
<1> SUFFICES ASSUME NEW v \in Vars
             PROVE  /\ accStep'[v] <= gstep' + 1 /\ ver'[v] <= gstep' + 1
                    /\ \A t \in Workers : got'[t][v] = "taken" => ver'[v] <= gstep'
                    /\ (\A t \in Takers(v)' : sync'[t] = "publish") =>
                         accStep'[v] <= gstep' /\ ver'[v] <= gstep'
  BY DEF VarsAtStep
<1> DEFINE Fine == /\ accStep'[v] <= gstep' + 1 /\ ver'[v] <= gstep' + 1
                   /\ \A t \in Workers : got'[t][v] = "taken" => ver'[v] <= gstep'
                   /\ (\A t \in Takers(v)' : sync'[t] = "publish") =>
                        accStep'[v] <= gstep' /\ ver'[v] <= gstep'
<1>0. /\ gstep \in Nat /\ ver[v] \in Nat /\ accStep[v] \in Nat
      /\ accStep[v] <= gstep + 1 /\ ver[v] <= gstep + 1
      /\ \A t \in Workers : got[t][v] = "taken" => ver[v] <= gstep
      /\ (\A t \in Takers(v) : sync[t] = "publish") => accStep[v] <= gstep /\ ver[v] <= gstep
  BY <1>t DEF InStep, VarsAtStep, SyncTypeOK
<1>1. ASSUME gstep' = gstep, ver'[v] = ver[v], accStep'[v] = accStep[v],
             \A t \in Workers : got'[t][v] = "taken" => got[t][v] = "taken",
             Takers(v)' = Takers(v),
             \A t \in Workers : sync'[t] = "publish" => sync[t] = "publish"
      PROVE  Fine
  BY <1>0, <1>1 DEF Takers
<1>2. CASE UNCHANGED syncReplicasVars
  BY <1>1, <1>2 DEF Takers
<1>3. ASSUME NEW w \in Workers, CreateSession(w) \/ AssertOpen(w) \/ EndSync(w) \/ BeginLoop(w)
      PROVE  Fine
  BY <1>t, <1>1, <1>3 DEF CreateSession, AssertOpen, EndSync, BeginLoop, Takers, SyncTypeOK
<1>4. ASSUME NEW w \in Workers, LocalInit(w) PROVE Fine
  <2>1. Takers(v) = {}
    BY <1>t, <1>4, NoneTakenWhileHeld DEF LocalInit, Holds, Beginning
  <2>2. got' = got /\ sync' = sync /\ gstep' = gstep /\ ver' = ver
    BY <1>4 DEF LocalInit
  <2>3. accStep'[v] = gstep \/ accStep'[v] = accStep[v]
    BY <1>4 DEF LocalInit
  <2> QED
    BY <1>0, <2>1, <2>2, <2>3 DEF Takers
<1>5. ASSUME NEW w \in Workers, TrainOp(w) PROVE Fine
  BY <1>1, <1>5
  DEF TrainOp, Compute, OutOfData, Push, TakeToken, NoMoreTokens, AfterRun, Takers
<1>6. ASSUME NEW t \in Workers, NEW x \in Vars, Attempt(t, x) PROVE Fine
  <2>1. got[t][x] = "no" /\ got' = [got EXCEPT ![t][x] = "waiting"]
    BY <1>6 DEF Attempt
  <2>2. \A u \in Workers : \A k \in {"taken", "applied"} : got'[u][v] = k <=> got[u][v] = k
    BY <1>t, <2>1 DEF SyncTypeOK
  <2>3. Takers(v)' = Takers(v)
    BY <2>2 DEF Takers
  <2> QED
    BY <1>1, <1>6, <2>2, <2>3 DEF Attempt
<1>7. ASSUME NEW t \in Workers, NEW x \in Vars, Take(t, x) PROVE Fine
  <2>1. /\ got' = [got EXCEPT ![t][x] = "taken"] /\ accStep' = [accStep EXCEPT ![x] = @ + 1]
        /\ gstep' = gstep /\ ver' = ver /\ sync' = sync /\ Len(acc[x]) >= NumWorkers
    BY <1>7 DEF Take, Enough
  <2>2. CASE x # v
    <3>1. accStep'[v] = accStep[v] /\ \A u \in Workers : got'[u][v] = got[u][v]
      BY <1>t, <2>1, <2>2 DEF SyncTypeOK
    <3> QED
      BY <1>1, <2>1, <3>1 DEF Takers
  <2>3. CASE x = v
    <3>1. Takers(v) = {}
      BY <2>1, <2>3, SomeWorker DEF Account, AccountOf
    <3>2. accStep[v] <= gstep /\ ver[v] <= gstep
      BY <1>0, <3>1
    <3>3. accStep'[v] = accStep[v] + 1 /\ got'[t][v] = "taken"
      BY <1>t, <2>1, <2>3 DEF SyncTypeOK
    <3>4. sync[t] # "publish"
      BY <3>1 DEF InStep, Takers
    <3>5. t \in Takers(v)' /\ sync'[t] # "publish"
      BY <2>1, <3>3, <3>4 DEF Takers
    <3> QED
      BY <1>0, <2>1, <3>2, <3>3, <3>5
  <2> QED
    BY <2>2, <2>3
<1>8. ASSUME NEW t \in Workers, NEW x \in Vars, Apply(t, x) PROVE Fine
  <2>1. /\ got' = [got EXCEPT ![t][x] = "applied"] /\ ver' = [ver EXCEPT ![x] = @ + 1]
        /\ gstep' = gstep /\ accStep' = accStep /\ sync' = sync
        /\ sync[t] = "run" /\ got[t][x] = "taken"
    BY <1>8 DEF Apply
  <2>2. CASE x # v
    <3>1. ver'[v] = ver[v] /\ \A u \in Workers : got'[u][v] = got[u][v]
      BY <1>t, <2>1, <2>2 DEF SyncTypeOK
    <3> QED
      BY <1>1, <2>1, <3>1 DEF Takers
  <2>3. CASE x = v
    <3>1. Takers(v) = {t}
      BY <2>1, <2>3 DEF Account, AccountOf, Takers
    <3>2. ver'[v] = ver[v] + 1 /\ got'[t][v] = "applied"
      BY <1>t, <2>1, <2>3 DEF SyncTypeOK
    <3>3. \A u \in Workers \ {t} : got'[u][v] = got[u][v] /\ got[u][v] # "taken"
      BY <1>t, <2>1, <2>3, <3>1 DEF SyncTypeOK, Takers
    <3>4. t \in Takers(v)' /\ sync'[t] # "publish"
      BY <2>1, <3>2 DEF Takers
    <3> QED
      BY <1>0, <2>1, <2>3, <3>2, <3>3, <3>4
  <2> QED
    BY <2>2, <2>3
<1>9. ASSUME NEW t \in Workers, Advance(t) PROVE Fine
  <2>1. gstep' = gstep + 1 /\ ver' = ver /\ accStep' = accStep
    BY <1>9 DEF Advance
  <2> QED
    BY <1>0, <2>1
<1>10. ASSUME NEW t \in Workers, Publish(t) PROVE Fine
  <2>1. /\ got' = [got EXCEPT ![t] = Idle] /\ sync[t] = "publish"
        /\ gstep' = gstep /\ ver' = ver /\ accStep' = accStep
    BY <1>10 DEF Publish
  <2>2. t \in Takers(v)
    BY <2>1 DEF InStep, Takers
  <2>3. Takers(v) = {t}
    BY <2>2 DEF Account, AccountOf
  <2>4. accStep[v] <= gstep /\ ver[v] <= gstep
    BY <1>0, <2>1, <2>3
  <2> QED
    BY <1>0, <2>1, <2>4
<1>11. ASSUME NEW t \in Workers, PublishFails(t) PROVE Fine
  BY <1>11, SomeWorker DEF PublishFails, InStep, Account, AccountOf, Takers
<1>12. ASSUME NEW w \in Workers, FinishSave(w) \/ AfterRunSave(w) PROVE Fine
  BY <1>1, <1>12 DEF FinishSave, AfterRunSave, Takers
<1> QED
  BY <1>2, <1>3, <1>4, <1>5, <1>6, <1>7, <1>8, <1>9, <1>10, <1>11, <1>12
  DEF SyncNext, Hook, SyncOp, Saver, Undisturbed

(* Tokens are published by a sync op that has applied everything, and the  *)
(* queue is closed by a worker that has ended.                             *)
LEMMA PublishStep ==
  ASSUME SyncTypeOK, Account, InStep, [SyncNext]_syncReplicasVars,
         Undisturbed
  PROVE  /\ \A t \in Workers : sync'[t] = "publish" => \A v \in Vars : got'[t][v] = "applied"
         /\ closed' => SomeEnded'
<1> USE DEF psVars, workerVars, syncVars, sessionVars, syncReplicasVars
<1> DEFINE Fine == /\ \A t \in Workers : sync'[t] = "publish" =>
                                          \A v \in Vars : got'[t][v] = "applied"
                   /\ closed' => SomeEnded'
<1>1. ASSUME pc' = pc, closed' = closed,
             \A t \in Workers : sync'[t] = "publish" =>
               sync[t] = "publish" /\ \A v \in Vars : got[t][v] = "applied" => got'[t][v] = "applied"
      PROVE  Fine
  BY <1>1 DEF InStep, SomeEnded
<1>2. ASSUME got' = got, closed' = closed,
             \A t \in Workers : sync'[t] = "publish" => sync[t] = "publish",
             \A w \in Workers : pc[w] \in {"end", "ended"} => pc'[w] \in {"end", "ended"}
      PROVE  Fine
  BY <1>2 DEF InStep, SomeEnded
<1>3. CASE UNCHANGED syncReplicasVars
  BY <1>1, <1>3
<1>4. ASSUME NEW w \in Workers, CreateSession(w) \/ LocalInit(w) \/ AssertOpen(w) \/ BeginLoop(w)
      PROVE  Fine
  BY <1>2, <1>4
  DEF CreateSession, LocalInit, AssertOpen, BeginLoop, BeginSave, Goto, SyncTypeOK
<1>5. ASSUME NEW w \in Workers, EndSync(w) PROVE Fine
  <2>1. pc'[w] = "ended" /\ got' = got /\ sync' = sync
    BY <1>5 DEF EndSync, Goto, SyncTypeOK
  <2> QED
    BY <2>1 DEF InStep, SomeEnded
<1>6. ASSUME NEW w \in Workers, TrainOp(w) PROVE Fine
  BY <1>2, <1>6
  DEF TrainOp, Compute, OutOfData, Push, TakeToken, NoMoreTokens, AfterRun, Goto, SyncTypeOK
<1>7. ASSUME NEW t \in Workers, NEW x \in Vars, Attempt(t, x) \/ Take(t, x) \/ Apply(t, x)
      PROVE  Fine
  <2>1. sync' = sync /\ pc' = pc /\ closed' = closed /\ \E k : got' = [got EXCEPT ![t][x] = k]
    BY <1>7 DEF Attempt, Take, Apply
  <2>2. sync[t] # "publish"
    <3>1. CASE Take(t, x)
      BY <3>1, SomeWorker DEF Take, Enough, InStep, Account, AccountOf, Takers
    <3>2. CASE Attempt(t, x) \/ Apply(t, x)
      BY <3>2 DEF Attempt, Apply
    <3> QED
      BY <1>7, <3>1, <3>2
  <2>3. \A u \in Workers \ {t} : got'[u] = got[u]
    BY <2>1 DEF SyncTypeOK
  <2> QED
    BY <1>1, <2>1, <2>2, <2>3
<1>8. ASSUME NEW t \in Workers, Advance(t) PROVE Fine
  <2>1. /\ sync' = [sync EXCEPT ![t] = "publish"] /\ got' = got /\ pc' = pc /\ closed' = closed
        /\ \A v \in Vars : got[t][v] = "applied"
    BY <1>8 DEF Advance
  <2> QED
    BY <2>1 DEF InStep, SomeEnded, SyncTypeOK
<1>9. ASSUME NEW t \in Workers, Publish(t) PROVE Fine
  <2>1. /\ sync' = [sync EXCEPT ![t] = "run"] /\ got' = [got EXCEPT ![t] = Idle]
        /\ pc' = pc /\ closed' = closed
    BY <1>9 DEF Publish
  <2>2. \A u \in Workers : sync'[u] = "publish" => u # t /\ sync[u] = "publish" /\ got'[u] = got[u]
    BY <2>1 DEF SyncTypeOK
  <2> QED
    BY <1>1, <2>1, <2>2
<1>10. ASSUME NEW t \in Workers, PublishFails(t) PROVE Fine
  BY <1>1, <1>10 DEF PublishFails, SyncTypeOK
<1>11. ASSUME NEW w \in Workers, FinishSave(w) \/ AfterRunSave(w) PROVE Fine
  BY <1>2, <1>11 DEF FinishSave, AfterRunSave, BeginSave, Goto, SyncTypeOK
<1> QED
  BY <1>3, <1>4, <1>5, <1>6, <1>7, <1>8, <1>9, <1>10, <1>11
  DEF SyncNext, Hook, SyncOp, Saver, Undisturbed

(* A session lost is not forgotten; until one is, nothing disturbs.        *)
LEMMA RecoveriesGrow ==
  ASSUME SyncTypeOK, RestoreInv, [SyncNext]_syncReplicasVars, recoveries' = 0
  PROVE  recoveries = 0 /\ ~rolledBack /\ Undisturbed
<1>1. ASSUME NEW w \in Workers, Hook(w) \/ BeginLoop(w) \/ TrainOp(w) \/ SyncOp(w) \/ Saver(w)
      PROVE  recoveries' = recoveries
  BY <1>1
  DEF Hook, TrainOp, SyncOp, Saver, CreateSession, LocalInit, AssertOpen, EndSync, BeginLoop,
      Compute, OutOfData, Push, TakeToken, NoMoreTokens, AfterRun, Attempt, Take, Apply,
      Advance, Publish, PublishFails, FinishSave, AfterRunSave, Restore, sessionVars
<1>2. ASSUME NEW w \in Workers PROVE ~Recover(w)
  BY DEF Recover, SyncTypeOK
<1>3. recoveries = 0 /\ ~rolledBack
  BY <1>1, <1>2 DEF SyncNext, syncReplicasVars, sessionVars, RestoreInv
<1> QED
  BY <1>2, <1>3 DEF Undisturbed, RestoreInv, Restore

(* No queue runner dies: the queue is not closed before it publishes.      *)
LEMMA AliveStep ==
  ASSUME SyncTypeOK, Account, InStep, [SyncNext]_syncReplicasVars, Undisturbed
  PROVE  \A t \in Workers : sync'[t] # "dead"
<1> USE DEF psVars, workerVars, syncVars, sessionVars, syncReplicasVars
<1>1. CASE UNCHANGED syncReplicasVars
  BY <1>1 DEF InStep
<1>2. ASSUME NEW w \in Workers, Hook(w) \/ BeginLoop(w) \/ TrainOp(w) \/ Saver(w)
      PROVE  \A t \in Workers : sync'[t] # "dead"
  BY <1>2
  DEF Hook, CreateSession, LocalInit, AssertOpen, EndSync, BeginLoop, TrainOp, Compute,
      OutOfData, Push, TakeToken, NoMoreTokens, AfterRun, Saver, FinishSave, AfterRunSave,
      Restore, InStep, SyncTypeOK
<1>3. ASSUME NEW u \in Workers, SyncOp(u) PROVE \A t \in Workers : sync'[t] # "dead"
  <2>1. ~PublishFails(u)
    BY SomeWorker DEF PublishFails, InStep, Account, AccountOf, Takers
  <2> QED
    BY <1>3, <2>1 DEF SyncOp, Attempt, Take, Apply, Advance, Publish, InStep, SyncTypeOK
<1> QED
  BY <1>1, <1>2, <1>3 DEF SyncNext, Undisturbed

(* Only a worker that is pushing has gradients to push.                    *)
LEMMA GradsStep ==
  ASSUME SyncTypeOK, [SyncNext]_syncReplicasVars,
         \A w \in Workers : pc[w] # "push" => grads[w] = {}
  PROVE  \A w \in Workers : pc'[w] # "push" => grads'[w] = {}
<1> USE DEF psVars, workerVars, syncVars, sessionVars, syncReplicasVars
<1>1. CASE UNCHANGED syncReplicasVars
  BY <1>1
<1>2. ASSUME NEW w \in Workers, Hook(w) \/ BeginLoop(w) \/ Saver(w) \/ Recover(w)
      PROVE  \A u \in Workers : pc'[u] # "push" => grads'[u] = {}
  BY <1>2
  DEF Hook, CreateSession, LocalInit, AssertOpen, EndSync, BeginLoop, BeginSave, Saver,
      FinishSave, AfterRunSave, Restore, Recover, Goto, SyncTypeOK
<1>3. ASSUME NEW w \in Workers, TrainOp(w)
      PROVE  \A u \in Workers : pc'[u] # "push" => grads'[u] = {}
  <2>1. CASE Compute(w)
    BY <2>1 DEF Compute, Goto, SyncTypeOK
  <2>2. ASSUME NEW v \in Vars, Push(w, v)
        PROVE  \A u \in Workers : pc'[u] # "push" => grads'[u] = {}
    BY <2>2 DEF Push, SyncTypeOK
  <2>3. CASE OutOfData(w) \/ TakeToken(w) \/ NoMoreTokens(w) \/ AfterRun(w)
    BY <2>3 DEF OutOfData, TakeToken, NoMoreTokens, AfterRun, Goto, SyncTypeOK
  <2> QED
    BY <1>3, <2>1, <2>2, <2>3 DEF TrainOp
<1>4. ASSUME NEW t \in Workers, SyncOp(t)
      PROVE  \A u \in Workers : pc'[u] # "push" => grads'[u] = {}
  BY <1>4 DEF SyncOp, Attempt, Take, Apply, Advance, Publish, PublishFails
<1> QED
  BY <1>1, <1>2, <1>3, <1>4 DEF SyncNext

(* While no session was lost the account is kept, and with it the steps.   *)
THEOREM AccountInvariant == SyncSpec => []AccountInv
<1>1. SyncInv /\ AccountInv /\ [SyncNext]_syncReplicasVars => AccountInv'
  <2> SUFFICES ASSUME SyncInv, AccountInv, [SyncNext]_syncReplicasVars, recoveries' = 0
               PROVE  Account' /\ InStep'
    BY DEF AccountInv
  <2>1. SyncTypeOK /\ RestoreInv /\ recoveries = 0 /\ ~rolledBack /\ Undisturbed
    BY RecoveriesGrow DEF SyncInv
  <2>2. Account /\ InStep
    BY <2>1 DEF AccountInv
  <2>3. Account'
    BY <2>1, <2>2, AccountStep
  <2>4. InStep'
    BY <2>1, <2>2, TokensAtStep, VarsStep, PublishStep, GradsStep, AliveStep DEF InStep
  <2> QED
    BY <2>3, <2>4
<1> QED
  BY AccountInit, SyncInvariant, <1>1, PTL DEF SyncSpec

(* No gradient is dropped as stale while no session is created again, for  *)
(* any number of workers and variables: whoever still has one to push      *)
(* holds its token, so the accumulators have not moved on.                 *)
THEOREM NoGradientDropped == SyncSpec => []NoneDropped
<1>1. SyncInv /\ AccountInv => NoneDropped
  <2> SUFFICES ASSUME SyncInv, Account, InStep, NEW w \in Workers, NEW v \in grads[w]
               PROVE  local[w] >= accStep[v]
    BY DEF AccountInv, NoneDropped
  <2>1. v \in Vars /\ gstep \in Nat /\ accStep[v] \in Nat
    BY DEF SyncInv, SyncTypeOK
  <2>2. Holds(w, v) /\ local[w] = gstep
    BY <2>1 DEF InStep, HoldersAtStep, Holds
  <2>3. Takers(v) = {}
    BY <2>1, <2>2, NoneTakenWhileHeld DEF SyncInv
  <2>4. accStep[v] <= gstep
    BY <2>1, <2>3 DEF InStep, VarsAtStep
  <2> QED
    BY <2>1, <2>2, <2>4
<1> QED
  BY SyncInvariant, AccountInvariant, <1>1, PTL

(* The variables keep together while no session is created again: at most  *)
(* the step that is being applied is what one has and another has not.     *)
THEOREM VariablesTogether == SyncSpec => []UpdatesTogether
<1>1. SyncInv /\ AccountInv => UpdatesTogether
  <2> SUFFICES ASSUME SyncInv, ~rolledBack, Account, InStep, NEW v \in Vars
               PROVE  ver[v] - gstep \in 0..1
    BY DEF AccountInv, UpdatesTogether, SyncInv, RestoreInv
  <2>1. Cardinality(Applied(v)) \in Nat
    BY ClusterAssumption, FS_Subset, FS_CardinalityType DEF Applied
  <2>2. gstep \in Nat /\ ver[v] \in Nat
    BY DEF SyncInv, SyncTypeOK
  <2>3. ver[v] >= gstep + Cardinality(Applied(v)) /\ ver[v] <= gstep + 1
    BY DEF SyncInv, UpdatesFirst, InStep, VarsAtStep
  <2>4. ver[v] >= gstep /\ ver[v] <= gstep + 1
    BY <2>1, <2>2, <2>3
  <2> QED
    BY <2>2, <2>4
<1> QED
  BY SyncInvariant, AccountInvariant, <1>1, PTL

---------------------------------------------------------------------------
(* Checkpoints.                                                            *)

(* While the chief saves, the variables stay as they were when it began,   *)
(* all of one step; so is the checkpoint that its first lost session is    *)
(* still to restore.                                                       *)
Whole(values) == \A v \in Vars : values[v] = values[GlobalStep]

CkptInv ==
  /\ CkptWhole
  /\ recoveries = 0 /\ pc[Chief] = "save" => saving = Values

(* The variables are of one step as long as somebody holds a token that he *)
(* has pushed nothing for.                                                 *)
LEMMA HeldWhole ==
  ASSUME SyncInv, ~rolledBack, Account, InStep, NEW w \in Workers,
         pc[w] \in Beginning \cup {"save", "hook"}
  PROVE  Whole(Values) /\ \A v \in Vars : Takers(v) = {}
<1>1. \A v \in Vars : Takers(v) = {}
  BY SomeWorker, NoneTakenWhileHeld DEF SyncInv, Holds
<1>2. ASSUME NEW v \in Vars PROVE ver[v] = gstep
  <2>1. Cardinality(Applied(v)) \in Nat
    BY ClusterAssumption, FS_Subset, FS_CardinalityType DEF Applied
  <2>2. gstep \in Nat /\ ver[v] \in Nat
    BY DEF SyncInv, SyncTypeOK
  <2>3. ver[v] >= gstep + Cardinality(Applied(v)) /\ ver[v] <= gstep
    BY <1>1 DEF SyncInv, UpdatesFirst, InStep, VarsAtStep
  <2> QED
    BY <2>1, <2>2, <2>3
<1> QED
  BY <1>1, <1>2, SyncAssumption DEF Whole, Values, Saved

(* What is read between equal values are these values.                     *)
LEMMA BetweenEqual ==
  ASSUME SyncTypeOK, saving = Values
  PROVE  Between(saving, Values) \subseteq {saving}
<1> SUFFICES ASSUME NEW h \in Between(saving, Values) PROVE h = saving
  OBVIOUS
<1>1. saving \in [Saved -> Nat]
  BY DEF SyncTypeOK
<1>2. \A x \in Saved : h[x] \in saving[x]..saving[x]
  BY DEF Between
<1>3. \A x \in Saved : h[x] = saving[x]
  BY <1>1, <1>2
<1>4. h \in [Saved -> UNION {saving[x]..Values[x] : x \in Saved}]
  BY DEF Between
<1> QED
  BY <1>1, <1>3, <1>4

(* While the chief saves nothing is updated.                               *)
LEMMA NothingUpdated ==
  ASSUME SyncInv, ~rolledBack, Account, InStep, [SyncNext]_syncReplicasVars, Undisturbed,
         pc[Chief] = "save"
  PROVE  Values' = Values
<1> USE DEF psVars, workerVars, syncVars, sessionVars, syncReplicasVars
<1>1. \A v \in Vars : Takers(v) = {}
  BY HeldWhole, ClusterAssumption
<1>2. \A t \in Workers : ~Advance(t) /\ \A v \in Vars : ~Apply(t, v)
  BY <1>1, SomeWorker DEF Advance, Apply, Takers
<1>3. \A t \in Workers : SyncOp(t) => gstep' = gstep /\ ver' = ver
  BY <1>2 DEF SyncOp, Attempt, Take, Publish, PublishFails
<1>4. \A t \in Workers :
        Hook(t) \/ TrainOp(t) \/ BeginLoop(t) \/ Saver(t) => gstep' = gstep /\ ver' = ver
  BY DEF Hook, TrainOp, CreateSession, LocalInit, AssertOpen, EndSync, BeginLoop, Compute,
         OutOfData, Push, TakeToken, NoMoreTokens, AfterRun, Saver, FinishSave, AfterRunSave,
         Undisturbed
<1>5. gstep' = gstep /\ ver' = ver
  BY <1>3, <1>4 DEF SyncNext, Undisturbed
<1> QED
  BY <1>5 DEF Values

(* Who changes the checkpoint, and what a save begins with.                *)
LEMMA SaveSteps ==
  ASSUME SyncTypeOK, RestoreInv, [SyncNext]_syncReplicasVars
  PROVE  /\ ckpt' = ckpt \/ FinishSave(Chief)
         /\ pc'[Chief] = "save" =>
              \/ pc[Chief] = "save" /\ saving' = saving
              \/ pc[Chief] # "save" /\ saving' = Values /\ Values' = Values
         /\ recoveries' = recoveries => (pc'[Chief] = "restore" => pc[Chief] = "restore")
         /\ recoveries' = recoveries \/ (recoveries' = recoveries + 1 /\ ckpt' = ckpt)
<1> USE ClusterAssumption DEF psVars, workerVars, syncVars, sessionVars, syncReplicasVars
<1>1. CASE UNCHANGED syncReplicasVars
  BY <1>1
<1>2. ASSUME NEW w \in Workers, Hook(w) \/ TrainOp(w) \/ SyncOp(w)
      PROVE  /\ ckpt' = ckpt /\ saving' = saving /\ recoveries' = recoveries
             /\ pc'[Chief] = "save" => pc[Chief] = "save"
             /\ pc'[Chief] = "restore" => pc[Chief] = "restore"
  BY <1>2
  DEF Hook, TrainOp, SyncOp, CreateSession, LocalInit, AssertOpen, EndSync, Compute,
      OutOfData, Push, TakeToken, NoMoreTokens, AfterRun, Attempt, Take, Apply, Advance,
      Publish, PublishFails, Goto, SyncTypeOK
<1>3. ASSUME NEW w \in Workers, BeginLoop(w) \/ AfterRunSave(w)
      PROVE  /\ ckpt' = ckpt /\ recoveries' = recoveries
             /\ pc'[Chief] = "restore" => pc[Chief] = "restore"
             /\ pc'[Chief] = "save" =>
                  \/ pc[Chief] = "save" /\ saving' = saving
                  \/ pc[Chief] # "save" /\ saving' = Values /\ Values' = Values
  <2>1. ckpt' = ckpt /\ recoveries' = recoveries /\ gstep' = gstep /\ ver' = ver
    BY <1>3 DEF BeginLoop, AfterRunSave
  <2>2. \/ w = Chief /\ pc[w] # "save" /\ pc' = [pc EXCEPT ![w] = "save"] /\ saving' = Values
        \/ w # Chief /\ pc' = [pc EXCEPT ![w] = "step"] /\ saving' = saving
    BY <1>3 DEF BeginLoop, AfterRunSave, BeginSave, Goto
  <2> QED
    BY <2>1, <2>2 DEF Values, SyncTypeOK
<1>4. ASSUME NEW w \in Workers, FinishSave(w)
      PROVE  /\ w = Chief /\ recoveries' = recoveries /\ pc'[Chief] \notin {"save", "restore"}
  BY <1>4 DEF FinishSave, Goto, RestoreInv, SyncTypeOK
<1>5. ASSUME NEW w \in Workers, NEW x \in Saved, Restore(w, x)
      PROVE  ckpt' = ckpt /\ recoveries' = recoveries /\ pc' = pc /\ saving' = saving
  BY <1>5 DEF Restore
<1>6. ASSUME NEW w \in Workers, Recover(w)
      PROVE  /\ ckpt' = ckpt /\ recoveries' = recoveries + 1
             /\ pc'[Chief] = "save" => pc[Chief] = "save" /\ saving' = saving
  BY <1>6 DEF Recover, Goto, SyncTypeOK
<1>7. recoveries \in Nat
  BY DEF SyncTypeOK
<1> QED
  BY <1>1, <1>2, <1>3, <1>4, <1>5, <1>6, <1>7 DEF SyncNext, Saver

(* The checkpoint and the save of the chief, step by step.                 *)
LEMMA CkptStep ==
  ASSUME SyncInv, AccountInv, CkptInv, [SyncNext]_syncReplicasVars
  PROVE  CkptInv'
<1>1. SyncTypeOK /\ RestoreInv /\ CkptWhole /\ recoveries \in Nat
  BY DEF SyncInv, CkptInv, SyncTypeOK
<1>2. CASE recoveries' = 0
  <2>1. recoveries = 0 /\ ~rolledBack /\ Undisturbed
    BY <1>1, <1>2, RecoveriesGrow
  <2>2. Account /\ InStep
    BY <2>1 DEF AccountInv
  <2>3. pc[Chief] = "save" => saving = Values /\ Values' = Values /\ Whole(Values)
    BY <2>1, <2>2, NothingUpdated, HeldWhole, ClusterAssumption DEF CkptInv
  <2>4. FinishSave(Chief) => ckpt' = Values /\ Whole(Values)
    BY <1>1, <2>3, BetweenEqual DEF FinishSave
  <2>5. \A v \in Vars : ckpt'[v] = ckpt'[GlobalStep]
    BY <1>1, <2>1, <2>4, SaveSteps DEF CkptWhole, Whole
  <2>6. pc'[Chief] = "save" => saving' = Values'
    BY <1>1, <2>3, SaveSteps
  <2> QED
    BY <2>5, <2>6 DEF CkptInv, CkptWhole
<1>3. CASE recoveries' # 0
  <2> SUFFICES ASSUME recoveries' = 1, pc'[Chief] = "restore"
               PROVE  \A v \in Vars : ckpt'[v] = ckpt'[GlobalStep]
    BY <1>3 DEF CkptInv, CkptWhole
  <2>1. \/ recoveries = 0 /\ ckpt' = ckpt
        \/ recoveries = 1 /\ pc[Chief] = "restore"
    BY <1>1, SaveSteps
  <2>2. pc[Chief] = "restore" => ckpt' = ckpt
    BY <1>1, SaveSteps DEF FinishSave
  <2> QED
    BY <1>1, <2>1, <2>2 DEF CkptWhole
<1> QED
  BY <1>2, <1>3

(* For any number of workers and variables, the checkpoints of synchronous *)
(* training are each of one step until a session is lost, and what a chief *)
(* restores whose session is the first to be lost is of one step.          *)
THEOREM CheckpointsWhole == SyncSpec => []CkptWhole
<1>1. SyncInit => CkptInv
  <2>1. SyncInit => Whole(ckpt)
    BY SyncAssumption DEF SyncInit, Values, Saved, Whole
  <2>2. SyncInit => pc[Chief] # "save"
    BY ClusterAssumption DEF SyncInit
  <2> QED
    BY <2>1, <2>2 DEF CkptInv, CkptWhole, Whole
<1>2. SyncInv /\ AccountInv /\ CkptInv /\ [SyncNext]_syncReplicasVars => CkptInv'
  BY CkptStep
<1>3. CkptInv => CkptWhole
  BY DEF CkptInv
<1> QED
  BY SyncInvariant, AccountInvariant, <1>1, <1>2, <1>3, PTL DEF SyncSpec

---------------------------------------------------------------------------
(* The job.                                                                *)

(* While a session is still to begin its loop, where every worker has input*)
(* for a batch, nobody gets a token, so nobody gets any further than to the*)
(* token of the first step.                                                *)
Begun ==
  (\E w \in Workers : pc[w] \in Beginning) =>
    /\ tokens = <<>>
    /\ \A u \in Workers :
         /\ pc[u] \in Beginning \cup {"save", "step", "push"}
         /\ pc[u] # "push" => data[u] > 0

(* The exit counter counts those who wait, from when the chief has emptied *)
(* it, which it does before its loop.                                      *)
ArrivedWorkers == {w \in Workers : Arrived(w)}

CountInv ==
  /\ exitCounter \in Nat
  /\ \A w \in Workers : bpc[w] = "clear" => w = Chief /\ pc[w] \in Beginning
  /\ bpc[Chief] # "clear" => exitCounter = Cardinality(ArrivedWorkers)

BarrierInv == recoveries = 0 => Begun /\ CountInv /\ BarrierHolds

(* Every step, a lost session apart, keeps the workers together until all  *)
(* loops have begun.                                                       *)
LEMMA BegunStep ==
  ASSUME SyncTypeOK, RestoreInv, ~rolledBack, Account, InStep, Begun, [SyncNext]_syncReplicasVars,
         Undisturbed
  PROVE  Begun'
<1> USE DEF psVars, workerVars, syncVars, sessionVars, syncReplicasVars
<1>1. \A w \in Workers : pc'[w] \in Beginning => pc[w] \in Beginning
  <2>1. CASE UNCHANGED syncReplicasVars
    BY <2>1
  <2>2. ASSUME NEW w \in Workers,
               Hook(w) \/ BeginLoop(w) \/ TrainOp(w) \/ FinishSave(w) \/ AfterRunSave(w)
        PROVE  \A u \in Workers : pc'[u] \in Beginning => pc[u] \in Beginning
    <3>1. \/ pc' = pc
          \/ pc[w] \in Beginning /\ \A u \in Workers \ {w} : pc'[u] = pc[u]
          \/ \E l \in {"save", "step", "push", "hook", "end", "ended", "failed"} : Goto(w, l)
      BY <2>2
      DEF Hook, TrainOp, CreateSession, LocalInit, AssertOpen, EndSync, BeginLoop, BeginSave,
          Compute, OutOfData, Push, TakeToken, NoMoreTokens, AfterRun, FinishSave, AfterRunSave,
          Goto, Beginning, RestoreInv, SyncTypeOK
    <3> QED
      BY <3>1 DEF Goto, Beginning, SyncTypeOK
  <2>3. ASSUME NEW t \in Workers, SyncOp(t) PROVE pc' = pc
    BY <2>3 DEF SyncOp, Attempt, Take, Apply, Advance, Publish, PublishFails
  <2> QED
    BY <2>1, <2>2, <2>3 DEF SyncNext, Saver, Undisturbed
<1> SUFFICES ASSUME NEW b \in Workers, pc[b] \in Beginning
             PROVE  /\ tokens' = <<>>
                    /\ \A u \in Workers :
                         /\ pc'[u] \in Beginning \cup {"save", "step", "push"}
                         /\ pc'[u] # "push" => data'[u] > 0
  BY <1>1 DEF Begun
<1>2. /\ tokens = <<>>
      /\ \A u \in Workers :
           /\ pc[u] \in Beginning \cup {"save", "step", "push"}
           /\ pc[u] # "push" => data[u] > 0
  BY DEF Begun
<1>3. ~SomeEnded /\ ~closed /\ \A v \in Vars : Takers(v) = {}
  BY <1>2, NoneTakenWhileHeld DEF SomeEnded, InStep, Holds, Beginning
<1> DEFINE Fine == /\ tokens' = <<>>
                   /\ \A u \in Workers :
                        /\ pc'[u] \in Beginning \cup {"save", "step", "push"}
                        /\ pc'[u] # "push" => data'[u] > 0
<1>4. CASE UNCHANGED syncReplicasVars
  BY <1>2, <1>4
<1>5. ASSUME NEW w \in Workers, Hook(w) \/ BeginLoop(w) PROVE Fine
  <2>1. /\ tokens' = tokens /\ data' = data
        /\ \A u \in Workers \ {w} : pc'[u] = pc[u]
        /\ pc[w] \in Beginning \cup {"end"} /\ pc'[w] \in Beginning \cup {"save", "step", "ended"}
        /\ pc[w] = "end" <=> pc'[w] = "ended"
    BY <1>3, <1>5
    DEF Hook, CreateSession, LocalInit, AssertOpen, EndSync, BeginLoop, BeginSave, Goto,
        Beginning, RestoreInv, SyncTypeOK
  <2> QED
    BY <1>2, <2>1 DEF Beginning
<1>6. ASSUME NEW w \in Workers, TrainOp(w) PROVE Fine
  <2>1. Compute(w) \/ \E v \in Vars : Push(w, v)
    BY <1>2, <1>3, <1>6 DEF TrainOp, OutOfData, TakeToken, NoMoreTokens, AfterRun, Beginning
  <2>2. CASE Compute(w)
    <3>1. tokens' = tokens /\ pc'[w] = "push"
          /\ \A u \in Workers \ {w} : pc'[u] = pc[u] /\ data'[u] = data[u]
      BY <2>2 DEF Compute, Goto, SyncTypeOK
    <3> QED
      BY <1>2, <3>1
  <2>3. CASE \E v \in Vars : Push(w, v)
    BY <1>2, <2>3 DEF Push
  <2> QED
    BY <2>1, <2>2, <2>3
<1>7. ASSUME NEW t \in Workers, SyncOp(t) PROVE Fine
  <2>1. ~Publish(t)
    BY <1>3, SomeWorker DEF Publish, InStep, Takers
  <2> QED
    BY <1>2, <1>7, <2>1 DEF SyncOp, Attempt, Take, Apply, Advance, PublishFails
<1>8. ASSUME NEW w \in Workers, FinishSave(w) \/ AfterRunSave(w) PROVE Fine
  <2>1. FinishSave(w) /\ sync[w] # "dead"
    BY <1>2, <1>8 DEF AfterRunSave, Beginning, InStep
  <2>2. tokens' = tokens /\ data' = data /\ pc[w] = "save" /\ pc' = [pc EXCEPT ![w] = "step"]
    BY <2>1 DEF FinishSave, Goto
  <2> QED
    BY <1>2, <2>2 DEF SyncTypeOK
<1> QED
  BY <1>4, <1>5, <1>6, <1>7, <1>8 DEF SyncNext, Saver, Undisturbed

(* The workers that have arrived can be counted.                           *)
LEMMA ArrivedCounted ==
  /\ IsFiniteSet(ArrivedWorkers) /\ Cardinality(ArrivedWorkers) \in Nat
  /\ Cardinality(ArrivedWorkers) = NumWorkers => ArrivedWorkers = Workers
  /\ Cardinality(ArrivedWorkers) <= NumWorkers
  BY ClusterAssumption, FS_Subset, FS_CardinalityType DEF ArrivedWorkers, NumWorkers

(* Who has ended its loop has company: every loop has begun.               *)
LEMMA EndedAfterClear ==
  ASSUME Begun, CountInv, NEW w \in Workers, pc[w] = "ended"
  PROVE  bpc[Chief] # "clear" /\ \A u \in Workers : bpc[u] # "clear"
  BY ClusterAssumption DEF Begun, CountInv, Beginning

(* Every step of the job, a lost session apart, keeps the count and the    *)
(* barrier.                                                                *)
LEMMA BarrierStep ==
  ASSUME SyncTypeOK, Account, InStep, FlagInv, Begun, CountInv, BarrierHolds,
         RestoreInv, ~rolledBack, [JobNext]_jobVars, Undisturbed
  PROVE  CountInv' /\ BarrierHolds'
<1> USE ClusterAssumption DEF psVars, workerVars, syncVars, sessionVars, syncReplicasVars
<1>1. ASSUME bpc' = bpc, exitCounter' = exitCounter,
             \A w \in Workers : bpc[w] = "clear" /\ pc[w] \in Beginning => pc'[w] \in Beginning
      PROVE  CountInv' /\ BarrierHolds'
  BY <1>1 DEF CountInv, BarrierHolds, Through, Arrived, ArrivedWorkers
<1>2. CASE UNCHANGED jobVars
  BY <1>1, <1>2 DEF jobVars, barrierVars
<1>3. ASSUME NEW w \in Workers, SyncPart(w) PROVE CountInv' /\ BarrierHolds'
  <2>1. ASSUME NEW u \in Workers, pc[u] \in Beginning PROVE pc'[u] \in Beginning
    <3>1. ~closed /\ tokens = <<>>
      BY <2>1 DEF Begun, InStep, SomeEnded, Beginning
    <3>2. CASE Hook(w)
      BY <2>1, <3>1, <3>2
      DEF Hook, CreateSession, LocalInit, AssertOpen, EndSync, Goto, Beginning, SyncTypeOK
    <3>5. CASE Saver(w)
      BY <2>1, <3>5
      DEF Saver, FinishSave, AfterRunSave, BeginSave, Restore, Goto, Beginning, SyncTypeOK
    <3>3. CASE TrainOp(w)
      BY <2>1, <3>3
      DEF TrainOp, Compute, OutOfData, Push, TakeToken, NoMoreTokens, AfterRun, Goto,
          Beginning, SyncTypeOK
    <3>4. CASE SyncOp(w)
      BY <2>1, <3>4 DEF SyncOp, Attempt, Take, Apply, Advance, Publish, PublishFails
    <3> QED
      BY <1>3, <3>2, <3>3, <3>4, <3>5 DEF SyncPart
  <2> QED
    BY <1>1, <1>3, <2>1 DEF SyncPart, barrierVars
<1>4. ASSUME NEW w \in Workers, LoopBegins(w) PROVE CountInv' /\ BarrierHolds'
  <2>1. \A u \in Workers : bpc[u] = "clear" => u # w
    BY <1>4 DEF LoopBegins
  <2>2. bpc' = bpc /\ exitCounter' = exitCounter /\ \A u \in Workers \ {w} : pc'[u] = pc[u]
    BY <1>4 DEF LoopBegins, BeginLoop, BeginSave, Goto, SyncTypeOK, barrierVars
  <2> QED
    BY <1>1, <2>1, <2>2
<1>5. ASSUME NEW w \in Workers, SessionRecovers(w) PROVE CountInv' /\ BarrierHolds'
  BY <1>5 DEF SessionRecovers, Undisturbed
<1>6. CASE ClearHook
  <2>1. pc' = pc /\ pc[Chief] = "hooked" /\ bpc[Chief] = "clear"
    BY <1>6 DEF ClearHook, Clear, Step
  <2>2. \A u \in Workers : bpc[u] \in {"clear", "train"}
    BY <2>1 DEF Begun, FlagInv, Beginning
  <2>3. \/ exitCounter > 0 /\ exitCounter' = exitCounter - 1 /\ bpc' = bpc
        \/ exitCounter = 0 /\ exitCounter' = 0 /\ bpc' = [bpc EXCEPT ![Chief] = "train"]
    BY <1>6 DEF ClearHook, Clear, Step, CountInv
  <2>4. \A u \in Workers : bpc'[u] \in {"clear", "train"} /\ (bpc'[u] = "clear" => bpc[u] = "clear")
    BY <2>2, <2>3 DEF FlagInv
  <2>5. ArrivedWorkers' = {} /\ Cardinality(ArrivedWorkers') = 0
    BY <2>4, FS_EmptySet DEF ArrivedWorkers, Arrived
  <2>6. exitCounter' \in Nat /\ (bpc'[Chief] # "clear" => exitCounter' = 0)
    BY <2>1, <2>3 DEF CountInv
  <2>7. CountInv'
    BY <2>1, <2>4, <2>5, <2>6 DEF CountInv
  <2>8. BarrierHolds'
    BY <2>4 DEF BarrierHolds, Through, Arrived
  <2> QED
    BY <2>7, <2>8
<1>7. ASSUME NEW w \in Workers, BarrierPart(w) PROVE CountInv' /\ BarrierHolds'
  <2>1. pc' = pc /\ pc[w] = "ended"
    BY <1>7 DEF BarrierPart
  <2>2. \A u \in Workers : bpc[u] # "clear"
    BY <2>1, EndedAfterClear
  <2>3. exitCounter = Cardinality(ArrivedWorkers)
    BY <2>2 DEF CountInv
  <2>4. ASSUME exitCounter' = exitCounter,
               \A u \in Workers : bpc'[u] # "clear" /\ (Arrived(u)' <=> Arrived(u)),
               \A u \in Workers : Through(u)' => Through(u) \/ exitCounter >= NumWorkers
        PROVE  CountInv' /\ BarrierHolds'
    <3>1. ArrivedWorkers' = ArrivedWorkers
      BY <2>4 DEF ArrivedWorkers
    <3>2. exitCounter >= NumWorkers => ArrivedWorkers = Workers
      BY <2>3, ArrivedCounted, WorkersCounted
    <3>3. exitCounter >= NumWorkers => \A u \in Workers : Arrived(u)
      BY <3>2 DEF ArrivedWorkers
    <3>4. BarrierHolds'
      BY <2>4, <3>3 DEF BarrierHolds
    <3>5. CountInv'
      BY <2>3, <2>4, <3>1 DEF CountInv
    <3> QED
      BY <3>4, <3>5
  <2>5. CASE CountIn(w)
    <3>1. /\ bpc[w] = "enqueue" /\ bpc' = [bpc EXCEPT ![w] = "poll"]
          /\ exitCounter' = exitCounter + 1
      BY <2>5 DEF CountIn, Step
    <3>2. /\ bpc'[w] = "poll" /\ \A u \in Workers \ {w} : bpc'[u] = bpc[u]
      BY <3>1 DEF FlagInv
    <3>3. ArrivedWorkers' = ArrivedWorkers \cup {w} /\ w \notin ArrivedWorkers
      BY <3>1, <3>2 DEF ArrivedWorkers, Arrived
    <3>4. Cardinality(ArrivedWorkers') = Cardinality(ArrivedWorkers) + 1
      BY <3>3, ArrivedCounted, FS_AddElement
    <3>5. CountInv'
      BY <2>2, <2>3, <3>1, <3>2, <3>4, ArrivedCounted DEF CountInv
    <3>6. BarrierHolds'
      BY <3>1, <3>2 DEF BarrierHolds, Through, Arrived
    <3> QED
      BY <3>5, <3>6
  <2>6. CASE EnterBarrier(w)
    <3>1. bpc[w] = "train" /\ bpc'[w] = "enqueue" /\ \A u \in Workers \ {w} : bpc'[u] = bpc[u]
      BY <2>6 DEF EnterBarrier, Step, FlagInv
    <3>2. exitCounter' = exitCounter
      BY <2>6 DEF EnterBarrier
    <3> QED
      BY <2>2, <2>4, <3>1, <3>2 DEF Arrived, Through
  <2>7. CASE Poll(w)
    <3>1. /\ bpc[w] = "poll" /\ bpc'[w] \in {"send", "recv"}
          /\ \A u \in Workers \ {w} : bpc'[u] = bpc[u]
      BY <2>7 DEF Poll, Step, FlagInv
    <3>2. exitCounter' = exitCounter /\ exitCounter >= NumWorkers
      BY <2>7 DEF Poll
    <3> QED
      BY <2>2, <2>4, <3>1, <3>2 DEF Arrived, Through
  <2>8. CASE Recv(w) \/ SeeFlagFile(w) \/ (w = Chief /\ (Send \/ WriteFlagFile))
    <3>1. /\ exitCounter' = exitCounter
          /\ \/ bpc' = bpc
             \/ /\ bpc[w] \in {"recv", "send", "passed"}
                /\ \E to \in {"passed", "gone"} : bpc' = [bpc EXCEPT ![w] = to]
      BY <2>8 DEF Recv, SeeFlagFile, Send, WriteFlagFile, Step
    <3>2. \A u \in Workers :
            bpc'[u] = bpc[u] \/ (bpc[u] \in {"recv", "send", "passed"} /\ bpc'[u] \in {"passed", "gone"})
      BY <3>1 DEF FlagInv
    <3> QED
      BY <2>2, <2>4, <3>1, <3>2 DEF Arrived, Through
  <2> QED
    BY <1>7, <2>5, <2>6, <2>7, <2>8 DEF BarrierPart, AfterEnd
<1> QED
  BY <1>2, <1>3, <1>4, <1>5, <1>6, <1>7 DEF JobNext

(* The accounts are kept in the job.                                       *)
LEMMA JobAccount == JobSpec => [](SyncInv /\ AccountInv)
<1>1. SyncSpec => [](SyncInv /\ AccountInv)
  BY SyncInvariant, AccountInvariant, PTL
<1> QED
  BY <1>1, JobIsSyncTraining

(* The same of the job's checkpoints.                                      *)
THEOREM JobCheckpointsWhole == JobSpec => []CkptWhole
  BY JobIsSyncTraining, CheckpointsWhole

(* For any number of workers, and whatever an earlier job left in the exit *)
(* counter, where every worker has input for a batch and no session is     *)
(* created again: nobody gets through the barrier while another one is in  *)
(* its loop or has not begun it.                                           *)
THEOREM NoneThroughBarrier ==
  ASSUME \A s \in Settings : 0 \notin s.sizes
  PROVE  JobSpec => []JobBarrierHolds
<1>1. JobInit => BarrierInv
  <2> SUFFICES ASSUME JobInit PROVE Begun /\ CountInv /\ BarrierHolds
    BY DEF BarrierInv
  <2>1. \A w \in Workers : bpc[w] \in {"clear", "train"} /\ (bpc[w] = "clear" <=> w = Chief)
    BY DEF JobInit, BarrierInit
  <2>2. BarrierHolds
    BY <2>1 DEF BarrierHolds, Through, Arrived
  <2>3. exitCounter \in Nat
    BY LeftOverAssumption, WorkersCounted DEF JobInit, BarrierInit
  <2>4. CountInv
    BY <2>1, <2>3, ClusterAssumption DEF CountInv, JobInit, SyncInit, Beginning
  <2>5. \A w \in Workers : data[w] \in Nat /\ data[w] # 0
    BY SyncAssumption DEF JobInit, SyncInit
  <2>6. Begun
    BY <2>5 DEF Begun, JobInit, SyncInit, Beginning
  <2> QED
    BY <2>2, <2>4, <2>6
<1>2. SyncInv /\ AccountInv /\ FlagInv /\ BarrierInv /\ [JobNext]_jobVars => BarrierInv'
  <2> SUFFICES ASSUME SyncInv, AccountInv, FlagInv, BarrierInv, [JobNext]_jobVars,
                      recoveries' = 0
               PROVE  Begun' /\ CountInv' /\ BarrierHolds'
    BY DEF BarrierInv
  <2>1. [SyncNext]_syncReplicasVars
    BY DEF JobNext, jobVars, SyncPart, LoopBegins, SessionRecovers, BarrierPart, ClearHook,
           SyncNext
  <2>2. SyncTypeOK /\ RestoreInv /\ recoveries = 0 /\ ~rolledBack /\ Undisturbed
    BY <2>1, RecoveriesGrow DEF SyncInv
  <2>3. Account /\ InStep /\ Begun /\ CountInv /\ BarrierHolds
    BY <2>2 DEF AccountInv, BarrierInv
  <2> QED
    BY <2>1, <2>2, <2>3, BegunStep, BarrierStep
<1>3. BarrierInv => JobBarrierHolds
  BY DEF BarrierInv, JobBarrierHolds
<1> QED
  BY JobAccount, FlagInvariant, <1>1, <1>2, <1>3, PTL DEF JobSpec

(* Once a worker is through the barrier, no gradient is applied any more,  *)
(* for any number of workers and variables: it has taken itself out of the *)
(* account of every variable, and an average takes the whole account.      *)
THEOREM NothingAppliedBehind == JobSpec => FrozenAtExport
<1>1. SyncInv /\ AccountInv /\ FlagInv /\ [JobNext]_jobVars =>
        [(recoveries = 0 /\ \E w \in Workers : Through(w)) => ver' = ver]_jobVars
  <2> SUFFICES ASSUME SyncInv, AccountInv, FlagInv, [JobNext]_jobVars, recoveries = 0,
                      NEW w \in Workers, Through(w)
               PROVE  ver' = ver
    OBVIOUS
  <2>1. SomeEnded
    BY DEF FlagInv, Through, Arrived, SomeEnded
  <2>2. \A v \in Vars : Takers(v) = {}
    BY <2>1 DEF AccountInv, Account, AccountOf
  <2>3. \A t \in Workers : \A v \in Vars : ~Apply(t, v)
    BY <2>2 DEF Apply, Takers
  <2>4. \A t \in Workers : SyncOp(t) => ver' = ver
    BY <2>3 DEF SyncOp, Attempt, Take, Advance, Publish, PublishFails, psVars
  <2>5. \A t \in Workers :
          Hook(t) \/ TrainOp(t) \/ BeginLoop(t) \/ Saver(t) \/ Recover(t) => ver' = ver
    <3>1. \A t \in Workers : \A x \in Saved : ~Restore(t, x)
      BY DEF SyncInv, RestoreInv, Restore
    <3> QED
      BY <3>1
      DEF Hook, TrainOp, CreateSession, LocalInit, AssertOpen, EndSync, BeginLoop, Recover,
          Compute, OutOfData, Push, TakeToken, NoMoreTokens, AfterRun, Saver, FinishSave,
          AfterRunSave, psVars
  <2> QED
    BY <2>4, <2>5
    DEF JobNext, jobVars, SyncPart, LoopBegins, SessionRecovers, BarrierPart, ClearHook,
        syncReplicasVars, psVars
<1> QED
  BY JobAccount, FlagInvariant, <1>1, PTL DEF JobSpec, FrozenAtExport
=============================================================================
