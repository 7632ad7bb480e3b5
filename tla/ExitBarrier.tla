---------------------------- MODULE ExitBarrier ----------------------------
(***************************************************************************)
(* ExitBarrierHook (utils/estimator_utils.py): the workers of a job leave  *)
(* the training loop together, and stay until the chief, which evaluates   *)
(* and exports after the training, exits.                                  *)
(*                                                                         *)
(* Two queues on ps 0, which may outlive a job: exit_counter, of which     *)
(* only the number of elements matters, and exit_counter_signal, which     *)
(* carries the name of the chief's flag file.                              *)
(***************************************************************************)
EXTENDS TrainingTasks, Integers

CONSTANT LeftOver   \* elements an earlier job may have left in exit_counter

ASSUME LeftOverAssumption == LeftOver \subseteq 0..NumWorkers

VARIABLES
  bpc,         \* bpc[w]: where w is, see BarrierPCs
  exitCounter, \* elements in exit_counter
  signals,     \* elements in exit_counter_signal, each the chief's file name
  sent,        \* flag names the chief has sent
  flagFile     \* the chief's flag file exists

barrierVars == <<bpc, exitCounter, signals, sent, flagFile>>

BarrierPCs == {"clear", "train", "enqueue", "poll", "send", "recv", "passed",
               "gone"}

BarrierInit ==
  /\ bpc = [w \in Workers |-> IF w = Chief THEN "clear" ELSE "train"]
  /\ exitCounter \in LeftOver
  /\ signals = 0 /\ sent = 0 /\ flagFile = FALSE

Step(w, from, to) == bpc[w] = from /\ bpc' = [bpc EXCEPT ![w] = to]

(* after_create_session of the chief: the queue is emptied.                *)
Clear ==
  /\ IF exitCounter > 0
     THEN bpc[Chief] = "clear" /\ exitCounter' = exitCounter - 1
                               /\ UNCHANGED bpc
     ELSE Step(Chief, "clear", "train") /\ UNCHANGED exitCounter
  /\ UNCHANGED <<signals, sent, flagFile>>

(* The training loop of w is over: end is called.                          *)
EnterBarrier(w) ==
  /\ Step(w, "train", "enqueue")
  /\ UNCHANGED <<exitCounter, signals, sent, flagFile>>

(* The hook counts itself in.                                              *)
CountIn(w) ==
  /\ Step(w, "enqueue", "poll") /\ exitCounter < NumWorkers
  /\ exitCounter' = exitCounter + 1
  /\ UNCHANGED <<signals, sent, flagFile>>

(* Faulty variant: off by one.                                             *)
PollShort(w) ==
  /\ Step(w, "poll", IF w = Chief THEN "send" ELSE "recv")
  /\ exitCounter >= NumWorkers - 1
  /\ UNCHANGED <<exitCounter, signals, sent, flagFile>>

(* The loop over que_size is left.                                         *)
Poll(w) ==
  /\ Step(w, "poll", IF w = Chief THEN "send" ELSE "recv")
  /\ exitCounter >= NumWorkers
  /\ UNCHANGED <<exitCounter, signals, sent, flagFile>>

(* Faulty variant: one name less is sent.                                  *)
SendShort ==
  /\ IF sent < NumWorkers - 2
     THEN /\ bpc[Chief] = "send" /\ signals < NumWorkers
          /\ signals' = signals + 1 /\ sent' = sent + 1 /\ UNCHANGED bpc
     ELSE Step(Chief, "send", "passed") /\ UNCHANGED <<signals, sent>>
  /\ UNCHANGED <<exitCounter, flagFile>>

(* The chief sends the name of its flag file to each other worker.         *)
Send ==
  /\ IF sent < NumWorkers - 1
     THEN /\ bpc[Chief] = "send" /\ signals < NumWorkers
          /\ signals' = signals + 1 /\ sent' = sent + 1 /\ UNCHANGED bpc
     ELSE Step(Chief, "send", "passed") /\ UNCHANGED <<signals, sent>>
  /\ UNCHANGED <<exitCounter, flagFile>>

(* The name is taken from the queue.                                       *)
Recv(w) ==
  /\ Step(w, "recv", "passed") /\ signals > 0
  /\ signals' = signals - 1
  /\ UNCHANGED <<exitCounter, sent, flagFile>>

(* _check_flag_file, at exit: the chief writes the file, the others wait   *)
(* for it.                                                                 *)
WriteFlagFile ==
  /\ Step(Chief, "passed", "gone") /\ flagFile' = TRUE
  /\ UNCHANGED <<exitCounter, signals, sent>>

SeeFlagFile(w) ==
  /\ w # Chief /\ Step(w, "passed", "gone") /\ flagFile
  /\ UNCHANGED <<exitCounter, signals, sent, flagFile>>

AfterEnd(w) ==
  \/ CountIn(w) \/ Poll(w) \/ Recv(w) \/ SeeFlagFile(w)
  \/ w = Chief /\ (Send \/ WriteFlagFile)

Barrier(w) == EnterBarrier(w) \/ AfterEnd(w) \/ (w = Chief /\ Clear)

(* The whole job is over.                                                  *)
AllGone == \A w \in Workers : bpc[w] = "gone"

BarrierNext ==
  \/ \E w \in Workers : Barrier(w)
  \/ AllGone /\ UNCHANGED barrierVars

(* Every worker's process runs, and its training comes to an end.          *)
BarrierFairness == \A w \in Workers : WF_barrierVars(Barrier(w))

BarrierSpec == BarrierInit /\ [][BarrierNext]_barrierVars /\ BarrierFairness
---------------------------------------------------------------------------
(* Properties                                                              *)

(* Nobody gets past the barrier while another worker is in its training    *)
(* loop, or has not begun it: elements left by an earlier job are no help. *)
Arrived(w) == bpc[w] \notin {"clear", "train", "enqueue"}
Through(w) == Arrived(w) /\ bpc[w] # "poll"

BarrierHolds ==
  (\E w \in Workers : Through(w)) => \A u \in Workers : Arrived(u)

(* The workers stay until the chief exits: it exports with all of them     *)
(* still there.                                                            *)
ChiefFirst ==
  bpc[Chief] # "gone" => \A w \in Workers : bpc[w] # "gone"

(* Master and workers exit at the same time: all get through.              *)
AllExit == <>AllGone
=============================================================================
