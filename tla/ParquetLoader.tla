--------------------------- MODULE ParquetLoader ---------------------------
(***************************************************************************)
(* The multi-process parquet reader: ParquetInput (the parent, which runs  *)
(* the sample generator and stop()) and the load_data_proc processes it    *)
(* spawns.  They talk through four queues of compat/queues.py:             *)
(*                                                                         *)
(*   file_que        parent -> procs   file names, then one None per proc  *)
(*   data_que        procs  -> parent  batches, then one None per proc     *)
(*   proc_start_que  parent -> procs   one token per proc                  *)
(*   proc_stop_que   parent -> procs   one token per proc                  *)
(*                                                                         *)
(* A row of a parquet file is <<k, i>>: row i of the k-th file handed out  *)
(* (a file read in two epochs is handed out twice).  A batch is the        *)
(* sequence of its rows; the columns, their padding and packing are left   *)
(* out.  One action is one queue operation with the local code up to the   *)
(* next one.                                                               *)
(***************************************************************************)
EXTENDS Integers, Sequences, FiniteSets, SequencesExt

CONSTANTS
  Procs,          \* the data procs of one task
  FileLen,        \* FileLen[i+1]: rows of the i-th input file, i from 0
  TaskNum,        \* number of tasks that share the input files
  TaskIndex,      \* the task modelled here
  BatchSize,
  NumEpochs,      \* data_config.num_epochs
  Mode,           \* the mode of the input_fn: "train", "eval", "predict"
  DropRemainder,  \* data_config.drop_remainder
  HasReserve,     \* reserve_fields is set
  PrefetchSize,   \* maxsize of data_que
  PipeCap,        \* batches the pipe under data_que holds
  StopEarly,      \* the caller may call stop() before the first sample
  Reuse,          \* the caller may call the input_fn again without stop()
  MaxRuns         \* bound: calls of the input_fn

FileNum == Len(FileLen)

ASSUME ConstAssumption ==
  /\ FileLen \in Seq(Nat)
  /\ IsFiniteSet(Procs)
  /\ Cardinality(Procs) = IF FileNum < 8 THEN FileNum ELSE 8
  /\ TaskNum \in Nat \ {0} /\ TaskIndex \in 0..(TaskNum - 1)
  /\ BatchSize \in Nat \ {0} /\ PrefetchSize \in Nat \ {0}
  /\ PipeCap \in Nat \ {0} /\ NumEpochs \in Nat /\ MaxRuns \in Nat
  /\ Mode \in {"train", "eval", "predict"}
  /\ {DropRemainder, HasReserve, StopEarly, Reuse} \subseteq BOOLEAN

VARIABLES
  ppc,         \* the parent: "idle", "built", "stopping", "failed"
  gen,         \* _sample_generator: "off", "running", "ended"
  procStart,   \* _proc_start
  fileClosed,  \* file_que was closed by the parent
  runs,        \* calls of the input_fn so far
  startTok,    \* tokens in proc_start_que
  stopBuf,     \* tokens the parent's feeder has yet to send
  stopPipe,    \* tokens in the pipe of proc_stop_que
  fileQ,       \* file_que: numbers of files handed out, and NoFile
  pc,          \* pc[p]: where load_data_proc of p is
  todo,        \* todo[p]: rows of the current file not yet in a batch
  part,        \* part[p]: part_data_dict, the rows carried to the next file
  full,        \* procs whose put ran into queue.Full
  stopClosed,  \* procs that took a stop token and closed proc_stop_que
  buffer,      \* buffer[p]: data_que._buffer in process p
  inhand,      \* inhand[p]: what p's feeder thread took and has not sent
  pipe,        \* the pipe of data_que
  sem,         \* data_que._sem
  done,        \* done_proc_cnt
  delivered,   \* history: the batches the generator yielded in this run
  ended        \* history: the procs whose end mark the generator took

parentVars == <<ppc, gen, procStart, fileClosed, runs>>
tokenVars  == <<startTok, stopBuf, stopPipe>>
procVars   == <<pc, todo, part, full, stopClosed>>
queVars    == <<buffer, inhand, pipe, sem>>
genVars    == <<done, delivered, ended>>
vars == <<parentVars, tokenVars, fileQ, procVars, queVars, genVars>>

NumProc == Cardinality(Procs)

(* The files of this task: those with file_id % task_num = task_index.     *)
MyFiles ==
  [j \in 1..((FileNum + TaskNum - 1 - TaskIndex) \div TaskNum)
     |-> TaskIndex + (j - 1) * TaskNum]

(* In training the list is repeated num_epochs times.                      *)
NumRepeat == IF Mode = "train" /\ NumEpochs > 1 THEN NumEpochs ELSE 1

NumHanded == NumRepeat * Len(MyFiles)

HandedFile(k) == MyFiles[((k - 1) % Len(MyFiles)) + 1]

Drop == Mode = "train" /\ DropRemainder

(* pd.read_parquet of the k-th file handed out.                            *)
Rows(k) == [i \in 1..FileLen[HandedFile(k) + 1] |-> <<k, i>>]

NoFile == 0     \* the None that ends file_que for one proc

Batch(p, rows) == [from |-> p, rows |-> rows, end |-> FALSE]
EndMark(p)     == [from |-> p, rows |-> <<>>, end |-> TRUE]

(* Faulty variant: the last row of a batch comes again in the next.        *)
RestRepeats(s) == SubSeq(s, BatchSize, Len(s))

(* The first batch of a sequence of rows, and the rows after it.           *)
FirstOf(s) == SubSeq(s, 1, BatchSize)
RestOf(s)  == SubSeq(s, BatchSize + 1, Len(s))

(* Faulty variant: the carried rows are overwritten.                       *)
JoinedForgets(p) == todo[p]

(* What the procs carry from one file to the next goes first.              *)
Joined(p) == part[p] \o todo[p]

(* Faulty variant: one end mark ends the generator.                        *)
AnyDone == done >= 1

(* Faulty variant: off by one.                                             *)
MoreThanDone == done > NumProc

(* Every end mark was counted.                                             *)
AllDone == done >= NumProc

(* Faulty variant: get forgets to release the semaphore.                   *)
TakeKeepsSlot == pipe' = Tail(pipe) /\ sem' = sem

(* data_que.get: the oldest message of the pipe, and its slot is free.     *)
TakeFromPipe == pipe' = Tail(pipe) /\ sem' = sem + 1

ProcPCs == {"none", "wait", "check", "file", "batch", "rem", "mark", "flush",
            "crashed", "drain", "redrain", "abort", "exited"}

(* data_que.close(wait_send_finish=False) has cleared _run: the feeder     *)
(* thread sends what it holds and leaves the rest of the buffer.           *)
Aborting(p) == pc[p] \in {"drain", "redrain", "abort"}

Gone(p) == pc[p] \in {"none", "exited"}

---------------------------------------------------------------------------
(* The parent: the input_fn, the generator, stop()                         *)

QueuesBuilt ==
  /\ startTok' = 0 /\ stopBuf' = 0 /\ stopPipe' = 0
  /\ pipe' = <<>> /\ sem' = PrefetchSize

Init ==
  /\ ppc = "idle" /\ gen = "off"
  /\ procStart = FALSE /\ fileClosed = FALSE /\ runs = 0
  /\ startTok = 0 /\ stopBuf = 0 /\ stopPipe = 0
  /\ fileQ = <<>>
  /\ pc = [p \in Procs |-> "none"]
  /\ todo = [p \in Procs |-> <<>>] /\ part = [p \in Procs |-> <<>>]
  /\ full = {} /\ stopClosed = {}
  /\ buffer = [p \in Procs |-> <<>>] /\ inhand = [p \in Procs |-> <<>>]
  /\ pipe = <<>> /\ sem = PrefetchSize
  /\ done = 0 /\ delivered = <<>> /\ ended = {}

MayBuild ==
  /\ runs < MaxRuns
  /\ \/ ppc = "idle"
     \/ Reuse /\ ppc = "built" /\ gen = "ended"

(* _build: spawn the procs, put the files, then one None per proc.         *)
Build ==
  /\ MayBuild /\ ~fileClosed /\ \A p \in Procs : Gone(p)
  /\ ppc' = "built" /\ gen' = "off" /\ runs' = runs + 1
  /\ fileQ' = fileQ \o [k \in 1..(NumHanded + NumProc) |->
                          IF k <= NumHanded THEN k ELSE NoFile]
  /\ pc' = [p \in Procs |-> "wait"]
  /\ todo' = [p \in Procs |-> <<>>] /\ part' = [p \in Procs |-> <<>>]
  /\ full' = {} /\ stopClosed' = {}
  /\ buffer' = [p \in Procs |-> <<>>] /\ inhand' = [p \in Procs |-> <<>>]
  /\ done' = 0 /\ delivered' = <<>> /\ ended' = {}
  /\ UNCHANGED <<procStart, fileClosed, tokenVars, pipe, sem>>

(* _build on a closed file_que: put raises ValueError.                     *)
BuildFails ==
  /\ MayBuild /\ fileClosed
  /\ ppc' = "failed"
  /\ UNCHANGED <<gen, procStart, fileClosed, runs, tokenVars, fileQ, procVars,
                 queVars, genVars>>

(* The first next() of _sample_generator.                                  *)
GenStart ==
  /\ ppc = "built" /\ gen = "off"
  /\ gen' = "running"
  /\ procStart' = TRUE
  /\ startTok' = IF procStart THEN startTok ELSE startTok + NumProc
  /\ UNCHANGED <<ppc, fileClosed, runs, stopBuf, stopPipe, fileQ, procVars,
                 queVars, genVars>>

(* data_que.get answers; a batch is yielded, a None counted.               *)
GenGet ==
  /\ ppc = "built" /\ gen = "running" /\ pipe # <<>>
  /\ TakeFromPipe
  /\ IF Head(pipe).end
     THEN /\ done' = done + 1
          /\ ended' = ended \cup {Head(pipe).from}
          /\ UNCHANGED delivered
     ELSE /\ delivered' = Append(delivered, Head(pipe))
          /\ UNCHANGED <<done, ended>>
  /\ UNCHANGED <<parentVars, tokenVars, fileQ, procVars, buffer, inhand>>

(* data_que.get times out: the only way out of the generator's loop.       *)
GenEmpty ==
  /\ ppc = "built" /\ gen = "running" /\ pipe = <<>>
  /\ gen' = IF AllDone THEN "ended" ELSE gen
  /\ UNCHANGED <<ppc, procStart, fileClosed, runs, tokenVars, fileQ, procVars,
                 queVars, genVars>>

(* stop() before the generator ran: only file_que is closed.               *)
StopUnstarted ==
  /\ StopEarly /\ ppc = "built" /\ ~procStart
  /\ ppc' = "idle" /\ fileClosed' = TRUE
  /\ UNCHANGED <<gen, procStart, runs, tokenVars, fileQ, procVars, queVars,
                 genVars>>

(* stop(), at the end of the data or once max_steps are trained: from here *)
(* on nothing pulls the generator.                                         *)
StopBegin ==
  /\ ppc = "built" /\ procStart
  /\ ppc' = "stopping" /\ gen' = "off" /\ fileClosed' = TRUE
  /\ stopBuf' = stopBuf + NumProc
  /\ UNCHANGED <<procStart, runs, startTok, stopPipe, fileQ, procVars, queVars,
                 genVars>>

(* The parent's feeder thread of proc_stop_que.                            *)
StopTokenSent ==
  /\ stopBuf > 0
  /\ stopBuf' = stopBuf - 1 /\ stopPipe' = stopPipe + 1
  /\ UNCHANGED <<parentVars, startTok, fileQ, procVars, queVars, genVars>>

(* Faulty variant: stop() waits without emptying data_que.                 *)
StopWaits ==
  /\ ppc = "stopping" /\ \E p \in Procs : ~Gone(p)
  /\ UNCHANGED vars

(* while _any_alive(): data_que.get(timeout=1), the answer thrown away.    *)
StopDrain ==
  /\ ppc = "stopping" /\ \E p \in Procs : ~Gone(p)
  /\ \/ pipe # <<>> /\ TakeFromPipe
     \/ pipe = <<>> /\ UNCHANGED <<pipe, sem>>
  /\ UNCHANGED <<parentVars, tokenVars, fileQ, procVars, buffer, inhand, genVars>>

(* All procs joined: _rebuild_que and the flags reset.                     *)
StopFinish ==
  /\ ppc = "stopping" /\ \A p \in Procs : Gone(p)
  /\ ppc' = "idle" /\ procStart' = FALSE /\ fileClosed' = FALSE
  /\ QueuesBuilt /\ fileQ' = <<>>
  /\ UNCHANGED <<gen, runs, procVars, buffer, inhand, genVars>>

---------------------------------------------------------------------------
(* load_data_proc                                                          *)

StopSignalled(p) == p \in stopClosed \/ stopPipe > 0

(* _should_stop answers True: a token is taken and the queue closed, or    *)
(* the queue was closed already.                                           *)
TakeStop(p) ==
  /\ StopSignalled(p)
  /\ stopPipe' = IF p \in stopClosed THEN stopPipe ELSE stopPipe - 1
  /\ stopClosed' = stopClosed \cup {p}

Goto(p, l) == pc' = [pc EXCEPT ![p] = l]

(* proc_start_que.get()                                                    *)
WaitStart(p) ==
  /\ pc[p] = "wait" /\ startTok > 0
  /\ startTok' = startTok - 1 /\ Goto(p, "check")
  /\ UNCHANGED <<parentVars, stopBuf, stopPipe, fileQ, todo, part, full,
                 stopClosed, queVars, genVars>>

(* The head of the file loop: stop, or go on to the next file.             *)
SeeStop(p) ==
  /\ pc[p] = "check" /\ TakeStop(p) /\ Goto(p, "drain")
  /\ UNCHANGED <<parentVars, startTok, stopBuf, fileQ, todo, part, full,
                 queVars, genVars>>

SeeNoStop(p) ==
  /\ pc[p] = "check" /\ ~StopSignalled(p) /\ Goto(p, "file")
  /\ UNCHANGED <<parentVars, tokenVars, fileQ, todo, part, full, stopClosed,
                 queVars, genVars>>

(* _get_one_file waits without looking at proc_stop_que.                   *)
GetFile(p) ==
  /\ pc[p] = "file" /\ fileQ # <<>>
  /\ fileQ' = Tail(fileQ)
  /\ IF Head(fileQ) = NoFile
     THEN Goto(p, "rem") /\ UNCHANGED todo
     ELSE Goto(p, "batch") /\ todo' = [todo EXCEPT ![p] = Rows(Head(fileQ))]
  /\ UNCHANGED <<parentVars, tokenVars, part, full, stopClosed, queVars, genVars>>

(* Faulty variant: put does not wait for a slot.                           *)
EnqueueUnbounded(p, msg) ==
  /\ p \notin full
  /\ sem' = sem - 1
  /\ buffer' = [buffer EXCEPT ![p] = Append(@, msg)]

(* Faulty variant: appendleft instead of append.                           *)
EnqueueFront(p, msg) ==
  /\ p \notin full /\ sem > 0
  /\ sem' = sem - 1
  /\ buffer' = [buffer EXCEPT ![p] = <<msg>> \o @]

(* data_que.put: a slot of the semaphore, then the process's own buffer.   *)
Enqueue(p, msg) ==
  /\ p \notin full /\ sem > 0
  /\ sem' = sem - 1
  /\ buffer' = [buffer EXCEPT ![p] = Append(@, msg)]

(* A whole batch of the current file.                                      *)
PutBatch(p) ==
  /\ pc[p] = "batch" /\ Len(todo[p]) >= BatchSize
  /\ Enqueue(p, Batch(p, FirstOf(todo[p])))
  /\ todo' = [todo EXCEPT ![p] = RestOf(@)]
  /\ UNCHANGED <<parentVars, tokenVars, fileQ, pc, part, full, stopClosed,
                 inhand, pipe, genVars>>

(* The rest of the file: part_data_dict['reserve'] raises KeyError when    *)
(* reserve fields are configured.                                          *)
PadFails(p) ==
  HasReserve /\ pc[p] = "batch" /\ Len(todo[p]) \in 1..(BatchSize - 1)

Pads(p) == pc[p] = "batch" /\ Len(todo[p]) < BatchSize /\ ~PadFails(p)

Crash(p) ==
  /\ PadFails(p) /\ Goto(p, "crashed")
  /\ UNCHANGED <<parentVars, tokenVars, fileQ, todo, part, full, stopClosed,
                 queVars, genVars>>

(* The rest of the file joins what was carried; less than a batch is       *)
(* carried on, else a batch is put and what is left over carried on.       *)
Carry(p) ==
  /\ Pads(p) /\ Len(Joined(p)) < BatchSize
  /\ part' = [part EXCEPT ![p] = Joined(p)]
  /\ todo' = [todo EXCEPT ![p] = <<>>]
  /\ Goto(p, "check")
  /\ UNCHANGED <<parentVars, tokenVars, fileQ, full, stopClosed, queVars, genVars>>

PutPadded(p) ==
  /\ Pads(p) /\ Len(Joined(p)) >= BatchSize
  /\ Enqueue(p, Batch(p, FirstOf(Joined(p))))
  /\ part' = [part EXCEPT ![p] = RestOf(Joined(p))]
  /\ todo' = [todo EXCEPT ![p] = <<>>]
  /\ Goto(p, "check")
  /\ UNCHANGED <<parentVars, tokenVars, fileQ, full, stopClosed, inhand, pipe,
                 genVars>>

(* After the last file: the rows still carried make a short batch, unless  *)
(* they are dropped.                                                       *)
HasShort(p) == pc[p] = "rem" /\ part[p] # <<>> /\ ~Drop

PutShort(p) ==
  /\ HasShort(p)
  /\ Enqueue(p, Batch(p, part[p]))
  /\ part' = [part EXCEPT ![p] = <<>>]
  /\ Goto(p, "mark")
  /\ UNCHANGED <<parentVars, tokenVars, fileQ, todo, full, stopClosed, inhand,
                 pipe, genVars>>

SkipShort(p) ==
  /\ pc[p] = "rem" /\ ~HasShort(p) /\ Goto(p, "mark")
  /\ UNCHANGED <<parentVars, tokenVars, fileQ, todo, part, full, stopClosed,
                 queVars, genVars>>

(* The None that tells the generator this proc is done, and               *)
(* data_que.close(wait_send_finish=True).                                  *)
PutEndMark(p) ==
  /\ pc[p] = "mark"
  /\ Enqueue(p, EndMark(p)) /\ Goto(p, "flush")
  /\ UNCHANGED <<parentVars, tokenVars, fileQ, todo, part, full, stopClosed,
                 inhand, pipe, genVars>>

(* _add_to_que: put ran into Full; then the stop signal is looked at.      *)
Putting(p) ==
  \/ pc[p] = "batch" /\ Len(todo[p]) >= BatchSize
  \/ Pads(p) /\ Len(Joined(p)) >= BatchSize
  \/ HasShort(p)
  \/ pc[p] = "mark"

PutTimeout(p) ==
  /\ Putting(p) /\ p \notin full /\ sem = 0
  /\ full' = full \cup {p}
  /\ UNCHANGED <<parentVars, tokenVars, fileQ, pc, todo, part, stopClosed,
                 queVars, genVars>>

PutAgain(p) ==
  /\ p \in full /\ ~StopSignalled(p)
  /\ full' = full \ {p}
  /\ UNCHANGED <<parentVars, tokenVars, fileQ, pc, todo, part, stopClosed,
                 queVars, genVars>>

(* _add_to_que returns False.  The caller of the short batch does not look *)
(* at the answer.  The others close data_que without waiting and wait for  *)
(* the end of file_que -- "redrain" if this proc met its own end already.  *)
GiveUp(p) ==
  /\ p \in full /\ TakeStop(p)
  /\ full' = full \ {p}
  /\ Goto(p, CASE pc[p] = "batch" -> "drain"
               [] pc[p] = "rem"   -> "mark"
               [] OTHER           -> "redrain")
  /\ UNCHANGED <<parentVars, startTok, stopBuf, fileQ, todo, part, queVars, genVars>>

(* while not is_good: file_que.get() until a None                          *)
DrainFiles(p) ==
  /\ pc[p] \in {"drain", "redrain"} /\ fileQ # <<>>
  /\ fileQ' = Tail(fileQ)
  /\ Goto(p, IF Head(fileQ) = NoFile THEN "abort" ELSE pc[p])
  /\ UNCHANGED <<parentVars, tokenVars, todo, part, full, stopClosed, queVars,
                 genVars>>

(* The process exits once its feeder thread is joined.                     *)
Exit(p) ==
  /\ inhand[p] = <<>>
  /\ \/ pc[p] \in {"flush", "crashed"} /\ buffer[p] = <<>>
     \/ pc[p] = "abort"
  /\ Goto(p, "exited")
  /\ UNCHANGED <<parentVars, tokenVars, fileQ, todo, part, full, stopClosed,
                 queVars, genVars>>

(* Faulty variant: pop instead of popleft.                                 *)
FeedTakeLast(p) ==
  /\ ~Gone(p) /\ ~Aborting(p) /\ inhand[p] = <<>> /\ buffer[p] # <<>>
  /\ inhand' = [inhand EXCEPT ![p] = <<buffer[p][Len(buffer[p])]>>]
  /\ buffer' = [buffer EXCEPT ![p] = SubSeq(@, 1, Len(@) - 1)]
  /\ UNCHANGED <<parentVars, tokenVars, fileQ, procVars, pipe, sem, genVars>>

(* The feeder thread of data_que in process p: _feed.                      *)
FeedTake(p) ==
  /\ ~Gone(p) /\ ~Aborting(p) /\ inhand[p] = <<>> /\ buffer[p] # <<>>
  /\ inhand' = [inhand EXCEPT ![p] = <<Head(buffer[p])>>]
  /\ buffer' = [buffer EXCEPT ![p] = Tail(@)]
  /\ UNCHANGED <<parentVars, tokenVars, fileQ, procVars, pipe, sem, genVars>>

FeedSend(p) ==
  /\ ~Gone(p) /\ inhand[p] # <<>> /\ Len(pipe) < PipeCap
  /\ pipe' = Append(pipe, Head(inhand[p]))
  /\ inhand' = [inhand EXCEPT ![p] = <<>>]
  /\ UNCHANGED <<parentVars, tokenVars, fileQ, procVars, buffer, sem, genVars>>

---------------------------------------------------------------------------

LoadDataProc(p) ==
  \/ WaitStart(p) \/ SeeStop(p) \/ SeeNoStop(p) \/ GetFile(p)
  \/ PutBatch(p) \/ Crash(p) \/ Carry(p) \/ PutPadded(p)
  \/ PutShort(p) \/ SkipShort(p) \/ PutEndMark(p)
  \/ PutTimeout(p) \/ PutAgain(p) \/ GiveUp(p)
  \/ DrainFiles(p) \/ Exit(p)

Feeder(p) == FeedTake(p) \/ FeedSend(p)

Generator == GenStart \/ GenGet \/ GenEmpty

Stop == StopDrain \/ StopFinish

(* The program is through with the input.                                  *)
Rest ==
  /\ ppc = "failed" \/ (runs = MaxRuns /\ ppc = "idle")
  /\ UNCHANGED vars

Next ==
  \/ Build \/ BuildFails \/ GenStart \/ GenGet \/ GenEmpty
  \/ StopUnstarted \/ StopBegin \/ StopTokenSent \/ StopDrain \/ StopFinish
  \/ \E p \in Procs : LoadDataProc(p) \/ Feeder(p)
  \/ Rest

(* Every process and thread keeps running, and the consumer keeps pulling  *)
(* the generator; nothing makes the caller build or stop.                  *)
Fairness ==
  /\ WF_vars(Generator) /\ WF_vars(Stop) /\ WF_vars(StopTokenSent)
  /\ \A p \in Procs : WF_vars(LoadDataProc(p)) /\ WF_vars(Feeder(p))

Spec == Init /\ [][Next]_vars
FairSpec == Spec /\ Fairness
---------------------------------------------------------------------------
(* Properties                                                              *)

Msgs == [from : Procs, rows : Seq(Nat \X Nat), end : BOOLEAN]

(* Every variable keeps to its type.                                       *)
TypeOK ==
  /\ ppc \in {"idle", "built", "stopping", "failed"}
  /\ gen \in {"off", "running", "ended"}
  /\ procStart \in BOOLEAN /\ fileClosed \in BOOLEAN /\ runs \in Nat
  /\ startTok \in Nat /\ stopBuf \in Nat /\ stopPipe \in Nat
  /\ fileQ \in Seq(0..NumHanded)
  /\ pc \in [Procs -> ProcPCs]
  /\ todo \in [Procs -> Seq(Nat \X Nat)]
  /\ part \in [Procs -> Seq(Nat \X Nat)]
  /\ full \subseteq Procs /\ stopClosed \subseteq Procs
  /\ buffer \in [Procs -> Seq(Msgs)] /\ inhand \in [Procs -> Seq(Msgs)]
  /\ pipe \in Seq(Msgs) /\ sem \in Nat
  /\ done \in Nat /\ delivered \in Seq(Msgs) /\ ended \subseteq Procs

Live == ppc \in {"built", "stopping"}

(* A place for each message in a buffer or in the hands of a feeder thread.*)
Unsent == UNION {{p} \X (1..(Len(buffer[p]) + Len(inhand[p]))) : p \in Procs}

(* Every slot of data_que is free or stands for one message that some      *)
(* buffer, feeder thread or the pipe holds -- those a stopping proc leaves *)
(* behind in its buffer included: no get or put loses or invents a slot.   *)
SlotsAccounted == Live => sem + Len(pipe) + Cardinality(Unsent) = PrefetchSize

(* When the generator ends by itself, it has yielded every row of the      *)
(* files of its task, once per epoch; with drop_remainder it is short of   *)
(* what each proc still carried, which is less than a batch.               *)
AllRows == UNION {ToSet(Rows(k)) : k \in 1..NumHanded}

Yielded == UNION {ToSet(m.rows) : m \in ToSet(delivered)}

RunComplete ==
  gen = "ended" =>
    LET carried == UNION {ToSet(part[p]) : p \in Procs}
    IN  /\ Yielded \cup carried = AllRows
        /\ ~Drop => carried = {}
        /\ \A p \in Procs : Len(part[p]) < BatchSize

(* A yielded batch is full, except the last one of a proc; with            *)
(* drop_remainder there is no exception.                                   *)
ShortOnlyLast ==
  \A i \in DOMAIN delivered :
    LET m == delivered[i]
    IN  /\ Len(m.rows) \in 1..BatchSize
        /\ Len(m.rows) < BatchSize =>
             /\ ~Drop
             /\ \A j \in i+1..Len(delivered) : delivered[j].from # m.from

(* The rows of one file come out in the order of the file, whatever the    *)
(* batches they are cut into and the proc's carried rows.                  *)
FileOrder ==
  \A i, j \in DOMAIN delivered :
    \A a \in DOMAIN delivered[i].rows, b \in DOMAIN delivered[j].rows :
      LET r == delivered[i].rows[a]
          s == delivered[j].rows[b]
      IN  (i < j \/ (i = j /\ a < b)) /\ r[1] = s[1] => r[2] < s[2]

(* The end mark of a proc is the last of it: once the generator has        *)
(* counted it, no batch of that proc is in the pipe, in the hands of its   *)
(* feeder thread or in its buffer.                                         *)
From(p, s) == \E i \in DOMAIN s : s[i].from = p

EndMarkIsLast ==
  \A p \in ended : ~From(p, pipe) /\ inhand[p] = <<>> /\ buffer[p] = <<>>

(* done_proc_cnt counts procs: no proc is counted twice.                   *)
DoneCountsProcs == done = Cardinality(ended)

(* The generator ends only when every proc is done and no batch is left    *)
(* anywhere in data_que.                                                   *)
GenEndsClean ==
  gen = "ended" =>
    /\ ended = Procs
    /\ pipe = <<>>
    /\ \A p \in Procs : buffer[p] = <<>> /\ inhand[p] = <<>>

(* A proc that ran into Full is still in the put that did.                 *)
FullPutting == \A p \in full : Putting(p)

(* What makes the end marks reliable, as an inductive invariant.  A proc   *)
(* whose mark has passed has nothing of its own behind it; a mark is the   *)
(* last message wherever it is on its way; and the queue is empty whenever *)
(* the procs of a new pass begin to use it.                                *)
Passed(p) ==
  pc[p] \in {"flush", "exited"} /\ buffer[p] = <<>> /\ inhand[p] = <<>>

BufferedMarks ==
  \A p \in Procs : \A i \in DOMAIN buffer[p] :
    /\ buffer[p][i].from = p
    /\ buffer[p][i].end => i = Len(buffer[p]) /\ pc[p] = "flush"

MarksInHand ==
  \A p \in Procs : inhand[p] # <<>> =>
    /\ Len(inhand[p]) = 1 /\ inhand[p][1].from = p
    /\ inhand[p][1].end => buffer[p] = <<>> /\ pc[p] = "flush"

MarksInPipe ==
  \A i \in DOMAIN pipe : pipe[i].end =>
    /\ Passed(pipe[i].from) /\ pipe[i].from \notin ended
    /\ \A j \in DOMAIN pipe : j > i => pipe[j].from # pipe[i].from

MarksCounted == \A p \in ended : Passed(p) /\ ~From(p, pipe)

QueueAtRest ==
  /\ gen = "ended" => AllDone /\ pipe = <<>>
  /\ ppc = "idle" /\ ~fileClosed => pipe = <<>> /\ \A p \in Procs : Gone(p)

EndMarkInv ==
  /\ BufferedMarks /\ MarksInHand /\ MarksInPipe /\ MarksCounted
  /\ DoneCountsProcs /\ QueueAtRest

(* The generator comes to an end (or stop() is called) as long as it is    *)
(* pulled.                                                                 *)
GenEnds == (gen = "running") ~> (gen # "running")

(* stop() returns.                                                         *)
StopReturns == (ppc = "stopping") ~> (ppc = "idle")

(* stop() returns if no proc that had met its own None in file_que gives   *)
(* up its end mark and goes on to take the None of another proc.           *)
StopReturnsInTime ==
  [](\A p \in Procs : pc[p] # "redrain") => StopReturns

(* The loader is a stream of the rows of its task's files.                 *)
Stream ==
  INSTANCE SampleStream WITH
    yielded <- [i \in DOMAIN delivered |-> delivered[i].rows],
    status <- IF gen = "running" THEN "on" ELSE gen,
    Slack <- IF Drop THEN NumProc * (BatchSize - 1) ELSE 0

(* The loader implements the abstract stream: no row is yielded twice in a *)
(* pass, and a pass that ends by itself has yielded all that it must.      *)
ImplementsStream == Stream!StreamSpec
=============================================================================
