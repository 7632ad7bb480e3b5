------------------------ MODULE ParquetLoader_proof ------------------------
(***************************************************************************)
(* Proofs about ParquetLoader, for any number of procs, files and rows.    *)
(***************************************************************************)
EXTENDS ParquetLoader, TLAPS, FiniteSetTheorems, FunctionTheorems, SequenceTheorems

(* The file number that _build puts k-th names an input file: its row      *)
(* count is there to be read (l.54-57 and 247-250 of parquet_input.py).    *)
LEMMA HandedFileExists ==
  ASSUME NEW k \in 1..NumHanded
  PROVE  HandedFile(k) + 1 \in 1..FileNum
<1>. DEFINE n == (FileNum + TaskNum - 1 - TaskIndex) \div TaskNum
<1>1. /\ FileNum \in Nat /\ TaskNum \in Nat \ {0} /\ TaskIndex \in 0..(TaskNum - 1)
  BY ConstAssumption DEF ConstAssumption, FileNum
<1>2. n \in Nat /\ n * TaskNum <= FileNum + TaskNum - 1 - TaskIndex
  <2>1. ASSUME NEW a \in Nat, NEW b \in Nat \ {0}
        PROVE  a \div b \in Nat /\ (a \div b) * b <= a
    BY <2>1, Z3
  <2>2. FileNum + TaskNum - 1 - TaskIndex \in Nat
    BY <1>1
  <2>. QED
    BY <1>1, <2>1, <2>2
<1>3. Len(MyFiles) = n /\ DOMAIN MyFiles = 1..n
  BY <1>2 DEF MyFiles
<1>. DEFINE j == ((k - 1) % n) + 1
<1>4. n > 0 /\ k - 1 \in Nat
  BY <1>2, <1>3, ConstAssumption DEF NumHanded, NumRepeat, ConstAssumption
<1>5. j \in 1..n
  BY <1>2, <1>4
<1>6. HandedFile(k) = TaskIndex + (j - 1) * TaskNum
  BY <1>3, <1>5 DEF HandedFile, MyFiles
<1>7. (j - 1) * TaskNum <= (n - 1) * TaskNum /\ (j - 1) * TaskNum \in Nat
  <2>1. ASSUME NEW a \in Nat, NEW b \in Nat, NEW t \in Nat, a <= b
        PROVE  a * t <= b * t /\ a * t \in Nat
    BY <2>1, Z3
  <2>. QED
    BY <1>1, <1>2, <1>5, <2>1
<1>8. (n - 1) * TaskNum = n * TaskNum - TaskNum
  BY <1>1, <1>2
<1>. HIDE DEF n, j
<1>. QED
  BY <1>1, <1>2, <1>5, <1>6, <1>7, <1>8

(* The rows of an input file are a sequence of rows, and there are finitely *)
(* many: load_data_proc cuts its batches out of it.                        *)
LEMMA RowsType ==
  ASSUME NEW k \in 1..NumHanded
  PROVE  Rows(k) \in Seq(Nat \X Nat)
<1>1. HandedFile(k) + 1 \in 1..FileNum
  BY HandedFileExists
<1>2. FileLen[HandedFile(k) + 1] \in Nat
  BY <1>1, ConstAssumption DEF ConstAssumption, FileNum
<1>. QED
  BY <1>2 DEF Rows

(* The numbers of files, of procs and of the files handed out are natural  *)
(* numbers, and each proc has a number.                                    *)
LEMMA CountsType ==
  /\ NumHanded \in Nat /\ NumProc \in Nat
  /\ PrefetchSize \in Nat \ {0} /\ BatchSize \in Nat \ {0}
<1>1. Len(MyFiles) \in Nat
  <2>. DEFINE n == (FileNum + TaskNum - 1 - TaskIndex) \div TaskNum
  <2>1. /\ FileNum \in Nat /\ TaskNum \in Nat \ {0} /\ TaskIndex \in 0..(TaskNum - 1)
    BY ConstAssumption DEF ConstAssumption, FileNum
  <2>2. ASSUME NEW a \in Nat, NEW b \in Nat \ {0}
        PROVE  a \div b \in Nat
    BY <2>2, Z3
  <2>3. FileNum + TaskNum - 1 - TaskIndex \in Nat
    BY <2>1
  <2>4. n \in Nat
    BY <2>1, <2>2, <2>3
  <2>. QED
    BY <2>4 DEF MyFiles
<1>2. NumHanded \in Nat
  BY <1>1, ConstAssumption DEF NumHanded, NumRepeat, ConstAssumption
<1>. QED
  BY <1>2, ConstAssumption, FS_CardinalityType DEF ConstAssumption, NumProc

(* The batch cut off a sequence and the rows left are sequences of rows.   *)
LEMMA CutType ==
  ASSUME NEW s \in Seq(Nat \X Nat), Len(s) >= BatchSize
  PROVE  FirstOf(s) \in Seq(Nat \X Nat) /\ RestOf(s) \in Seq(Nat \X Nat)
<1>1. BatchSize \in Nat \ {0} /\ Len(s) \in Nat
  BY CountsType, LenProperties
<1>2. /\ \A i \in 1..BatchSize : s[i] \in Nat \X Nat
      /\ \A i \in BatchSize+1..Len(s) : s[i] \in Nat \X Nat
  BY <1>1, ElementOfSeq
<1>3. SubSeq(s, 1, BatchSize) \in Seq(Nat \X Nat)
  BY <1>1, <1>2, SubSeqProperties
<1>4. SubSeq(s, BatchSize + 1, Len(s)) \in Seq(Nat \X Nat)
  BY <1>1, <1>2, SubSeqProperties
<1>. QED
  BY <1>3, <1>4 DEF FirstOf, RestOf

(* A message of data_que is typed by what it holds.                        *)
LEMMA MsgType ==
  ASSUME NEW p \in Procs, NEW s \in Seq(Nat \X Nat)
  PROVE  Batch(p, s) \in Msgs /\ EndMark(p) \in Msgs
  BY DEF Batch, EndMark, Msgs

(***************************************************************************)
(* Every step keeps the types: the tokens counted never run below zero and *)
(* every file taken out of file_que is one that was put in.                *)
(***************************************************************************)
LEMMA TypeStep == TypeOK /\ [Next]_vars => TypeOK'
<1>. SUFFICES ASSUME TypeOK, [Next]_vars PROVE TypeOK'
  OBVIOUS
<1>. USE CountsType DEF TypeOK, parentVars, tokenVars, procVars, queVars, genVars,
                        ProcPCs, Goto
<1>1. CASE Build
  <2>1. [k \in 1..(NumHanded + NumProc) |-> IF k <= NumHanded THEN k ELSE NoFile]
           \in Seq(0..NumHanded)
    BY DEF NoFile
  <2>. QED
    BY <1>1, <2>1, ConcatProperties DEF Build
<1>2. CASE BuildFails
  BY <1>2 DEF BuildFails
<1>3. CASE GenStart
  BY <1>3 DEF GenStart
<1>4. CASE GenGet
  <2>. DEFINE m == Head(pipe)
  <2>1. m \in Msgs /\ Tail(pipe) \in Seq(Msgs)
    BY <1>4, HeadTailProperties DEF GenGet
  <2>3. m.from \in Procs
    BY <2>1 DEF Msgs
  <2>2. Append(delivered, m) \in Seq(Msgs)
    BY <2>1, AppendProperties
  <2>4. pipe' \in Seq(Msgs) /\ sem' \in Nat
    BY <1>4, <2>1 DEF GenGet, TakeFromPipe
  <2>5. done' \in Nat /\ ended' \subseteq Procs /\ delivered' \in Seq(Msgs)
    <3>1. CASE m.end
      BY <1>4, <2>3, <3>1 DEF GenGet
    <3>2. CASE ~m.end
      BY <1>4, <2>2, <3>2 DEF GenGet
    <3>. QED
      BY <3>1, <3>2
  <2>. QED
    BY <1>4, <2>4, <2>5 DEF GenGet
<1>5. CASE GenEmpty
  BY <1>5 DEF GenEmpty
<1>6. CASE StopUnstarted
  BY <1>6 DEF StopUnstarted
<1>7. CASE StopBegin
  BY <1>7 DEF StopBegin
<1>8. CASE StopTokenSent
  BY <1>8 DEF StopTokenSent
<1>9. CASE StopDrain
  <2>1. pipe # <<>> => Tail(pipe) \in Seq(Msgs)
    BY HeadTailProperties
  <2>2. pipe' \in Seq(Msgs) /\ sem' \in Nat
    <3>1. \/ pipe' = pipe /\ sem' = sem
          \/ pipe # <<>> /\ pipe' = Tail(pipe) /\ sem' = sem + 1
      BY <1>9 DEF StopDrain, TakeFromPipe
    <3>2. pipe' \in Seq(Msgs)
      BY <2>1, <3>1, Zenon
    <3>3. sem' \in Nat
      BY <3>1
    <3>. QED
      BY <3>2, <3>3
  <2>. QED
    BY <1>9, <2>2 DEF StopDrain
<1>10. CASE StopFinish
  <2>1. pipe' \in Seq(Msgs) /\ fileQ' \in Seq(0..NumHanded)
    BY <1>10, EmptySeq DEF StopFinish, QueuesBuilt
  <2>. QED
    BY <1>10, <2>1 DEF StopFinish, QueuesBuilt
<1>11. ASSUME NEW p \in Procs, LoadDataProc(p) PROVE TypeOK'
  <2>1. CASE WaitStart(p)
    BY <2>1 DEF WaitStart
  <2>2. CASE SeeStop(p)
    BY <2>2 DEF SeeStop, TakeStop, StopSignalled
  <2>3. CASE SeeNoStop(p)
    BY <2>3 DEF SeeNoStop
  <2>4. CASE GetFile(p)
    <3>1. Head(fileQ) \in 0..NumHanded /\ Tail(fileQ) \in Seq(0..NumHanded)
      <4>1. fileQ \in Seq(0..NumHanded) /\ fileQ # <<>>
        BY <2>4 DEF GetFile
      <4>. QED
        BY <4>1, HeadTailProperties, Zenon
    <3>2. Head(fileQ) # NoFile => Rows(Head(fileQ)) \in Seq(Nat \X Nat)
      BY <3>1, RowsType DEF NoFile
    <3>3. pc' \in [Procs -> ProcPCs] /\ todo' \in [Procs -> Seq(Nat \X Nat)]
      <4>1. CASE Head(fileQ) = NoFile
        <5>1. pc' = [pc EXCEPT ![p] = "rem"] /\ todo' = todo
          BY <2>4, <4>1 DEF GetFile
        <5>. QED
          BY <5>1
      <4>2. CASE Head(fileQ) # NoFile
        <5>1. /\ pc' = [pc EXCEPT ![p] = "batch"]
              /\ todo' = [todo EXCEPT ![p] = Rows(Head(fileQ))]
          BY <2>4, <4>2 DEF GetFile
        <5>. QED
          BY <3>2, <4>2, <5>1
      <4>. QED
        BY <4>1, <4>2
    <3>4. /\ fileQ' \in Seq(0..NumHanded)
          /\ UNCHANGED <<parentVars, tokenVars, part, full, stopClosed, queVars, genVars>>
      BY <2>4, <3>1 DEF GetFile
    <3>. QED
      BY <3>3, <3>4
  <2>5. CASE PutBatch(p)
    <3>1. /\ Batch(p, FirstOf(todo[p])) \in Msgs
          /\ RestOf(todo[p]) \in Seq(Nat \X Nat)
      BY <2>5, CutType, MsgType, SMTT(30) DEF PutBatch
    <3>. QED
      BY <2>5, <3>1, SMTT(30) DEF PutBatch, Enqueue
  <2>6. CASE Crash(p)
    BY <2>6 DEF Crash
  <2>7. Joined(p) \in Seq(Nat \X Nat)
    BY DEF Joined
  <2>8. CASE Carry(p)
    BY <2>7, <2>8 DEF Carry
  <2>9. CASE PutPadded(p)
    <3>1. /\ Batch(p, FirstOf(Joined(p))) \in Msgs
          /\ RestOf(Joined(p)) \in Seq(Nat \X Nat)
      BY <2>7, <2>9, CutType, MsgType DEF PutPadded
    <3>. QED
      BY <2>9, <3>1 DEF PutPadded, Enqueue
  <2>10. CASE PutShort(p)
    <3>1. Batch(p, part[p]) \in Msgs
      BY MsgType
    <3>. QED
      BY <2>10, <3>1 DEF PutShort, Enqueue
  <2>11. CASE SkipShort(p)
    BY <2>11 DEF SkipShort
  <2>12. CASE PutEndMark(p)
    <3>1. EndMark(p) \in Msgs
      BY MsgType
    <3>. QED
      <4>1. buffer' \in [Procs -> Seq(Msgs)] /\ sem' \in Nat
        BY <2>12, <3>1 DEF PutEndMark, Enqueue
      <4>2. /\ pc' \in [Procs -> ProcPCs]
            /\ UNCHANGED <<parentVars, tokenVars, fileQ, todo, part, full, stopClosed,
                           inhand, pipe, genVars>>
        BY <2>12 DEF PutEndMark
      <4>. QED
        BY <4>1, <4>2
  <2>13. CASE PutTimeout(p)
    BY <2>13 DEF PutTimeout
  <2>14. CASE PutAgain(p)
    <3>1. /\ full' = full \ {p}
          /\ UNCHANGED <<parentVars, tokenVars, fileQ, pc, todo, part, stopClosed,
                         queVars, genVars>>
      BY <2>14 DEF PutAgain
    <3>. QED
      BY <3>1
  <2>15. CASE GiveUp(p)
    <3>1. stopPipe' \in Nat /\ stopClosed' \subseteq Procs
      <4>1. /\ p \in stopClosed \/ stopPipe > 0
            /\ stopPipe' = IF p \in stopClosed THEN stopPipe ELSE stopPipe - 1
            /\ stopClosed' = stopClosed \cup {p}
        BY <2>15 DEF GiveUp, TakeStop, StopSignalled
      <4>2. stopPipe \in Nat /\ stopClosed \subseteq Procs
        OBVIOUS
      <4>. HIDE DEF TypeOK
      <4>. QED
        BY <4>1, <4>2
    <3>2. pc' \in [Procs -> ProcPCs] /\ full' \subseteq Procs
      BY <2>15 DEF GiveUp
    <3>3. UNCHANGED <<parentVars, startTok, stopBuf, fileQ, todo, part, queVars, genVars>>
      BY <2>15 DEF GiveUp
    <3>. QED
      BY <3>1, <3>2, <3>3
  <2>16. CASE DrainFiles(p)
    <3>1. fileQ' \in Seq(0..NumHanded)
      BY <2>16, HeadTailProperties DEF DrainFiles
    <3>2. /\ pc' \in [Procs -> ProcPCs]
          /\ UNCHANGED <<parentVars, tokenVars, todo, part, full, stopClosed, queVars,
                         genVars>>
      BY <2>16 DEF DrainFiles
    <3>. QED
      BY <3>1, <3>2
  <2>17. CASE Exit(p)
    BY <2>17 DEF Exit
  <2>. QED
    BY <1>11, <2>1, <2>2, <2>3, <2>4, <2>5, <2>6, <2>8, <2>9, <2>10, <2>11,
       <2>12, <2>13, <2>14, <2>15, <2>16, <2>17 DEF LoadDataProc
<1>12. ASSUME NEW p \in Procs, Feeder(p) PROVE TypeOK'
  <2>1. CASE FeedTake(p)
    <3>1. Head(buffer[p]) \in Msgs /\ Tail(buffer[p]) \in Seq(Msgs)
      BY <2>1, HeadTailProperties DEF FeedTake
    <3>2. <<Head(buffer[p])>> \in Seq(Msgs)
      BY <3>1
    <3>. QED
      BY <2>1, <3>1, <3>2 DEF FeedTake
  <2>2. CASE FeedSend(p)
    <3>1. Head(inhand[p]) \in Msgs
      BY <2>2, HeadTailProperties DEF FeedSend
    <3>2. Append(pipe, Head(inhand[p])) \in Seq(Msgs) /\ <<>> \in Seq(Msgs)
      BY <3>1, AppendProperties, EmptySeq
    <3>. QED
      BY <2>2, <3>2 DEF FeedSend
  <2>. QED
    BY <1>12, <2>1, <2>2 DEF Feeder
<1>13. CASE UNCHANGED vars
  BY <1>13 DEF vars
<1>. QED
  BY <1>1, <1>2, <1>3, <1>4, <1>5, <1>6, <1>7, <1>8, <1>9, <1>10, <1>11, <1>12,
     <1>13 DEF Next, Rest

(* Every state of the loader is well typed.                                *)
THEOREM Typing == Spec => []TypeOK
<1>1. Init => TypeOK
  <2>1. /\ <<>> \in Seq(0..NumHanded) /\ <<>> \in Seq(Msgs)
        /\ <<>> \in Seq(Nat \X Nat)
    BY EmptySeq
  <2>. SUFFICES ASSUME Init PROVE TypeOK
    OBVIOUS
  <2>2. /\ todo \in [Procs -> Seq(Nat \X Nat)] /\ part \in [Procs -> Seq(Nat \X Nat)]
        /\ buffer \in [Procs -> Seq(Msgs)] /\ inhand \in [Procs -> Seq(Msgs)]
    BY <2>1 DEF Init
  <2>3. pc \in [Procs -> ProcPCs]
    BY DEF Init, ProcPCs
  <2>4. fileQ \in Seq(0..NumHanded) /\ pipe \in Seq(Msgs) /\ delivered \in Seq(Msgs)
    BY <2>1 DEF Init
  <2>. QED
    BY <2>2, <2>3, <2>4, CountsType DEF Init, TypeOK
<1>. QED
  BY <1>1, TypeStep, PTL DEF Spec

---------------------------------------------------------------------------
(* The end marks                                                           *)

(* Once all the procs are counted there is nothing of any of them left.    *)
LEMMA AllEnded ==
  ASSUME TypeOK, DoneCountsProcs, AllDone
  PROVE  ended = Procs
<1>1. IsFiniteSet(Procs) /\ ended \subseteq Procs
  BY ConstAssumption DEF ConstAssumption, TypeOK
<1>2. Cardinality(ended) <= Cardinality(Procs)
  BY <1>1, FS_Subset
<1>3. Cardinality(ended) = Cardinality(Procs)
  BY <1>1, <1>2, FS_CardinalityType, FS_Subset
     DEF DoneCountsProcs, AllDone, NumProc, TypeOK
<1>. QED
  BY <1>1, <1>3, FS_Subset

(* A message on its way to the generator comes from one of the procs.      *)
LEMMA MsgsHaveSender ==
  ASSUME NEW s \in Seq(Msgs), NEW i \in DOMAIN s
  PROVE  s[i] \in Msgs /\ s[i].from \in Procs
<1>1. s[i] \in Msgs
  BY ElementOfSeq, LenProperties
<1>. QED
  BY <1>1 DEF Msgs

(* A step inside a proc that is not past its mark, and touches no message. *)
LEMMA LocalStep ==
  ASSUME TypeOK, EndMarkInv, NEW p \in Procs, NEW l \in ProcPCs,
         pc[p] # "flush", ~Gone(p),
         pc' = [pc EXCEPT ![p] = l],
         UNCHANGED <<ppc, gen, fileClosed, buffer, inhand, pipe, done, ended>>
  PROVE  EndMarkInv'
<1>. USE DEF TypeOK
<1>1. \A q \in Procs : Passed(q) => Passed(q)'
  BY DEF Passed, Gone
<1>2. BufferedMarks' /\ MarksInHand'
  BY DEF EndMarkInv, BufferedMarks, MarksInHand
<1>3. MarksInPipe'
  <2>1. \A i \in DOMAIN pipe : pipe[i].from \in Procs
    BY MsgsHaveSender
  <2>. QED
    BY <1>1, <2>1 DEF EndMarkInv, MarksInPipe
<1>4. MarksCounted'
  BY <1>1 DEF EndMarkInv, MarksCounted, From
<1>5. DoneCountsProcs' /\ QueueAtRest'
  BY DEF EndMarkInv, DoneCountsProcs, QueueAtRest, AllDone, Gone
<1>. QED
  BY <1>2, <1>3, <1>4, <1>5 DEF EndMarkInv

(* A put: the message is the last of the proc's buffer, and the proc goes  *)
(* to "flush" with its end mark and only then.                             *)
LEMMA PutStep ==
  ASSUME TypeOK, EndMarkInv, NEW p \in Procs, NEW l \in ProcPCs, NEW m \in Msgs,
         pc[p] # "flush", ~Gone(p), m.from = p,
         m.end => l = "flush",
         pc' = [pc EXCEPT ![p] = l],
         buffer' = [buffer EXCEPT ![p] = Append(@, m)],
         UNCHANGED <<ppc, gen, fileClosed, inhand, pipe, done, ended>>
  PROVE  EndMarkInv'
<1>. USE DEF TypeOK
<1>1. \A q \in Procs : Passed(q) => Passed(q)'
  BY DEF Passed, Gone
<1>2. BufferedMarks'
  <2>. SUFFICES ASSUME NEW q \in Procs, NEW i \in DOMAIN buffer'[q]
                PROVE  /\ buffer'[q][i].from = q
                       /\ buffer'[q][i].end => i = Len(buffer'[q]) /\ pc'[q] = "flush"
    BY DEF BufferedMarks
  <2>1. CASE q # p
    BY <2>1 DEF EndMarkInv, BufferedMarks
  <2>2. CASE q = p
    <3>1. buffer[p] \in Seq(Msgs)
      OBVIOUS
    <3>2. /\ buffer'[q] = Append(buffer[p], m)
          /\ Len(buffer'[q]) = Len(buffer[p]) + 1
          /\ i \in 1..Len(buffer[p]) + 1
      BY <2>2, <3>1, AppendProperties
    <3>3. CASE i = Len(buffer[p]) + 1
      BY <2>2, <3>1, <3>2, <3>3, AppendProperties
    <3>4. CASE i \in DOMAIN buffer[p]
      BY <2>2, <3>1, <3>2, <3>4, AppendProperties DEF EndMarkInv, BufferedMarks
    <3>. QED
      BY <3>1, <3>2, <3>3, <3>4
  <2>. QED
    BY <2>1, <2>2
<1>3. MarksInHand'
  BY DEF EndMarkInv, MarksInHand
<1>4. MarksInPipe'
  <2>1. \A i \in DOMAIN pipe : pipe[i].from \in Procs
    BY MsgsHaveSender
  <2>. QED
    BY <1>1, <2>1 DEF EndMarkInv, MarksInPipe
<1>5. MarksCounted'
  BY <1>1 DEF EndMarkInv, MarksCounted, From
<1>6. DoneCountsProcs' /\ QueueAtRest'
  BY DEF EndMarkInv, DoneCountsProcs, QueueAtRest, AllDone, Gone
<1>. QED
  BY <1>2, <1>3, <1>4, <1>5, <1>6 DEF EndMarkInv

(* Taking the oldest message moves the others up by one place.             *)
LEMMA ShiftedPipe ==
  ASSUME TypeOK, pipe # <<>>, pipe' = Tail(pipe)
  PROVE  \A i \in DOMAIN pipe' : /\ i \in Nat \ {0} /\ i + 1 \in DOMAIN pipe
                                 /\ pipe'[i] = pipe[i + 1]
<1>1. pipe \in Seq(Msgs)
  BY DEF TypeOK
<1>2. Tail(pipe) \in Seq(Msgs) /\ Len(Tail(pipe)) = Len(pipe) - 1
  BY <1>1, HeadTailProperties
<1>3. /\ DOMAIN pipe = 1..Len(pipe) /\ Len(pipe) \in Nat
      /\ DOMAIN Tail(pipe) = 1..(Len(pipe) - 1)
  BY <1>1, <1>2, LenProperties
<1>4. \A i \in 1..Len(Tail(pipe)) : Tail(pipe)[i] = pipe[i + 1]
  BY <1>1, HeadTailProperties
<1>. QED
  BY <1>2, <1>3, <1>4

(* ... which disturbs no mark.                                             *)
LEMMA ShiftedMarks ==
  ASSUME TypeOK, EndMarkInv, pipe # <<>>, pipe' = Tail(pipe),
         UNCHANGED <<pc, buffer, inhand, ended>>
  PROVE  MarksInPipe' /\ MarksCounted'
<1>1. \A i \in DOMAIN pipe' : /\ i \in Nat \ {0} /\ i + 1 \in DOMAIN pipe
                              /\ pipe'[i] = pipe[i + 1]
  BY ShiftedPipe
<1>2. \A p : Passed(p)' = Passed(p)
  BY DEF Passed
<1>3. MarksInPipe'
  <2>1. ASSUME NEW i \in DOMAIN pipe', pipe'[i].end, NEW q, q = pipe'[i].from
        PROVE  /\ Passed(q)' /\ q \notin ended
               /\ \A j \in DOMAIN pipe' : j > i => pipe'[j].from # q
    <3>1. pipe[i + 1].end /\ pipe[i + 1].from = q /\ i + 1 \in DOMAIN pipe
      BY <1>1, <2>1
    <3>2. /\ Passed(q) /\ q \notin ended
          /\ \A j \in DOMAIN pipe : j > i + 1 => pipe[j].from # q
      BY <3>1 DEF EndMarkInv, MarksInPipe
    <3>3. \A j \in DOMAIN pipe' : j > i => pipe'[j].from # q
      BY <1>1, <2>1, <3>2
    <3>. QED
      BY <1>2, <3>2, <3>3
  <2>. QED
    BY <2>1 DEF MarksInPipe, Passed
<1>4. MarksCounted'
  BY <1>1, <1>2 DEF EndMarkInv, MarksCounted, From
<1>. QED
  BY <1>3, <1>4

(* Only the procs that are not in a put move on, so one that ran into Full *)
(* waits where it was.                                                     *)
LEMMA FullStep == TypeOK /\ FullPutting /\ [Next]_vars => FullPutting'
<1>. SUFFICES ASSUME TypeOK, FullPutting, [Next]_vars PROVE FullPutting'
  OBVIOUS
<1>. USE DEF parentVars, tokenVars, procVars, queVars, genVars
<1>1. CASE UNCHANGED procVars
  BY <1>1 DEF FullPutting, Putting, Pads, PadFails, HasShort, Joined
<1>2. CASE Build
  BY <1>2 DEF Build, FullPutting
<1>3. ASSUME NEW p \in Procs, LoadDataProc(p) PROVE FullPutting'
  <2>1. \A q \in Procs : q # p => pc'[q] = pc[q] /\ todo'[q] = todo[q] /\ part'[q] = part[q]
    BY <1>3 DEF LoadDataProc, WaitStart, SeeStop, SeeNoStop, GetFile, PutBatch,
       Crash, Carry, PutPadded, PutShort, SkipShort, PutEndMark, PutTimeout,
       PutAgain, GiveUp, DrainFiles, Exit, Goto, TypeOK
  <2>2. \A q \in Procs : q # p /\ Putting(q) => Putting(q)'
    BY <2>1 DEF Putting, Pads, PadFails, HasShort, Joined
  <2>3. full' \subseteq Procs
    BY TypeStep DEF TypeOK
  <2>4. full' \subseteq full \cup {p}
    BY <1>3 DEF LoadDataProc, WaitStart, SeeStop, SeeNoStop, GetFile, PutBatch,
       Crash, Carry, PutPadded, PutShort, SkipShort, PutEndMark, PutTimeout,
       PutAgain, GiveUp, DrainFiles, Exit
  <2>5. p \in full' => Putting(p)'
    <3>1. CASE PutTimeout(p)
      BY <3>1 DEF PutTimeout, Putting, Pads, PadFails, HasShort, Joined
    <3>2. CASE PutAgain(p) \/ GiveUp(p)
      BY <3>2 DEF PutAgain, GiveUp
    <3>3. CASE PutBatch(p) \/ PutPadded(p) \/ PutShort(p) \/ PutEndMark(p)
      BY <3>3 DEF PutBatch, PutPadded, PutShort, PutEndMark, Enqueue
    <3>4. CASE ~Putting(p) /\ full' = full
      BY <3>4 DEF FullPutting
    <3>5. CASE WaitStart(p) \/ SeeStop(p) \/ SeeNoStop(p) \/ GetFile(p)
               \/ DrainFiles(p) \/ Exit(p)
      BY <3>4, <3>5 DEF WaitStart, SeeStop, SeeNoStop, GetFile, DrainFiles, Exit,
         Putting, Pads, HasShort
    <3>6. Len(todo[p]) \in Nat /\ Len(Joined(p)) \in Nat /\ BatchSize \in Nat
      BY CountsType DEF TypeOK, Joined
    <3>7. CASE Crash(p) \/ Carry(p) \/ SkipShort(p)
      BY <3>4, <3>6, <3>7 DEF Crash, Carry, SkipShort, Putting, Pads, PadFails,
         HasShort
    <3>. QED
      BY <1>3, <3>1, <3>2, <3>3, <3>5, <3>7 DEF LoadDataProc
  <2>. QED
    BY <2>2, <2>3, <2>4, <2>5 DEF FullPutting
<1>4. UNCHANGED procVars \/ Build \/ \E p \in Procs : LoadDataProc(p)
  BY DEF Next, BuildFails, GenStart, GenGet, GenEmpty, StopUnstarted, StopBegin,
     StopTokenSent, StopDrain, StopFinish, Feeder, FeedTake, FeedSend, Rest, vars
<1>. QED
  BY <1>1, <1>2, <1>3, <1>4

(***************************************************************************)
(* Every step keeps the end-mark invariant.                                *)
(***************************************************************************)
LEMMA EndMarkStep ==
  TypeOK /\ FullPutting /\ EndMarkInv /\ [Next]_vars => EndMarkInv'
<1>. SUFFICES ASSUME TypeOK, FullPutting, EndMarkInv, [Next]_vars
     PROVE  EndMarkInv'
  OBVIOUS
<1>. USE DEF parentVars, tokenVars, procVars, queVars, genVars
<1>0. ASSUME UNCHANGED <<pc, buffer, inhand, pipe, done, ended>>,
             QueueAtRest'
      PROVE  EndMarkInv'
  BY <1>0 DEF EndMarkInv, BufferedMarks, MarksInHand, MarksInPipe, MarksCounted,
              DoneCountsProcs, Passed, From
<1>1. CASE Build
  <2>1. pipe = <<>>
    BY <1>1 DEF Build, MayBuild, EndMarkInv, QueueAtRest
  <2>2. BufferedMarks' /\ MarksInHand'
    BY <1>1 DEF Build, BufferedMarks, MarksInHand
  <2>3. MarksInPipe' /\ MarksCounted' /\ QueueAtRest'
    BY <1>1, <2>1 DEF Build, MarksInPipe, MarksCounted, QueueAtRest
  <2>4. DoneCountsProcs'
    BY <1>1, FS_EmptySet DEF Build, DoneCountsProcs
  <2>. QED
    BY <2>2, <2>3, <2>4 DEF EndMarkInv
<1>2. CASE BuildFails
  BY <1>0, <1>2 DEF BuildFails, EndMarkInv, QueueAtRest, AllDone, Gone
<1>3. CASE GenStart
  BY <1>0, <1>3 DEF GenStart, EndMarkInv, QueueAtRest, AllDone, Gone
<1>4. CASE GenGet
  <2>. DEFINE q == Head(pipe).from
  <2>1. /\ pipe # <<>> /\ pipe' = Tail(pipe)
        /\ ppc' = "built" /\ gen' = "running"
        /\ UNCHANGED <<pc, buffer, inhand>>
    BY <1>4 DEF GenGet, TakeFromPipe
  <2>2. /\ Head(pipe) = pipe[1] /\ 1 \in DOMAIN pipe
        /\ q \in Procs /\ ended \subseteq Procs /\ IsFiniteSet(ended)
    <3>1. 1 \in DOMAIN pipe /\ Head(pipe) = pipe[1]
      BY <2>1, LenProperties, EmptySeq DEF TypeOK
    <3>. QED
      BY <3>1, MsgsHaveSender, ConstAssumption, FS_Subset DEF TypeOK, ConstAssumption
  <2>3. \A i \in DOMAIN pipe' : i + 1 \in DOMAIN pipe /\ pipe'[i] = pipe[i + 1]
    BY <2>1, ShiftedPipe
  <2>4. BufferedMarks' /\ MarksInHand' /\ QueueAtRest'
    BY <2>1 DEF EndMarkInv, BufferedMarks, MarksInHand, QueueAtRest
  <2>5. \A p \in Procs : Passed(p)' = Passed(p)
    BY <2>1 DEF Passed
  <2>6. CASE Head(pipe).end
    <3>1. ended' = ended \cup {q} /\ done' = done + 1
      BY <1>4, <2>6 DEF GenGet
    <3>2. /\ Passed(q) /\ q \notin ended
          /\ \A j \in DOMAIN pipe : j > 1 => pipe[j].from # q
      BY <2>2, <2>6 DEF EndMarkInv, MarksInPipe
    <3>3. \A i \in DOMAIN pipe' : pipe'[i].from # q
      <4>1. \A i \in DOMAIN pipe' : i \in Nat \ {0}
        BY <2>1, ShiftedPipe
      <4>. QED
        BY <2>3, <3>2, <4>1
    <3>4. MarksInPipe'
      BY <2>1, <2>3, <2>5, <3>1, <3>3, ShiftedPipe, MsgsHaveSender
         DEF EndMarkInv, MarksInPipe, TypeOK
    <3>5. MarksCounted'
      BY <2>2, <2>3, <2>5, <3>1, <3>2, <3>3 DEF EndMarkInv, MarksCounted, From
    <3>6. DoneCountsProcs'
      BY <2>2, <3>1, <3>2, FS_AddElement DEF EndMarkInv, DoneCountsProcs
    <3>. QED
      BY <2>4, <3>4, <3>5, <3>6 DEF EndMarkInv
  <2>7. CASE ~Head(pipe).end
    <3>1. ended' = ended /\ done' = done
      BY <1>4, <2>7 DEF GenGet
    <3>2. MarksInPipe' /\ MarksCounted'
      BY <2>1, <2>3, <2>5, <3>1, ShiftedMarks
    <3>3. DoneCountsProcs'
      BY <3>1 DEF EndMarkInv, DoneCountsProcs
    <3>. QED
      BY <2>4, <3>2, <3>3 DEF EndMarkInv
  <2>. QED
    BY <2>6, <2>7
<1>5. CASE GenEmpty
  BY <1>0, <1>5 DEF GenEmpty, EndMarkInv, QueueAtRest, AllDone, Gone
<1>6. CASE StopUnstarted
  BY <1>0, <1>6 DEF StopUnstarted, EndMarkInv, QueueAtRest, AllDone, Gone
<1>7. CASE StopBegin
  BY <1>0, <1>7 DEF StopBegin, EndMarkInv, QueueAtRest, AllDone, Gone
<1>8. CASE StopTokenSent
  BY <1>0, <1>8 DEF StopTokenSent, EndMarkInv, QueueAtRest, AllDone, Gone
<1>9. CASE StopDrain
  <2>1. CASE pipe' = pipe
    BY <1>0, <1>9, <2>1 DEF StopDrain, EndMarkInv, QueueAtRest, AllDone, Gone
  <2>2. CASE pipe # <<>> /\ pipe' = Tail(pipe)
    <3>1. UNCHANGED <<pc, buffer, inhand, ended, done, gen>> /\ ppc' = "stopping"
      BY <1>9 DEF StopDrain
    <3>2. BufferedMarks' /\ MarksInHand' /\ DoneCountsProcs'
      BY <3>1 DEF EndMarkInv, BufferedMarks, MarksInHand, DoneCountsProcs
    <3>3. MarksInPipe' /\ MarksCounted'
      BY <2>2, <3>1, ShiftedMarks
    <3>4. QueueAtRest'
      BY <2>2, <3>1 DEF EndMarkInv, QueueAtRest
    <3>. QED
      BY <3>2, <3>3, <3>4 DEF EndMarkInv
  <2>. QED
    BY <1>9, <2>1, <2>2 DEF StopDrain, TakeFromPipe
<1>10. CASE StopFinish
  <2>1. /\ pipe' = <<>> /\ gen' = gen /\ ppc' = "idle"
        /\ UNCHANGED <<pc, buffer, inhand, done, ended>>
    BY <1>10 DEF StopFinish, QueuesBuilt
  <2>3. \A p \in Procs : Gone(p)
    BY <1>10 DEF StopFinish
  <2>2. \A p : ~From(p, pipe')
    BY <2>1 DEF From
  <2>. QED
    BY <2>1, <2>2, <2>3 DEF EndMarkInv, BufferedMarks, MarksInHand, MarksInPipe,
       MarksCounted, DoneCountsProcs, QueueAtRest, AllDone, Passed, From, Gone
<1>11. ASSUME NEW p \in Procs, LoadDataProc(p) PROVE EndMarkInv'
  <2>1. CASE WaitStart(p)
    <3>1. /\ pc[p] # "flush" /\ ~Gone(p)
          /\ pc' = [pc EXCEPT ![p] = "check"] /\ "check" \in ProcPCs
      BY <2>1 DEF WaitStart, Goto, ProcPCs, Gone, TypeOK
    <3>. QED
      BY <2>1, <3>1, LocalStep DEF WaitStart
  <2>2. CASE SeeStop(p)
    <3>1. /\ pc[p] # "flush" /\ ~Gone(p)
          /\ pc' = [pc EXCEPT ![p] = "drain"] /\ "drain" \in ProcPCs
      BY <2>2 DEF SeeStop, Goto, ProcPCs, Gone, TypeOK
    <3>. QED
      BY <2>2, <3>1, LocalStep DEF SeeStop
  <2>3. CASE SeeNoStop(p)
    <3>1. /\ pc[p] # "flush" /\ ~Gone(p)
          /\ pc' = [pc EXCEPT ![p] = "file"] /\ "file" \in ProcPCs
      BY <2>3 DEF SeeNoStop, Goto, ProcPCs, Gone, TypeOK
    <3>. QED
      BY <2>3, <3>1, LocalStep DEF SeeNoStop
  <2>4. CASE Crash(p)
    <3>1. /\ pc[p] # "flush" /\ ~Gone(p)
          /\ pc' = [pc EXCEPT ![p] = "crashed"] /\ "crashed" \in ProcPCs
      BY <2>4 DEF Crash, Goto, ProcPCs, Gone, PadFails, TypeOK
    <3>. QED
      BY <2>4, <3>1, LocalStep DEF Crash
  <2>5. CASE Carry(p)
    <3>1. /\ pc[p] # "flush" /\ ~Gone(p)
          /\ pc' = [pc EXCEPT ![p] = "check"] /\ "check" \in ProcPCs
      BY <2>5 DEF Carry, Goto, ProcPCs, Gone, Pads, TypeOK
    <3>. QED
      BY <2>5, <3>1, LocalStep DEF Carry
  <2>6. CASE SkipShort(p)
    <3>1. /\ pc[p] # "flush" /\ ~Gone(p)
          /\ pc' = [pc EXCEPT ![p] = "mark"] /\ "mark" \in ProcPCs
      BY <2>6 DEF SkipShort, Goto, ProcPCs, Gone, TypeOK
    <3>. QED
      BY <2>6, <3>1, LocalStep DEF SkipShort
  <2>7. CASE GetFile(p)
    <3>1. PICK l \in ProcPCs : pc' = [pc EXCEPT ![p] = l]
      BY <2>7 DEF GetFile, Goto, ProcPCs, Gone
    <3>. QED
      BY <2>7, <3>1, LocalStep DEF GetFile, Gone
  <2>8. CASE GiveUp(p) \/ DrainFiles(p)
    <3>1. PICK l \in ProcPCs : pc' = [pc EXCEPT ![p] = l]
      BY <2>8 DEF GiveUp, DrainFiles, Goto, ProcPCs, Gone
    <3>2. pc[p] # "flush" /\ ~Gone(p)
      BY <2>8 DEF GiveUp, DrainFiles, FullPutting, Putting, Pads, HasShort, Gone
    <3>. QED
      BY <2>8, <3>1, <3>2, LocalStep DEF GiveUp, DrainFiles
  <2>9. CASE PutTimeout(p) \/ PutAgain(p)
    BY <1>0, <2>9 DEF PutTimeout, PutAgain, EndMarkInv, QueueAtRest, AllDone, Gone
  <2>10. CASE PutBatch(p)
    <3>. DEFINE m == Batch(p, FirstOf(todo[p]))
    <3>1. m \in Msgs /\ m.from = p /\ ~m.end
      BY <2>10, CutType, MsgType DEF PutBatch, TypeOK, Batch
    <3>2. pc' = [pc EXCEPT ![p] = "batch"] /\ pc[p] = "batch" /\ "batch" \in ProcPCs /\ ~Gone(p)
      BY <2>10 DEF PutBatch, TypeOK, ProcPCs, Gone
    <3>3. buffer' = [buffer EXCEPT ![p] = Append(@, m)]
      BY <2>10 DEF PutBatch, Enqueue
    <3>. HIDE DEF m
    <3>. QED
      BY <2>10, <3>1, <3>2, <3>3, PutStep DEF PutBatch
  <2>11. CASE PutPadded(p)
    <3>. DEFINE m == Batch(p, FirstOf(Joined(p)))
    <3>1. m \in Msgs /\ m.from = p /\ ~m.end
      <4>1. Joined(p) \in Seq(Nat \X Nat)
        BY DEF Joined, TypeOK
      <4>. QED
        BY <2>11, <4>1, CutType, MsgType DEF PutPadded, Batch
    <3>2. /\ pc' = [pc EXCEPT ![p] = "check"] /\ "check" \in ProcPCs
          /\ pc[p] = "batch" /\ ~Gone(p)
      BY <2>11 DEF PutPadded, Pads, Goto, ProcPCs, Gone
    <3>3. buffer' = [buffer EXCEPT ![p] = Append(@, m)]
      BY <2>11 DEF PutPadded, Enqueue
    <3>. HIDE DEF m
    <3>. QED
      BY <2>11, <3>1, <3>2, <3>3, PutStep DEF PutPadded
  <2>12. CASE PutShort(p)
    <3>. DEFINE m == Batch(p, part[p])
    <3>1. m \in Msgs /\ m.from = p /\ ~m.end
      BY <2>12, MsgType DEF PutShort, TypeOK, Batch
    <3>2. /\ pc' = [pc EXCEPT ![p] = "mark"] /\ "mark" \in ProcPCs
          /\ pc[p] = "rem" /\ ~Gone(p)
      BY <2>12 DEF PutShort, HasShort, Goto, ProcPCs, Gone
    <3>3. buffer' = [buffer EXCEPT ![p] = Append(@, m)]
      BY <2>12 DEF PutShort, Enqueue
    <3>. HIDE DEF m
    <3>. QED
      BY <2>12, <3>1, <3>2, <3>3, PutStep DEF PutShort
  <2>13. CASE PutEndMark(p)
    <3>. DEFINE m == EndMark(p)
    <3>1. m \in Msgs /\ m.from = p
      BY MsgType, EmptySeq DEF EndMark
    <3>2. /\ pc' = [pc EXCEPT ![p] = "flush"] /\ "flush" \in ProcPCs
          /\ pc[p] = "mark" /\ ~Gone(p)
      BY <2>13 DEF PutEndMark, Goto, ProcPCs, Gone
    <3>3. buffer' = [buffer EXCEPT ![p] = Append(@, m)]
      BY <2>13 DEF PutEndMark, Enqueue
    <3>. HIDE DEF m
    <3>. QED
      BY <2>13, <3>1, <3>2, <3>3, PutStep DEF PutEndMark
  <2>14. CASE Exit(p)
    <3>1. pc' = [pc EXCEPT ![p] = "exited"] /\ "exited" \in ProcPCs
      BY <2>14 DEF Exit, Goto, ProcPCs, Gone
    <3>2. CASE pc[p] = "flush"
      <4>1. inhand[p] = <<>> /\ buffer[p] = <<>>
        BY <2>14, <3>2 DEF Exit
      <4>2. UNCHANGED <<ppc, gen, fileClosed, buffer, inhand, pipe, done, ended>>
        BY <2>14 DEF Exit
      <4>3. \A q \in Procs : Passed(q) => Passed(q)'
        BY <3>1, <4>2 DEF Passed, TypeOK
      <4>4. BufferedMarks' /\ MarksInHand'
        BY <3>1, <4>1, <4>2 DEF EndMarkInv, BufferedMarks, MarksInHand, TypeOK
      <4>5. MarksInPipe' /\ MarksCounted'
        BY <4>2, <4>3, MsgsHaveSender
           DEF EndMarkInv, MarksInPipe, MarksCounted, From, TypeOK
      <4>6. DoneCountsProcs' /\ QueueAtRest'
        BY <3>1, <3>2, <4>2 DEF EndMarkInv, DoneCountsProcs, QueueAtRest, AllDone,
                                Gone, TypeOK
      <4>. QED
        BY <4>4, <4>5, <4>6 DEF EndMarkInv
    <3>3. CASE pc[p] # "flush"
      <4>1. ~Gone(p)
        BY <2>14, <3>3 DEF Exit, Gone
      <4>. QED
        BY <2>14, <3>1, <3>3, <4>1, LocalStep DEF Exit
    <3>. QED
      BY <3>2, <3>3
  <2>. QED
    BY <1>11, <2>1, <2>2, <2>3, <2>4, <2>5, <2>6, <2>7, <2>8, <2>9, <2>10, <2>11, <2>12, <2>13, <2>14 DEF LoadDataProc
<1>12. ASSUME NEW p \in Procs, FeedTake(p) PROVE EndMarkInv'
  <2>. DEFINE m == Head(buffer[p])
  <2>1. /\ buffer[p] \in Seq(Msgs) /\ buffer[p] # <<>>
        /\ inhand' = [inhand EXCEPT ![p] = <<m>>]
        /\ buffer' = [buffer EXCEPT ![p] = Tail(@)]
        /\ UNCHANGED <<ppc, gen, fileClosed, pc, pipe, done, ended>>
    BY <1>12 DEF FeedTake, TypeOK
  <2>2. /\ 1 \in DOMAIN buffer[p] /\ m = buffer[p][1]
        /\ Len(Tail(buffer[p])) = Len(buffer[p]) - 1 /\ Len(buffer[p]) \in Nat \ {0}
        /\ DOMAIN Tail(buffer[p]) = 1..(Len(buffer[p]) - 1)
        /\ \A i \in 1..(Len(buffer[p]) - 1) : Tail(buffer[p])[i] = buffer[p][i + 1]
        /\ DOMAIN buffer[p] = 1..Len(buffer[p])
    BY <2>1, HeadTailProperties, LenProperties, EmptySeq
  <2>3. m.from = p /\ (m.end => Len(buffer[p]) = 1 /\ pc[p] = "flush")
    <3>1. /\ buffer[p][1].from = p
          /\ buffer[p][1].end => 1 = Len(buffer[p]) /\ pc[p] = "flush"
      BY <2>2 DEF EndMarkInv, BufferedMarks
    <3>. QED
      BY <2>2, <3>1
  <2>4. \A q \in Procs : Passed(q) => Passed(q)'
    BY <2>1 DEF Passed, TypeOK
  <2>5. BufferedMarks'
    <3>1. \A q \in Procs : q # p => buffer'[q] = buffer[q]
      BY <2>1 DEF TypeOK
    <3>2. buffer'[p] = Tail(buffer[p])
      BY <2>1 DEF TypeOK
    <3>. QED
      BY <2>1, <2>2, <3>1, <3>2 DEF EndMarkInv, BufferedMarks
  <2>6. MarksInHand'
    <3>1. inhand'[p] = <<m>> /\ Len(inhand'[p]) = 1 /\ inhand'[p][1] = m
      BY <2>1 DEF TypeOK
    <3>2. m.end => buffer'[p] = <<>>
      <4>1. buffer'[p] = Tail(buffer[p]) /\ Tail(buffer[p]) \in Seq(Msgs)
        BY <2>1, HeadTailProperties DEF TypeOK
      <4>2. m.end => Len(Tail(buffer[p])) = 0
        BY <2>2, <2>3
      <4>. HIDE DEF m
      <4>. QED
        BY <4>1, <4>2, EmptySeq
    <3>3. \A q \in Procs : q # p => inhand'[q] = inhand[q] /\ buffer'[q] = buffer[q]
      BY <2>1 DEF TypeOK
    <3>. QED
      BY <2>1, <2>3, <3>1, <3>2, <3>3 DEF EndMarkInv, MarksInHand
  <2>7. MarksInPipe' /\ MarksCounted'
    BY <2>1, <2>4, MsgsHaveSender
       DEF EndMarkInv, MarksInPipe, MarksCounted, From, TypeOK
  <2>8. DoneCountsProcs' /\ QueueAtRest'
    BY <2>1 DEF EndMarkInv, DoneCountsProcs, QueueAtRest, AllDone, Gone
  <2>. QED
    BY <2>5, <2>6, <2>7, <2>8 DEF EndMarkInv
<1>13. ASSUME NEW p \in Procs, FeedSend(p) PROVE EndMarkInv'
  <2>. DEFINE m == Head(inhand[p])
  <2>1. /\ inhand[p] # <<>> /\ inhand[p] \in Seq(Msgs) /\ pipe \in Seq(Msgs)
        /\ pipe' = Append(pipe, m)
        /\ inhand' = [inhand EXCEPT ![p] = <<>>]
        /\ UNCHANGED <<ppc, gen, fileClosed, pc, buffer, done, ended>>
    BY <1>13 DEF FeedSend, TypeOK
  <2>2. /\ m \in Msgs /\ m.from = p
        /\ m.end => buffer[p] = <<>> /\ pc[p] = "flush"
    <3>1. m = inhand[p][1]
      BY <2>1
    <3>2. m \in Msgs
      BY <2>1, HeadTailProperties
    <3>. QED
      BY <2>1, <3>1, <3>2 DEF EndMarkInv, MarksInHand
  <2>. HIDE DEF m
  <2>3. /\ DOMAIN pipe = 1..Len(pipe) /\ Len(pipe) \in Nat
        /\ DOMAIN pipe' = 1..(Len(pipe) + 1)
        /\ \A i \in 1..Len(pipe) : pipe'[i] = pipe[i]
        /\ pipe'[Len(pipe) + 1] = m
    BY <2>1, <2>2, AppendProperties, LenProperties
  <2>4. \A q \in Procs : Passed(q) => Passed(q)' /\ q # p
    BY <2>1 DEF Passed, TypeOK
  <2>5. p \notin ended /\ ~Passed(p)
    BY <2>1 DEF EndMarkInv, MarksCounted, Passed
  <2>6. BufferedMarks' /\ MarksInHand'
    <3>1. BufferedMarks'
      BY <2>1, SMTT(30) DEF EndMarkInv, BufferedMarks, TypeOK
    <3>2. MarksInHand'
      BY <2>1, SMTT(30) DEF EndMarkInv, MarksInHand, TypeOK
    <3>. QED
      BY <3>1, <3>2
  <2>7. MarksInPipe'
    <3>1. ASSUME NEW i \in DOMAIN pipe', pipe'[i].end, NEW q, q = pipe'[i].from
          PROVE  /\ Passed(q)' /\ q \notin ended
                 /\ \A j \in DOMAIN pipe' : j > i => pipe'[j].from # q
      <4>1. CASE i = Len(pipe) + 1
        <5>1. q = p /\ m.end
          BY <2>2, <2>3, <3>1, <4>1
        <5>2. Passed(p)'
          BY <2>1, <2>2, <5>1 DEF Passed, TypeOK
        <5>. QED
          BY <2>3, <2>5, <4>1, <5>1, <5>2
      <4>2. CASE i \in DOMAIN pipe
        <5>1. pipe[i].end /\ pipe[i].from = q /\ q \in Procs
          BY <2>1, <2>3, <3>1, <4>2, MsgsHaveSender
        <5>2. /\ Passed(q) /\ q \notin ended
              /\ \A j \in DOMAIN pipe : j > i => pipe[j].from # q
          BY <4>2, <5>1 DEF EndMarkInv, MarksInPipe
        <5>. QED
          BY <2>2, <2>3, <2>4, <5>1, <5>2
      <4>. QED
        BY <2>3, <4>1, <4>2
    <3>. QED
      BY <2>1, <3>1 DEF MarksInPipe, Passed
  <2>8. MarksCounted'
    <3>. SUFFICES ASSUME NEW q \in ended, NEW i \in DOMAIN pipe'
                  PROVE  Passed(q)' /\ pipe'[i].from # q
      BY <2>1 DEF MarksCounted, From
    <3>1. q \in Procs /\ Passed(q) /\ ~From(q, pipe)
      BY DEF EndMarkInv, MarksCounted, TypeOK
    <3>2. CASE i = Len(pipe) + 1
      BY <2>2, <2>3, <2>4, <3>1, <3>2
    <3>3. CASE i \in DOMAIN pipe
      BY <2>3, <2>4, <3>1, <3>3 DEF From
    <3>. QED
      BY <2>3, <3>2, <3>3
  <2>9. DoneCountsProcs' /\ QueueAtRest'
    <3>1. DoneCountsProcs'
      BY <2>1 DEF EndMarkInv, DoneCountsProcs
    <3>2. gen # "ended"
      BY <2>5, AllEnded DEF EndMarkInv, QueueAtRest
    <3>3. ~(ppc = "idle" /\ ~fileClosed)
      BY <1>13 DEF FeedSend, EndMarkInv, QueueAtRest
    <3>. QED
      BY <2>1, <3>1, <3>2, <3>3 DEF QueueAtRest
  <2>. QED
    BY <2>6, <2>7, <2>8, <2>9 DEF EndMarkInv
<1>14. CASE UNCHANGED vars
  BY <1>0, <1>14 DEF vars, EndMarkInv, QueueAtRest, AllDone, Gone
<1>. QED
  BY <1>1, <1>2, <1>3, <1>4, <1>5, <1>6, <1>7, <1>8, <1>9, <1>10, <1>11, <1>12,
     <1>13, <1>14 DEF Next, Rest, Feeder

(* A proc that ran into queue.Full has not left its put.                   *)
THEOREM FullIsPutting == Spec => []FullPutting
<1>1. Init => FullPutting
  BY DEF Init, FullPutting
<1>. QED
  BY <1>1, FullStep, Typing, PTL DEF Spec

(* The end marks of the procs are the last of their messages, each is      *)
(* counted once, and a pass begins on an empty queue.                      *)
THEOREM EndMarks == Spec => []EndMarkInv
<1>1. Init => EndMarkInv
  BY FS_EmptySet DEF Init, EndMarkInv, BufferedMarks, MarksInHand, MarksInPipe,
     MarksCounted, DoneCountsProcs, QueueAtRest, Gone
<1>. QED
  BY <1>1, EndMarkStep, FullIsPutting, Typing, PTL DEF Spec

(* Once the generator has counted the end mark of a proc, no batch of that *)
(* proc is left in data_que.                                               *)
THEOREM NothingAfterEndMark == Spec => []EndMarkIsLast
<1>1. EndMarkInv => EndMarkIsLast
  BY DEF EndMarkInv, MarksCounted, Passed, EndMarkIsLast
<1>. QED
  BY <1>1, EndMarks, PTL

(* No end mark is counted twice: done_proc_cnt is a number of procs.       *)
THEOREM DoneIsProcs == Spec => []DoneCountsProcs
<1>1. EndMarkInv => DoneCountsProcs
  BY DEF EndMarkInv
<1>. QED
  BY <1>1, EndMarks, PTL

(* When the generator ends, all procs are done and data_que is empty, in   *)
(* the pipe and in every buffer: no batch is left behind.                  *)
THEOREM GeneratorEndsClean == Spec => []GenEndsClean
<1>1. TypeOK /\ EndMarkInv => GenEndsClean
  <2>. SUFFICES ASSUME TypeOK, EndMarkInv, gen = "ended"
                PROVE  ended = Procs /\ pipe = <<>>
                       /\ \A p \in Procs : buffer[p] = <<>> /\ inhand[p] = <<>>
    BY DEF GenEndsClean
  <2>1. ended = Procs
    BY AllEnded DEF EndMarkInv, QueueAtRest
  <2>. QED
    BY <2>1 DEF EndMarkInv, QueueAtRest, MarksCounted, Passed
<1>. QED
  BY <1>1, EndMarks, Typing, PTL

---------------------------------------------------------------------------
(* The slots of data_que                                                   *)

(* The messages that wait with each proc, and a place for each of them.    *)
Waiting == [p \in Procs |-> Len(buffer[p]) + Len(inhand[p])]

Places(h) == UNION {{p} \X (1..h[p]) : p \in Procs}

(* With the slots that are taken goes that all are free when a pass begins *)
(* after stop().                                                           *)
SlotsInv ==
  /\ SlotsAccounted
  /\ ppc = "idle" /\ ~fileClosed => sem = PrefetchSize

(* There are finitely many places.                                         *)
LEMMA PlacesAre ==
  ASSUME NEW h \in [Procs -> Nat]
  PROVE  /\ \A x : x \in Places(h) <=> \E p \in Procs : \E i \in 1..h[p] : x = <<p, i>>
         /\ IsFiniteSet(Places(h))
<1>1. ASSUME NEW p \in Procs PROVE IsFiniteSet({p} \X (1..h[p]))
  <2>1. IsFiniteSet({p})
    BY FS_Singleton
  <2>2. IsFiniteSet(1..h[p])
    <3>1. 1 \in Int /\ h[p] \in Int
      OBVIOUS
    <3>. QED
      BY <3>1, FS_Interval
  <2>. QED
    BY <2>1, <2>2, FS_Product
<1>2. IsFiniteSet({{p} \X (1..h[p]) : p \in Procs})
  <2>. DEFINE T == {{p} \X (1..h[p]) : p \in Procs}
              f == [p \in Procs |-> {p} \X (1..h[p])]
  <2>1. f \in Surjection(Procs, T)
    BY DEF Surjection
  <2>2. IsFiniteSet(Procs)
    BY ConstAssumption DEF ConstAssumption
  <2>. HIDE DEF f, T
  <2>3. IsFiniteSet(T)
    BY <2>1, <2>2, FS_Surjection
  <2>. QED
    BY <2>3 DEF T
<1>3. IsFiniteSet(Places(h))
  BY <1>1, <1>2, FS_UNION DEF Places
<1>4. \A x : x \in Places(h) <=> \E p \in Procs : \E i \in 1..h[p] : x = <<p, i>>
  BY DEF Places
<1>. QED
  BY <1>3, <1>4

(* One message more is one place more.                                     *)
LEMMA OnePlace ==
  ASSUME NEW h \in [Procs -> Nat], NEW g \in [Procs -> Nat], NEW p \in Procs,
         g = [h EXCEPT ![p] = h[p] + 1]
  PROVE  Cardinality(Places(g)) = Cardinality(Places(h)) + 1
<1>. DEFINE x == <<p, h[p] + 1>>
<1>1. /\ \A y : y \in Places(h) <=> \E q \in Procs : \E i \in 1..h[q] : y = <<q, i>>
      /\ \A y : y \in Places(g) <=> \E q \in Procs : \E i \in 1..g[q] : y = <<q, i>>
      /\ IsFiniteSet(Places(h))
  BY PlacesAre
<1>2. 1..(h[p] + 1) = 1..h[p] \cup {h[p] + 1} /\ h[p] + 1 \notin 1..h[p]
  OBVIOUS
<1>3. g[p] = h[p] + 1 /\ \A q \in Procs : q # p => g[q] = h[q]
  OBVIOUS
<1>4. ASSUME NEW y \in Places(g) PROVE y \in Places(h) \cup {x}
  <2>0. PICK q \in Procs : \E i \in 1..g[q] : y = <<q, i>>
    BY <1>1
  <2>1. PICK i \in 1..g[q] : y = <<q, i>>
    BY <2>0
  <2>2. i \in 1..h[q] \/ (q = p /\ i = h[p] + 1)
    BY <1>2, <1>3
  <2>. QED
    BY <1>1, <2>1, <2>2
<1>5. Places(h) \subseteq Places(g)
  <2>. SUFFICES ASSUME NEW y \in Places(h) PROVE y \in Places(g)
    OBVIOUS
  <2>0. PICK q \in Procs : \E i \in 1..h[q] : y = <<q, i>>
    BY <1>1
  <2>1. PICK i \in 1..h[q] : y = <<q, i>>
    BY <2>0
  <2>2. i \in 1..g[q]
    BY <1>2, <1>3
  <2>. QED
    BY <1>1, <2>1, <2>2
<1>6. x \in Places(g)
  <2>1. h[p] + 1 \in 1..g[p]
    BY <1>3
  <2>. QED
    BY <1>1, <2>1
<1>7. x \notin Places(h)
  BY <1>1, <1>2
<1>8. Places(g) = Places(h) \cup {x}
  BY <1>4, <1>5, <1>6
<1>. HIDE DEF x
<1>9. Cardinality(Places(h) \cup {x}) = Cardinality(Places(h)) + 1
  BY <1>1, <1>7, FS_AddElement
<1>. QED
  BY <1>8, <1>9

(* The messages that wait are in these places.                             *)
LEMMA UnsentIs == Unsent = Places(Waiting)
  BY DEF Unsent, Places, Waiting

(* With each proc waits a number of messages.                              *)
LEMMA WaitingType == TypeOK => Waiting \in [Procs -> Nat]
  BY LenProperties DEF TypeOK, Waiting

(* UnsentIs after a step.                                                  *)
LEMMA UnsentNext == Unsent' = Places(Waiting')
  BY DEF Unsent, Places, Waiting

(* WaitingType after a step.                                               *)
LEMMA WaitingTypeNext == TypeOK' => Waiting' \in [Procs -> Nat]
  BY LenProperties DEF TypeOK, Waiting

(* A put takes a slot for the message it puts into the buffer.             *)
LEMMA SlotTaken ==
  ASSUME TypeOK, TypeOK', EndMarkInv, SlotsInv, NEW p \in Procs, ~Gone(p),
         NEW m \in Msgs, Enqueue(p, m), UNCHANGED <<ppc, fileClosed, inhand, pipe>>
  PROVE  SlotsInv'
<1>1. /\ buffer[p] \in Seq(Msgs) /\ sem' = sem - 1
      /\ buffer' = [buffer EXCEPT ![p] = Append(buffer[p], m)]
  BY DEF Enqueue, TypeOK
<1>2. Len(Append(buffer[p], m)) = Len(buffer[p]) + 1 /\ Len(buffer[p]) \in Nat
  BY <1>1, AppendProperties, LenProperties
<1>3. Len(inhand[p]) \in Nat /\ buffer \in [Procs -> Seq(Msgs)]
  BY LenProperties DEF TypeOK
<1>4. /\ Waiting' = [Waiting EXCEPT ![p] = Waiting[p] + 1]
      /\ Waiting \in [Procs -> Nat] /\ Waiting' \in [Procs -> Nat]
  <2>1. /\ Len(buffer'[p]) + Len(inhand[p]) = Len(buffer[p]) + Len(inhand[p]) + 1
        /\ \A q \in Procs : q # p => buffer'[q] = buffer[q]
    <3>1. Len(buffer'[p]) = Len(buffer[p]) + 1
      BY <1>1, <1>2, <1>3
    <3>2. \A q \in Procs : q # p => buffer'[q] = buffer[q]
      BY <1>1, <1>3
    <3>3. ASSUME NEW a \in Nat, NEW b \in Nat PROVE (a + 1) + b = a + b + 1
      OBVIOUS
    <3>. QED
      BY <1>2, <1>3, <3>1, <3>2, <3>3
  <2>2. Waiting' = [Waiting EXCEPT ![p] = Waiting[p] + 1]
    BY <2>1 DEF Waiting
  <2>. QED
    BY <2>2, WaitingType, WaitingTypeNext
<1>5. Cardinality(Unsent') = Cardinality(Unsent) + 1
  <2>1. Cardinality(Places(Waiting')) = Cardinality(Places(Waiting)) + 1
    BY <1>4, OnePlace, Zenon
  <2>. QED
    BY <2>1, UnsentIs, UnsentNext
<1>6. Cardinality(Unsent) \in Nat /\ Len(pipe) \in Nat /\ sem \in Nat
  BY <1>4, UnsentIs, PlacesAre, FS_CardinalityType, LenProperties DEF TypeOK
<1>7. SlotsAccounted'
  BY <1>1, <1>5, <1>6 DEF SlotsInv, SlotsAccounted, Live
<1>8. ~(ppc = "idle" /\ ~fileClosed)
  BY DEF EndMarkInv, QueueAtRest
<1>. QED
  BY <1>7, <1>8 DEF SlotsInv

(* The feeder thread keeps the slots of its messages: one that goes from   *)
(* the buffer to its hand ...                                              *)
LEMMA SlotToHand ==
  ASSUME TypeOK, SlotsInv, NEW p \in Procs, FeedTake(p)
  PROVE  SlotsInv'
<1>1. /\ buffer[p] \in Seq(Msgs) /\ buffer[p] # <<>> /\ inhand[p] = <<>>
      /\ inhand' = [inhand EXCEPT ![p] = <<Head(buffer[p])>>]
      /\ buffer' = [buffer EXCEPT ![p] = Tail(buffer[p])]
      /\ UNCHANGED <<ppc, fileClosed, pipe, sem>>
  BY DEF FeedTake, TypeOK, parentVars
<1>2. Len(buffer[p]) \in Nat /\ Len(Tail(buffer[p])) = Len(buffer[p]) - 1
  BY <1>1, HeadTailProperties, LenProperties
<1>3. Len(<<Head(buffer[p])>>) = 1 /\ Len(inhand[p]) = 0
  BY <1>1
<1>4. buffer \in [Procs -> Seq(Msgs)] /\ inhand \in [Procs -> Seq(Msgs)]
  BY DEF TypeOK
<1>5. \A q \in Procs : Len(buffer'[q]) + Len(inhand'[q]) = Len(buffer[q]) + Len(inhand[q])
  <2>. SUFFICES ASSUME NEW q \in Procs
                PROVE  Len(buffer'[q]) + Len(inhand'[q]) = Len(buffer[q]) + Len(inhand[q])
    OBVIOUS
  <2>1. CASE q = p
    <3>1. buffer'[q] = Tail(buffer[p]) /\ inhand'[q] = <<Head(buffer[p])>>
      BY <1>1, <1>4, <2>1
    <3>2. Len(buffer'[q]) = Len(buffer[q]) - 1 /\ Len(inhand'[q]) = 1
      BY <1>2, <1>3, <2>1, <3>1
    <3>3. ASSUME NEW a \in Nat PROVE (a - 1) + 1 = a + 0
      OBVIOUS
    <3>. QED
      BY <1>2, <1>3, <2>1, <3>2, <3>3
  <2>2. CASE q # p
    BY <1>1, <1>4, <2>2
  <2>. QED
    BY <2>1, <2>2
<1>6. Unsent' = Unsent
  BY <1>5, UnsentIs, UnsentNext DEF Waiting
<1>. QED
  BY <1>1, <1>6 DEF SlotsInv, SlotsAccounted, Live

(* ... and one that goes from there to the pipe.                           *)
LEMMA SlotToPipe ==
  ASSUME TypeOK, TypeOK', EndMarkInv, SlotsInv, NEW p \in Procs, FeedSend(p)
  PROVE  SlotsInv'
<1>1. /\ inhand[p] \in Seq(Msgs) /\ inhand[p] # <<>> /\ pipe \in Seq(Msgs)
      /\ inhand' = [inhand EXCEPT ![p] = <<>>] /\ pipe' = Append(pipe, Head(inhand[p]))
      /\ UNCHANGED <<ppc, fileClosed, buffer, sem>>
  BY DEF FeedSend, TypeOK, parentVars
<1>2. Len(inhand[p]) = 1 /\ Len(<<>>) = 0
  BY <1>1 DEF EndMarkInv, MarksInHand
<1>3. Len(pipe') = Len(pipe) + 1 /\ Len(pipe) \in Nat
  <2>1. Head(inhand[p]) \in Msgs
    BY <1>1, HeadTailProperties
  <2>. QED
    BY <1>1, <2>1, AppendProperties, LenProperties
<1>4. /\ Waiting = [Waiting' EXCEPT ![p] = Waiting'[p] + 1]
      /\ Waiting \in [Procs -> Nat] /\ Waiting' \in [Procs -> Nat]
  <2>1. \A q \in Procs : Len(buffer[q]) \in Nat /\ inhand \in [Procs -> Seq(Msgs)]
    BY LenProperties DEF TypeOK
  <2>2. /\ Len(buffer[p]) + Len(inhand[p]) = Len(buffer[p]) + Len(inhand'[p]) + 1
        /\ \A q \in Procs : q # p => inhand'[q] = inhand[q]
    <3>1. Len(inhand'[p]) = 0
      BY <1>1, <1>2, <2>1
    <3>2. \A q \in Procs : q # p => inhand'[q] = inhand[q]
      BY <1>1, <2>1
    <3>3. ASSUME NEW a \in Nat PROVE a + 1 = a + 0 + 1
      OBVIOUS
    <3>. QED
      BY <1>2, <2>1, <3>1, <3>2, <3>3
  <2>3. Waiting = [Waiting' EXCEPT ![p] = Waiting'[p] + 1]
    BY <1>1, <2>2 DEF Waiting
  <2>. QED
    BY <2>3, WaitingType, WaitingTypeNext
<1>5. Cardinality(Unsent) = Cardinality(Unsent') + 1
  <2>1. Cardinality(Places(Waiting)) = Cardinality(Places(Waiting')) + 1
    BY <1>4, OnePlace, Zenon
  <2>. QED
    BY <2>1, UnsentIs, UnsentNext
<1>6. Cardinality(Unsent') \in Nat /\ sem \in Nat
  BY <1>4, UnsentNext, PlacesAre, FS_CardinalityType DEF TypeOK
<1>. QED
  BY <1>1, <1>3, <1>5, <1>6 DEF SlotsInv, SlotsAccounted, Live

(* A get frees a slot.                                                     *)
LEMMA SlotFreed ==
  ASSUME TypeOK, SlotsInv, pipe # <<>>, TakeFromPipe, ppc # "idle",
         UNCHANGED <<ppc, buffer, inhand>>
  PROVE  SlotsInv'
<1>1. Len(pipe') = Len(pipe) - 1 /\ Len(pipe) \in Nat /\ sem' = sem + 1
  BY HeadTailProperties, LenProperties DEF TakeFromPipe, TypeOK
<1>2. Cardinality(Unsent) \in Nat /\ sem \in Nat
  BY WaitingType, UnsentIs, PlacesAre, FS_CardinalityType DEF TypeOK
<1>3. Unsent' = Unsent
  BY UnsentIs, UnsentNext DEF Waiting
<1>. QED
  BY <1>1, <1>2, <1>3 DEF SlotsInv, SlotsAccounted, Live

(* Every step keeps the account of the slots.                              *)
LEMMA SlotsStep ==
  ASSUME TypeOK, TypeOK', FullPutting, EndMarkInv, SlotsInv, [Next]_vars
  PROVE  SlotsInv'
<1>. USE DEF parentVars, tokenVars, procVars, queVars, genVars
<1>1. CASE Build
  <2>1. Unsent' = {}
    <3>1. \A p \in Procs : Len(buffer'[p]) + Len(inhand'[p]) = 0
      BY <1>1 DEF Build
    <3>2. \A p \in Procs : 1..(Len(buffer'[p]) + Len(inhand'[p])) = {}
      <4>1. 1..0 = {}
        OBVIOUS
      <4>. QED
        BY <3>1, <4>1
    <3>. QED
      BY <3>2 DEF Unsent
  <2>2. pipe' = <<>> /\ sem' = PrefetchSize
    <3>1. CASE ppc = "idle"
      BY <1>1, <3>1 DEF Build, EndMarkInv, QueueAtRest, SlotsInv
    <3>2. CASE ppc = "built" /\ gen = "ended"
      <4>1. pipe = <<>> /\ \A p \in Procs : buffer[p] = <<>> /\ inhand[p] = <<>>
        <5>1. ended = Procs
          BY <3>2, AllEnded DEF EndMarkInv, QueueAtRest
        <5>. QED
          BY <3>2, <5>1 DEF EndMarkInv, QueueAtRest, MarksCounted, Passed
      <4>2. Unsent = {}
        <5>1. \A p \in Procs : Len(buffer[p]) + Len(inhand[p]) = 0
          <6>. SUFFICES ASSUME NEW p \in Procs PROVE Len(buffer[p]) + Len(inhand[p]) = 0
            OBVIOUS
          <6>1. Len(buffer[p]) = 0 /\ Len(inhand[p]) = 0
            BY <4>1
          <6>. QED
            BY <6>1
        <5>2. 1..0 = {}
          OBVIOUS
        <5>. QED
          BY <5>1, <5>2 DEF Unsent
      <4>3. sem = PrefetchSize
        BY <3>2, <4>1, <4>2, FS_EmptySet DEF SlotsInv, SlotsAccounted, Live, TypeOK
      <4>. QED
        BY <1>1, <4>1, <4>3 DEF Build
    <3>. QED
      BY <1>1, <3>1, <3>2 DEF Build, MayBuild
  <2>3. ppc' = "built" /\ PrefetchSize \in Nat
    BY <1>1, CountsType DEF Build
  <2>. QED
    BY <2>1, <2>2, <2>3, FS_EmptySet DEF SlotsInv, SlotsAccounted
<1>2. ASSUME UNCHANGED <<buffer, inhand, pipe, sem>>, Live' => Live,
             ppc' = "idle" /\ ~fileClosed' => ppc = "idle" /\ ~fileClosed
      PROVE  SlotsInv'
  <2>1. Unsent' = Unsent
    BY <1>2 DEF Unsent
  <2>. QED
    BY <1>2, <2>1 DEF SlotsInv, SlotsAccounted
<1>3. CASE GenGet
  BY <1>3, SlotFreed DEF GenGet
<1>4. CASE StopDrain
  <2>1. /\ ppc = "stopping" /\ UNCHANGED <<ppc, fileClosed, buffer, inhand>>
        /\ (pipe # <<>> /\ TakeFromPipe) \/ UNCHANGED <<pipe, sem>>
    BY <1>4 DEF StopDrain
  <2>2. CASE pipe # <<>> /\ TakeFromPipe
    BY <2>1, <2>2, SlotFreed
  <2>3. CASE UNCHANGED <<pipe, sem>>
    BY <1>2, <2>1, <2>3 DEF Live
  <2>. QED
    BY <2>1, <2>2, <2>3
<1>5. CASE StopFinish
  BY <1>5 DEF StopFinish, QueuesBuilt, SlotsInv, SlotsAccounted, Live
<1>6. ASSUME NEW p \in Procs, FeedTake(p) \/ FeedSend(p) PROVE SlotsInv'
  BY <1>6, SlotToHand, SlotToPipe
<1>7. ASSUME NEW p \in Procs, LoadDataProc(p) PROVE SlotsInv'
  <2>1. /\ todo[p] \in Seq(Nat \X Nat) /\ part[p] \in Seq(Nat \X Nat)
        /\ Joined(p) \in Seq(Nat \X Nat)
    BY ConcatProperties DEF TypeOK, Joined
  <2>2. CASE PutBatch(p)
    <3>1. Batch(p, FirstOf(todo[p])) \in Msgs
      BY <2>1, <2>2, CutType, MsgType DEF PutBatch
    <3>. QED
      BY <2>2, <3>1, SlotTaken DEF PutBatch, Gone
  <2>3. CASE PutPadded(p)
    <3>1. Batch(p, FirstOf(Joined(p))) \in Msgs
      BY <2>1, <2>3, CutType, MsgType DEF PutPadded
    <3>. QED
      BY <2>3, <3>1, SlotTaken DEF PutPadded, Pads, Gone
  <2>4. CASE PutShort(p)
    <3>1. Batch(p, part[p]) \in Msgs
      BY <2>1, MsgType
    <3>. QED
      BY <2>4, <3>1, SlotTaken DEF PutShort, HasShort, Gone
  <2>5. CASE PutEndMark(p)
    <3>1. EndMark(p) \in Msgs
      BY <2>1, MsgType
    <3>. QED
      BY <2>5, <3>1, SlotTaken DEF PutEndMark, Gone
  <2>6. \/ PutBatch(p) \/ PutPadded(p) \/ PutShort(p) \/ PutEndMark(p)
        \/ UNCHANGED <<ppc, fileClosed, buffer, inhand, pipe, sem>>
    BY <1>7 DEF LoadDataProc, WaitStart, SeeStop, SeeNoStop, GetFile, Crash, Carry,
       SkipShort, PutTimeout, PutAgain, GiveUp, DrainFiles, Exit
  <2>. QED
    BY <1>2, <2>2, <2>3, <2>4, <2>5, <2>6 DEF Live
<1>8. CASE UNCHANGED <<buffer, inhand, pipe, sem>> /\ (GenStart \/ GenEmpty \/ BuildFails
             \/ StopUnstarted \/ StopBegin \/ StopTokenSent \/ UNCHANGED vars)
  BY <1>2, <1>8 DEF GenStart, GenEmpty, BuildFails, StopUnstarted, StopBegin, StopTokenSent,
     Live, vars
<1>9. \/ Build \/ GenGet \/ StopDrain \/ StopFinish
      \/ \E p \in Procs : LoadDataProc(p) \/ FeedTake(p) \/ FeedSend(p)
      \/ /\ UNCHANGED <<buffer, inhand, pipe, sem>>
         /\ \/ GenStart \/ GenEmpty \/ BuildFails \/ StopUnstarted \/ StopBegin
            \/ StopTokenSent \/ UNCHANGED vars
  BY DEF Next, Rest, Feeder, GenStart, GenEmpty, BuildFails, StopUnstarted, StopBegin,
     StopTokenSent, vars
<1>. QED
  BY <1>1, <1>3, <1>4, <1>5, <1>6, <1>7, <1>8, <1>9

(* No slot of data_que is lost or invented, whatever the puts, gets, feeder*)
(* threads and the procs that stop with messages in their buffers do.      *)
THEOREM SlotsAddUp == Spec => []SlotsAccounted
<1>1. Init => SlotsInv
  BY DEF Init, SlotsInv, SlotsAccounted, Live
<1>2. SlotsInv => SlotsAccounted
  BY DEF SlotsInv
<1>. QED
  BY <1>1, <1>2, SlotsStep, Typing, FullIsPutting, EndMarks, PTL DEF Spec

---------------------------------------------------------------------------
(* Where each row is, for any number of procs, files and rows, and that    *)
(* the generator yields it once.                                           *)

(* How the parent and the tokens of proc_stop_que stand to each other: the *)
(* generator runs between _build and stop(), and before stop() there is no *)
(* token and no proc that gives up.                                        *)
ControlInv ==
  /\ gen # "off" => ppc = "built" /\ procStart
  /\ ppc = "built" => ~fileClosed
  /\ ppc \in {"idle", "built"} => stopBuf = 0 /\ stopPipe = 0
  /\ ppc = "built" => stopClosed = {} /\ \A p \in Procs : ~Aborting(p)
  /\ ppc = "idle" /\ ~fileClosed => fileQ = <<>>

(* file_que is what is left of what _build put: the files in their order,  *)
(* and one None per proc.                                                  *)
Total == NumHanded + NumProc
Entry(k) == IF k <= NumHanded THEN k ELSE NoFile
Taken == Total - Len(fileQ)

FilesLeft ==
  /\ Len(fileQ) <= Total
  /\ \A i \in DOMAIN fileQ : fileQ[i] = Entry(Taken + i)

(* Until stop() every None taken out of file_que was met by another proc.  *)
PastFiles ==
  {p \in Procs : \/ pc[p] \in {"rem", "mark", "flush"}
                 \/ pc[p] = "exited" /\ todo[p] = <<>>}

EndsCounted ==
  ppc = "built" =>
    Cardinality(PastFiles) = IF Len(fileQ) < NumProc THEN NumProc - Len(fileQ) ELSE 0

(* What a proc may still hold at its end: the rows drop_remainder drops.   *)
NoneHeld(p) == todo[p] = <<>> /\ (~Drop => part[p] = <<>>)

(* A proc has rows of a file left only while it cuts them into batches,    *)
(* carries less than a batch, and has put what it carried by its end mark. *)
ProcRows ==
  \A p \in Procs :
    /\ Len(part[p]) < BatchSize
    /\ pc[p] \in {"wait", "check", "file", "rem", "mark", "flush"} => todo[p] = <<>>
    /\ pc[p] = "crashed" => todo[p] # <<>>
    /\ ppc = "built" /\ pc[p] \in {"mark", "flush"} => NoneHeld(p)

(* The same for a proc whose mark is on its way or was counted.            *)
MarksClean ==
  ppc = "built" =>
    /\ \A i \in DOMAIN pipe : pipe[i].end => NoneHeld(pipe[i].from)
    /\ \A p \in ended : NoneHeld(p)

(* A batch has a row at least and BatchSize at most, an end mark has none; *)
(* only batches are yielded.                                               *)
Sized(m) == IF m.end THEN m.rows = <<>> ELSE Len(m.rows) \in 1..BatchSize

AllSized ==
  /\ \A i \in DOMAIN delivered : Sized(delivered[i]) /\ ~delivered[i].end
  /\ \A i \in DOMAIN pipe : Sized(pipe[i])
  /\ \A p \in Procs : /\ \A i \in DOMAIN buffer[p] : Sized(buffer[p][i])
                      /\ \A i \in DOMAIN inhand[p] : Sized(inhand[p][i])

(* The places of a row: a message that was yielded, is in the pipe, in the *)
(* hand of a feeder thread or in a buffer, at place n there; or the rows   *)
(* of the proc itself, carried or not yet cut off.                         *)
Cells == {"yielded", "pipe", "hand", "buffer", "proc"}

Holds(s, p, n, r) == n \in DOMAIN s /\ s[n].from = p /\ r \in ToSet(s[n].rows)

In(r, c, p, n) ==
  \/ c = "yielded" /\ Holds(delivered, p, n, r)
  \/ c = "pipe" /\ Holds(pipe, p, n, r)
  \/ c = "hand" /\ Holds(inhand[p], p, n, r)
  \/ c = "buffer" /\ Holds(buffer[p], p, n, r)
  \/ c = "proc" /\ n = 0 /\ r \in ToSet(Joined(p))

(* What is in a place is of a file that was taken ...                      *)
RowsTaken ==
  \A r : \A c \in Cells, p \in Procs, n \in Nat :
    In(r, c, p, n) => r \in AllRows /\ r[1] <= Taken

(* ... and nowhere else, ...                                               *)
OnlyOnce ==
  /\ \A p \in Procs : IsInjective(Joined(p))
  /\ \A r : \A c, d \in Cells, p, q \in Procs, n, m \in Nat :
       In(r, c, p, n) /\ In(r, d, q, m) => c = d /\ p = q /\ n = m

(* ... and until stop() every row of a file taken is in some place.        *)
NoneLost ==
  ppc = "built" =>
    \A r \in AllRows :
      \/ r[1] > Taken
      \/ \E c \in Cells, p \in Procs, n \in Nat : In(r, c, p, n)

RowsInv == RowsTaken /\ OnlyOnce /\ NoneLost

---------------------------------------------------------------------------
(* The parent, file_que and the ends of the procs                          *)

(* Nothing is stopped before stop().                                       *)
LEMMA ControlStep == TypeOK /\ ControlInv /\ [Next]_vars => ControlInv'
<1>. SUFFICES ASSUME TypeOK, ControlInv, [Next]_vars PROVE ControlInv'
  OBVIOUS
<1>. USE DEF parentVars, tokenVars, procVars, queVars, genVars
<1>1. CASE Build
  BY <1>1 DEF Build, MayBuild, ControlInv, Aborting
<1>2. CASE BuildFails
  BY <1>2 DEF BuildFails, MayBuild, ControlInv
<1>3. CASE GenStart
  BY <1>3 DEF GenStart, ControlInv, Aborting
<1>4. CASE GenGet \/ GenEmpty
  BY <1>4 DEF GenGet, GenEmpty, ControlInv, Aborting
<1>5. CASE StopUnstarted \/ StopBegin
  BY <1>5 DEF StopUnstarted, StopBegin, ControlInv
<1>6. CASE StopTokenSent
  BY <1>6 DEF StopTokenSent, ControlInv, Aborting, TypeOK
<1>7. CASE StopDrain
  BY <1>7 DEF StopDrain, ControlInv
<1>8. CASE StopFinish
  BY <1>8 DEF StopFinish, QueuesBuilt, ControlInv
<1>9. ASSUME NEW p \in Procs, LoadDataProc(p) PROVE ControlInv'
  <2>1. UNCHANGED <<ppc, gen, procStart, fileClosed, stopBuf>>
    BY <1>9 DEF LoadDataProc, WaitStart, SeeStop, SeeNoStop, GetFile, PutBatch,
       Crash, Carry, PutPadded, PutShort, SkipShort, PutEndMark, PutTimeout,
       PutAgain, GiveUp, DrainFiles, Exit
  <2>2. CASE ppc = "built"
    <3>1. ~StopSignalled(p) /\ ~Aborting(p)
      BY <2>2 DEF ControlInv, StopSignalled
    <3>2. /\ UNCHANGED <<stopPipe, stopClosed>>
          /\ \A q \in Procs : q # p => pc'[q] = pc[q]
          /\ pc'[p] \notin {"drain", "redrain", "abort"}
      BY <1>9, <3>1 DEF LoadDataProc, WaitStart, SeeStop, SeeNoStop, GetFile,
         PutBatch, Crash, Carry, PutPadded, PutShort, SkipShort, PutEndMark,
         PutTimeout, PutAgain, GiveUp, DrainFiles, Exit, TakeStop, Goto, TypeOK,
         Aborting
    <3>3. \A q \in Procs : ~Aborting(q)'
      BY <2>2, <3>1, <3>2 DEF ControlInv, Aborting
    <3>. QED
      BY <2>1, <2>2, <3>2, <3>3 DEF ControlInv
  <2>3. CASE ppc = "idle"
    <3>1. stopPipe' = 0 /\ stopBuf = 0
      BY <1>9, <2>3 DEF LoadDataProc, WaitStart, SeeStop, SeeNoStop, GetFile,
         PutBatch, Crash, Carry, PutPadded, PutShort, SkipShort, PutEndMark,
         PutTimeout, PutAgain, GiveUp, DrainFiles, Exit, TakeStop, StopSignalled,
         ControlInv
    <3>2. fileQ = <<>> => fileQ' = <<>>
      BY <1>9 DEF LoadDataProc, WaitStart, SeeStop, SeeNoStop, GetFile,
         PutBatch, Crash, Carry, PutPadded, PutShort, SkipShort, PutEndMark,
         PutTimeout, PutAgain, GiveUp, DrainFiles, Exit
    <3>. QED
      BY <2>1, <2>3, <3>1, <3>2 DEF ControlInv
  <2>. QED
    BY <2>1, <2>2, <2>3 DEF ControlInv
<1>10. ASSUME NEW p \in Procs, Feeder(p) PROVE ControlInv'
  BY <1>10 DEF Feeder, FeedTake, FeedSend, ControlInv, Aborting
<1>11. CASE UNCHANGED vars
  BY <1>11 DEF vars, ControlInv, Aborting
<1>. QED
  BY <1>1, <1>2, <1>3, <1>4, <1>5, <1>6, <1>7, <1>8, <1>9, <1>10, <1>11 DEF Next, Rest

(* Types of what counts the files.                                         *)
LEMMA QueueCounts ==
  ASSUME TypeOK
  PROVE  /\ Total \in Nat /\ Taken \in Int /\ Len(fileQ) \in Nat
         /\ NumHanded \in Nat /\ NumProc \in Nat
         /\ DOMAIN fileQ = 1..Len(fileQ)
         /\ IsFiniteSet(Procs) /\ IsFiniteSet(PastFiles)
         /\ Cardinality(PastFiles) \in Nat
<1>1. /\ IsFiniteSet(Procs) /\ IsFiniteSet(PastFiles)
      /\ Cardinality(PastFiles) \in Nat
  <2>1. IsFiniteSet(Procs) /\ PastFiles \in SUBSET Procs
    BY ConstAssumption DEF ConstAssumption, PastFiles
  <2>. QED
    BY <2>1, FS_Subset, FS_CardinalityType
<1>2. Len(fileQ) \in Nat /\ DOMAIN fileQ = 1..Len(fileQ)
  BY LenProperties DEF TypeOK
<1>. QED
  BY <1>1, <1>2, CountsType DEF Total, Taken

(* Without procs there are no files.                                       *)
LEMMA NoProcNoFile == NumProc = 0 => NumHanded = 0
<1>. SUFFICES ASSUME NumProc = 0 PROVE NumHanded = 0
  OBVIOUS
<1>1. FileNum = 0 /\ TaskNum \in Nat \ {0} /\ TaskIndex \in 0..(TaskNum - 1)
  BY ConstAssumption DEF ConstAssumption, NumProc, FileNum
<1>2. ASSUME NEW a \in Nat, NEW b \in Nat \ {0}, a < b
      PROVE  a \div b = 0
  BY <1>2, Z3
<1>3. (FileNum + TaskNum - 1 - TaskIndex) \div TaskNum = 0
  BY <1>1, <1>2
<1>4. Len(MyFiles) = 0
  BY <1>3 DEF MyFiles
<1>. QED
  BY <1>4, ConstAssumption DEF NumHanded, NumRepeat, ConstAssumption

(* When the generator has counted all the procs, every proc has come to   *)
(* its end with nothing held back, and file_que is empty.                  *)
LEMMA AllAtEnd ==
  ASSUME TypeOK, EndMarkInv, ControlInv, FilesLeft, EndsCounted, MarksClean,
         ppc = "built", AllDone
  PROVE  /\ ended = Procs /\ fileQ = <<>>
         /\ \A p \in Procs : NoneHeld(p) /\ Passed(p)
<1>1. ended = Procs
  BY AllEnded DEF EndMarkInv
<1>2. \A p \in Procs : NoneHeld(p) /\ Passed(p)
  BY <1>1 DEF MarksClean, EndMarkInv, MarksCounted
<1>3. PastFiles = Procs
  BY <1>2 DEF PastFiles, NoneHeld, Passed
<1>4. NumProc = IF Len(fileQ) < NumProc THEN NumProc - Len(fileQ) ELSE 0
  BY <1>1, <1>3 DEF EndsCounted, NumProc
<1>5. Len(fileQ) = 0
  BY <1>4, QueueCounts, NoProcNoFile DEF FilesLeft, Total
<1>. QED
  BY <1>1, <1>2, <1>5, EmptySeq DEF TypeOK

(* What a step of a proc leaves alone, and what it does to its own rows.   *)
LEMMA ProcTouches ==
  ASSUME TypeOK, NEW p \in Procs, LoadDataProc(p)
  PROVE  /\ UNCHANGED <<ppc, gen, procStart, fileClosed, runs, inhand, pipe,
                        done, delivered, ended>>
         /\ \A q \in Procs : q # p => /\ pc'[q] = pc[q] /\ todo'[q] = todo[q]
                                      /\ part'[q] = part[q] /\ buffer'[q] = buffer[q]
<1>. USE DEF parentVars, tokenVars, procVars, queVars, genVars, Goto, TypeOK
<1>1. CASE WaitStart(p) \/ SeeStop(p) \/ SeeNoStop(p) \/ GetFile(p) \/ DrainFiles(p)
           \/ Exit(p)
  BY <1>1 DEF WaitStart, SeeStop, SeeNoStop, GetFile, DrainFiles, Exit
<1>2. CASE Crash(p) \/ Carry(p) \/ SkipShort(p)
  BY <1>2 DEF Crash, Carry, SkipShort
<1>3. CASE PutBatch(p) \/ PutPadded(p) \/ PutShort(p) \/ PutEndMark(p)
  BY <1>3 DEF PutBatch, PutPadded, PutShort, PutEndMark, Enqueue
<1>4. CASE PutTimeout(p) \/ PutAgain(p) \/ GiveUp(p)
  BY <1>4 DEF PutTimeout, PutAgain, GiveUp
<1>. QED
  BY <1>1, <1>2, <1>3, <1>4 DEF LoadDataProc

(* Taking the head of file_que leaves what is left of the order.           *)
LEMMA TakeFile ==
  ASSUME TypeOK, FilesLeft, fileQ # <<>>, fileQ' = Tail(fileQ)
  PROVE  /\ FilesLeft' /\ Head(fileQ) = Entry(Taken + 1)
         /\ Len(fileQ') = Len(fileQ) - 1 /\ Len(fileQ) \in Nat \ {0}
<1>1. /\ Len(fileQ') = Len(fileQ) - 1 /\ Len(fileQ) \in Nat \ {0}
      /\ DOMAIN fileQ = 1..Len(fileQ) /\ DOMAIN fileQ' = 1..(Len(fileQ) - 1)
      /\ Head(fileQ) = fileQ[1]
      /\ \A i \in 1..(Len(fileQ) - 1) : fileQ'[i] = fileQ[i + 1]
  BY HeadTailProperties, LenProperties, EmptySeq DEF TypeOK
<1>2. Taken' = Taken + 1 /\ Taken \in Int
  BY <1>1, QueueCounts DEF Taken, Total
<1>3. \A i \in DOMAIN fileQ' : fileQ'[i] = Entry(Taken' + i)
  <2>. SUFFICES ASSUME NEW i \in DOMAIN fileQ' PROVE fileQ'[i] = Entry(Taken' + i)
    OBVIOUS
  <2>1. i + 1 \in DOMAIN fileQ /\ fileQ'[i] = fileQ[i + 1] /\ i \in Int
    BY <1>1
  <2>2. Taken + (i + 1) = Taken' + i
    BY <1>2, <2>1
  <2>. QED
    BY <2>1, <2>2 DEF FilesLeft
<1>. QED
  BY <1>1, <1>3, QueueCounts DEF FilesLeft, Total, Entry, NoFile

(* What _build puts is the order; it puts it into an empty file_que.       *)
LEMMA BuildFiles ==
  ASSUME TypeOK, EndMarkInv, ControlInv, FilesLeft, EndsCounted, MarksClean, Build
  PROVE  FilesLeft' /\ Len(fileQ') = Total /\ pipe = <<>>
<1>1. fileQ = <<>> /\ pipe = <<>>
  BY AllAtEnd DEF Build, MayBuild, ControlInv, EndMarkInv, QueueAtRest
<1>. DEFINE s == [k \in 1..(NumHanded + NumProc) |-> IF k <= NumHanded THEN k ELSE NoFile]
<1>2. s \in Seq(0..NumHanded) /\ Len(s) = Total /\ DOMAIN s = 1..Total
  BY CountsType DEF Total, NoFile
<1>3. fileQ' = s
  BY <1>1, <1>2 DEF Build
<1>4. \A i \in DOMAIN s : s[i] = Entry(i)
  BY <1>2 DEF Entry, Total
<1>5. Taken' = 0 /\ Total \in Nat
  BY <1>2, <1>3, CountsType DEF Taken, Total
<1>6. \A i \in 1..Total : Taken' + i = i
  BY <1>5
<1>. HIDE DEF s
<1>. QED
  BY <1>1, <1>2, <1>3, <1>4, <1>5, <1>6 DEF FilesLeft

(* Every step keeps the order of file_que.                                 *)
LEMMA FilesStep ==
  ASSUME TypeOK, EndMarkInv, ControlInv, FilesLeft, EndsCounted, MarksClean, [Next]_vars
  PROVE  FilesLeft'
<1>. USE DEF parentVars, tokenVars, procVars, queVars, genVars
<1>1. CASE Build
  BY <1>1, BuildFiles
<1>2. CASE fileQ' = fileQ
  BY <1>2 DEF FilesLeft, Taken, Total, Entry
<1>3. CASE fileQ # <<>> /\ fileQ' = Tail(fileQ)
  BY <1>3, TakeFile
<1>4. CASE fileQ' = <<>>
  BY <1>4, CountsType DEF FilesLeft, Total
<1>5. ASSUME NEW p \in Procs, LoadDataProc(p)
      PROVE  fileQ' = fileQ \/ (fileQ # <<>> /\ fileQ' = Tail(fileQ))
  BY <1>5 DEF LoadDataProc, WaitStart, SeeStop, SeeNoStop, GetFile, PutBatch,
     Crash, Carry, PutPadded, PutShort, SkipShort, PutEndMark, PutTimeout,
     PutAgain, GiveUp, DrainFiles, Exit
<1>6. \/ Build \/ fileQ' = fileQ \/ fileQ' = <<>>
      \/ \E p \in Procs : LoadDataProc(p)
  BY DEF Next, BuildFails, GenStart, GenGet, GenEmpty, StopUnstarted, StopBegin,
     StopTokenSent, StopDrain, StopFinish, Feeder, FeedTake, FeedSend, Rest, vars
<1>. QED
  BY <1>1, <1>2, <1>3, <1>4, <1>5, <1>6

(* Where the rows of a batch and of the rest stood.                        *)
LEMMA CutPlaces ==
  ASSUME NEW s \in Seq(Nat \X Nat), Len(s) >= BatchSize
  PROVE  /\ BatchSize \in Nat \ {0} /\ Len(s) \in Nat /\ DOMAIN s = 1..Len(s)
         /\ Len(FirstOf(s)) = BatchSize /\ DOMAIN FirstOf(s) = 1..BatchSize
         /\ \A i \in 1..BatchSize : FirstOf(s)[i] = s[i]
         /\ Len(RestOf(s)) = Len(s) - BatchSize
         /\ DOMAIN RestOf(s) = 1..(Len(s) - BatchSize)
         /\ \A i \in 1..(Len(s) - BatchSize) : RestOf(s)[i] = s[i + BatchSize]
<1>1. BatchSize \in Nat \ {0} /\ Len(s) \in Nat /\ DOMAIN s = 1..Len(s)
  BY CountsType, LenProperties
<1>2. /\ \A i \in 1..BatchSize : s[i] \in Nat \X Nat
      /\ \A i \in BatchSize+1..Len(s) : s[i] \in Nat \X Nat
  BY <1>1, ElementOfSeq
<1>3. /\ Len(FirstOf(s)) = BatchSize /\ DOMAIN FirstOf(s) = 1..BatchSize
      /\ \A i \in 1..BatchSize : FirstOf(s)[i] = s[i]
  <2>1. /\ SubSeq(s, 1, BatchSize) \in Seq(Nat \X Nat)
        /\ Len(SubSeq(s, 1, BatchSize)) = BatchSize
        /\ \A i \in 1..BatchSize : SubSeq(s, 1, BatchSize)[i] = s[i]
    BY <1>1, <1>2, SubSeqProperties
  <2>. QED
    BY <2>1, LenProperties DEF FirstOf
<1>4. /\ Len(RestOf(s)) = Len(s) - BatchSize
      /\ DOMAIN RestOf(s) = 1..(Len(s) - BatchSize)
      /\ \A i \in 1..(Len(s) - BatchSize) : RestOf(s)[i] = s[i + BatchSize]
  <2>1. /\ SubSeq(s, BatchSize + 1, Len(s)) \in Seq(Nat \X Nat)
        /\ Len(SubSeq(s, BatchSize + 1, Len(s))) =
             IF BatchSize + 1 <= Len(s) THEN Len(s) - (BatchSize + 1) + 1 ELSE 0
        /\ \A i \in 1..(Len(s) - (BatchSize + 1) + 1) :
             SubSeq(s, BatchSize + 1, Len(s))[i] = s[BatchSize + 1 + i - 1]
    <3>1. BatchSize + 1 \in Int /\ Len(s) \in Int
      BY <1>1
    <3>. QED
      BY <1>2, <3>1, SubSeqProperties
  <2>2. Len(s) - (BatchSize + 1) + 1 = Len(s) - BatchSize
    BY <1>1
  <2>3. BatchSize + 1 <= Len(s) \/ Len(s) - BatchSize = 0
    <3>1. ASSUME NEW a \in Nat, NEW b \in Nat, a >= b
          PROVE  b + 1 <= a \/ a - b = 0
      BY <3>1
    <3>. QED
      BY <1>1, <3>1
  <2>4. \A i \in 1..(Len(s) - BatchSize) : BatchSize + 1 + i - 1 = i + BatchSize
    <3>. SUFFICES ASSUME NEW i \in Int PROVE BatchSize + 1 + i - 1 = i + BatchSize
      OBVIOUS
    <3>. QED
      BY <1>1
  <2>. QED
    BY <2>1, <2>2, <2>3, <2>4, LenProperties DEF RestOf
<1>. QED
  BY <1>1, <1>3, <1>4

(* A batch cut off a sequence of rows and the rest of it divide its rows.  *)
LEMMA CutRows ==
  ASSUME NEW s \in Seq(Nat \X Nat), Len(s) >= BatchSize
  PROVE  /\ Len(FirstOf(s)) = BatchSize /\ Len(RestOf(s)) = Len(s) - BatchSize
         /\ ToSet(FirstOf(s)) \cup ToSet(RestOf(s)) = ToSet(s)
         /\ IsInjective(s) => /\ IsInjective(RestOf(s))
                              /\ ToSet(FirstOf(s)) \cap ToSet(RestOf(s)) = {}
<1>1. BatchSize \in Nat \ {0} /\ Len(s) \in Nat /\ DOMAIN s = 1..Len(s)
  BY CutPlaces
<1>3. /\ Len(FirstOf(s)) = BatchSize /\ DOMAIN FirstOf(s) = 1..BatchSize
      /\ \A i \in 1..BatchSize : FirstOf(s)[i] = s[i]
  BY CutPlaces
<1>4. /\ Len(RestOf(s)) = Len(s) - BatchSize
      /\ DOMAIN RestOf(s) = 1..(Len(s) - BatchSize)
      /\ \A i \in 1..(Len(s) - BatchSize) : RestOf(s)[i] = s[i + BatchSize]
  BY CutPlaces
<1>5. ToSet(FirstOf(s)) \cup ToSet(RestOf(s)) = ToSet(s)
  <2>1. ASSUME NEW i \in DOMAIN s
        PROVE  \/ i \in 1..BatchSize
               \/ i - BatchSize \in 1..(Len(s) - BatchSize) /\ (i - BatchSize) + BatchSize = i
    BY <1>1, <2>1, SMTT(30)
  <2>2. \A i \in 1..BatchSize : i \in DOMAIN s
    BY <1>1
  <2>3. \A i \in 1..(Len(s) - BatchSize) : i + BatchSize \in DOMAIN s
    BY <1>1
  <2>4. ToSet(s) \subseteq ToSet(FirstOf(s)) \cup ToSet(RestOf(s))
    <3>. SUFFICES ASSUME NEW i \in DOMAIN s
                  PROVE  s[i] \in ToSet(FirstOf(s)) \cup ToSet(RestOf(s))
      BY DEF ToSet
    <3>1. CASE i \in 1..BatchSize
      BY <1>3, <3>1 DEF ToSet
    <3>2. CASE i - BatchSize \in 1..(Len(s) - BatchSize)
      <4>1. RestOf(s)[i - BatchSize] = s[i]
        <5>1. (i - BatchSize) + BatchSize = i
          BY <1>1
        <5>. QED
          BY <1>4, <3>2, <5>1
      <4>. QED
        BY <1>4, <3>2, <4>1 DEF ToSet
    <3>. QED
      BY <2>1, <3>1, <3>2
  <2>5. ToSet(FirstOf(s)) \subseteq ToSet(s) /\ ToSet(RestOf(s)) \subseteq ToSet(s)
    BY <1>3, <1>4, <2>2, <2>3 DEF ToSet
  <2>. QED
    BY <2>4, <2>5
<1>6. ASSUME IsInjective(s)
      PROVE  /\ IsInjective(RestOf(s))
             /\ ToSet(FirstOf(s)) \cap ToSet(RestOf(s)) = {}
  <2>1. \A i, j \in 1..(Len(s) - BatchSize) :
          RestOf(s)[i] = RestOf(s)[j] => i = j
    <3>. SUFFICES ASSUME NEW i \in 1..(Len(s) - BatchSize),
                         NEW j \in 1..(Len(s) - BatchSize),
                         RestOf(s)[i] = RestOf(s)[j]
                  PROVE  i = j
      OBVIOUS
    <3>1. i + BatchSize \in DOMAIN s /\ j + BatchSize \in DOMAIN s
      BY <1>1
    <3>2. i + BatchSize = j + BatchSize
      BY <1>4, <1>6, <3>1 DEF IsInjective
    <3>. QED
      BY <1>1, <3>2
  <2>2. ASSUME NEW i \in 1..BatchSize, NEW j \in 1..(Len(s) - BatchSize)
        PROVE  FirstOf(s)[i] # RestOf(s)[j]
    <3>1. i \in DOMAIN s /\ j + BatchSize \in DOMAIN s /\ i # j + BatchSize
      BY <1>1
    <3>2. s[i] # s[j + BatchSize]
      BY <1>6, <3>1 DEF IsInjective
    <3>. QED
      BY <1>3, <1>4, <3>2
  <2>. QED
    <3>1. IsInjective(RestOf(s))
      BY <1>4, <2>1 DEF IsInjective
    <3>2. ToSet(FirstOf(s)) \cap ToSet(RestOf(s)) = {}
      BY <1>3, <1>4, <2>2 DEF ToSet
    <3>. QED
      BY <3>1, <3>2
<1>. QED
  BY <1>3, <1>4, <1>5, <1>6

(* A proc's rows between the parts of its loop.                            *)
LEMMA ProcRowsStep ==
  ASSUME TypeOK, FullPutting, ControlInv, ProcRows, [Next]_vars
  PROVE  ProcRows'
<1>. USE DEF parentVars, tokenVars, procVars, queVars, genVars
<1>0. BatchSize \in Nat \ {0} /\ \A p \in Procs : Len(part[p]) \in Nat /\ Len(todo[p]) \in Nat
  BY CountsType, LenProperties DEF TypeOK
<1>1. CASE Build
  <2>1. \A p \in Procs : pc'[p] = "wait" /\ todo'[p] = <<>> /\ part'[p] = <<>>
    BY <1>1 DEF Build
  <2>. QED
    BY <1>0, <2>1 DEF ProcRows
<1>2. ASSUME NEW p \in Procs, LoadDataProc(p) PROVE ProcRows'
  <2>. DEFINE Good(q) ==
         /\ Len(part[q]) < BatchSize
         /\ pc[q] \in {"wait", "check", "file", "rem", "mark", "flush"} => todo[q] = <<>>
         /\ pc[q] = "crashed" => todo[q] # <<>>
         /\ ppc = "built" /\ pc[q] \in {"mark", "flush"} => NoneHeld(q)
  <2>1. \A q \in Procs : q # p => Good(q)'
    BY <1>2, ProcTouches DEF ProcRows, NoneHeld
  <2>2. Good(p) /\ ppc' = ppc
    BY <1>2, ProcTouches DEF ProcRows
  <2>. SUFFICES Good(p)'
    BY <2>1 DEF ProcRows
  <2>3. CASE WaitStart(p) \/ SeeStop(p) \/ SeeNoStop(p) \/ DrainFiles(p) \/ Exit(p)
             \/ PutTimeout(p) \/ PutAgain(p)
    <3>1. /\ part' = part /\ todo' = todo
          /\ \/ pc' = pc
             \/ pc'[p] \in {"drain", "redrain", "abort", "exited"}
             \/ pc[p] = "wait" /\ pc'[p] = "check"
             \/ pc[p] = "check" /\ pc'[p] = "file"
      BY <2>3 DEF WaitStart, SeeStop, SeeNoStop, DrainFiles, Exit, PutTimeout,
         PutAgain, Goto, TypeOK
    <3>. QED
      BY <2>2, <3>1 DEF NoneHeld
  <2>4. CASE GetFile(p)
    <3>1. part' = part /\ (\/ pc'[p] = "rem" /\ todo' = todo
                           \/ pc'[p] = "batch")
      BY <2>4 DEF GetFile, Goto, TypeOK
    <3>2. pc[p] = "file"
      BY <2>4 DEF GetFile
    <3>. QED
      BY <2>2, <3>1, <3>2
  <2>5. CASE PutBatch(p)
    <3>1. part' = part /\ pc'[p] = "batch"
      BY <2>5 DEF PutBatch
    <3>. QED
      BY <2>2, <3>1
  <2>6. CASE Crash(p)
    <3>1. /\ part' = part /\ todo' = todo /\ pc'[p] = "crashed"
          /\ Len(todo[p]) \in 1..(BatchSize - 1)
      BY <2>6 DEF Crash, PadFails, Goto, TypeOK
    <3>2. todo[p] # <<>>
      BY <3>1
    <3>. QED
      BY <2>2, <3>1, <3>2
  <2>7. CASE Carry(p)
    <3>1. /\ part'[p] = Joined(p) /\ todo'[p] = <<>> /\ pc'[p] = "check"
          /\ Len(Joined(p)) < BatchSize
      BY <2>7 DEF Carry, Goto, TypeOK
    <3>. QED
      BY <3>1 DEF NoneHeld
  <2>8. CASE PutPadded(p)
    <3>1. /\ part'[p] = RestOf(Joined(p)) /\ todo'[p] = <<>> /\ pc'[p] = "check"
          /\ Len(Joined(p)) >= BatchSize /\ Len(todo[p]) < BatchSize
      BY <2>8 DEF PutPadded, Goto, TypeOK, Pads
    <3>2. Joined(p) \in Seq(Nat \X Nat) /\ Len(Joined(p)) = Len(part[p]) + Len(todo[p])
      BY ConcatProperties DEF Joined, TypeOK
    <3>3. Len(RestOf(Joined(p))) = Len(Joined(p)) - BatchSize
      BY <3>1, <3>2, CutRows
    <3>4. Len(part'[p]) < BatchSize
      <4>1. /\ Len(part'[p]) = Len(part[p]) + Len(todo[p]) - BatchSize
            /\ Len(part[p]) < BatchSize /\ Len(part[p]) \in Nat /\ Len(todo[p]) \in Nat
        <5>1. Len(part'[p]) = Len(RestOf(Joined(p)))
          BY <3>1
        <5>2. Len(part'[p]) = Len(Joined(p)) - BatchSize
          BY <3>3, <5>1
        <5>3. Len(part[p]) \in Nat /\ Len(todo[p]) \in Nat /\ BatchSize \in Nat
          BY <1>0
        <5>4. Len(part[p]) < BatchSize
          BY DEF ProcRows
        <5>. QED
          BY <3>2, <5>2, <5>3, <5>4
      <4>2. ASSUME NEW a \in Nat, NEW b \in Nat, NEW c \in Nat, a < c, b < c
            PROVE  a + b - c < c
        BY <4>2
      <4>. QED
        BY <1>0, <3>1, <4>1, <4>2
    <3>. QED
      BY <3>1, <3>4 DEF NoneHeld
  <2>9. CASE PutShort(p)
    <3>1. part'[p] = <<>> /\ todo' = todo /\ pc'[p] = "mark" /\ pc[p] = "rem"
      BY <2>9 DEF PutShort, HasShort, Goto, TypeOK
    <3>. QED
      BY <1>0, <2>2, <3>1 DEF NoneHeld
  <2>10. CASE SkipShort(p)
    <3>1. /\ part' = part /\ todo' = todo /\ pc'[p] = "mark" /\ pc[p] = "rem"
          /\ part[p] = <<>> \/ Drop
      BY <2>10 DEF SkipShort, HasShort, Goto, TypeOK
    <3>. QED
      BY <2>2, <3>1 DEF NoneHeld, Drop
  <2>11. CASE PutEndMark(p)
    <3>1. part' = part /\ todo' = todo /\ pc'[p] = "flush" /\ pc[p] = "mark"
      BY <2>11 DEF PutEndMark, Goto, TypeOK
    <3>. QED
      BY <2>2, <3>1 DEF NoneHeld, Drop
  <2>12. CASE GiveUp(p)
    <3>1. /\ part' = part /\ todo' = todo
          /\ \/ pc'[p] \in {"drain", "redrain"}
             \/ pc'[p] = "mark" /\ pc[p] = "rem"
      BY <2>12 DEF GiveUp, Goto, TypeOK
    <3>2. ppc # "built"
      BY <2>12 DEF GiveUp, TakeStop, StopSignalled, ControlInv
    <3>. QED
      BY <2>2, <3>1, <3>2
  <2>. QED
    BY <1>2, <2>3, <2>4, <2>5, <2>6, <2>7, <2>8, <2>9, <2>10, <2>11, <2>12
       DEF LoadDataProc
<1>3. CASE UNCHANGED procVars /\ (ppc' = "built" => ppc = "built")
  BY <1>3 DEF ProcRows, NoneHeld
<1>4. \/ Build \/ (UNCHANGED procVars /\ (ppc' = "built" => ppc = "built"))
      \/ \E p \in Procs : LoadDataProc(p)
  BY DEF Next, BuildFails, GenStart, GenGet, GenEmpty, StopUnstarted, StopBegin,
     StopTokenSent, StopDrain, StopFinish, Feeder, FeedTake, FeedSend, Rest, vars
<1>. QED
  BY <1>1, <1>2, <1>3, <1>4

(* Each None that is taken belongs to a proc that has now met it.          *)
LEMMA EndsStep ==
  ASSUME TypeOK, TypeOK', FullPutting, EndMarkInv, ControlInv, FilesLeft,
         EndsCounted, ProcRows, ProcRows', MarksClean, [Next]_vars
  PROVE  EndsCounted'
<1>. USE DEF parentVars, tokenVars, procVars, queVars, genVars
<1>1. CASE Build
  <2>1. PastFiles' = {}
    BY <1>1 DEF Build, PastFiles
  <2>2. Len(fileQ') = Total
    BY <1>1, BuildFiles
  <2>. QED
    BY <2>1, <2>2, FS_EmptySet, CountsType DEF EndsCounted, Total
<1>2. CASE /\ ppc' = "built" => ppc = "built"
           /\ UNCHANGED <<fileQ, procVars>>
  BY <1>2 DEF EndsCounted, PastFiles
<1>3. ASSUME NEW p \in Procs, LoadDataProc(p), ppc = "built" PROVE EndsCounted'
  <2>1. /\ ppc' = "built" /\ ~StopSignalled(p) /\ ~Aborting(p)
        /\ \A q \in Procs : q # p => pc'[q] = pc[q] /\ todo'[q] = todo[q]
    BY <1>3, ProcTouches DEF ControlInv, StopSignalled
  <2>2. CASE GetFile(p)
    <3>1. /\ FilesLeft' /\ Head(fileQ) = Entry(Taken + 1)
          /\ Len(fileQ') = Len(fileQ) - 1 /\ Len(fileQ) \in Nat \ {0}
      BY <2>2, TakeFile DEF GetFile
    <3>2. p \notin PastFiles
      BY <2>2 DEF GetFile, PastFiles
    <3>3. CASE Head(fileQ) = NoFile
      <4>1. PastFiles' = PastFiles \cup {p}
        <5>1. pc'[p] = "rem"
          BY <2>2, <3>3 DEF GetFile, Goto, TypeOK
        <5>. QED
          BY <2>1, <5>1 DEF PastFiles
      <4>2. Cardinality(PastFiles') = Cardinality(PastFiles) + 1
        BY <3>2, <4>1, QueueCounts, FS_AddElement
      <4>3. Len(fileQ) <= NumProc
        BY <3>1, <3>3, QueueCounts DEF Entry, NoFile, Taken, Total, FilesLeft
      <4>. QED
        BY <1>3, <3>1, <4>2, <4>3, QueueCounts DEF EndsCounted
    <3>4. CASE Head(fileQ) # NoFile
      <4>1. PastFiles' = PastFiles
        <5>1. pc'[p] = "batch"
          BY <2>2, <3>4 DEF GetFile, Goto, TypeOK
        <5>. QED
          BY <2>1, <3>2, <5>1 DEF PastFiles
      <4>2. Len(fileQ) > NumProc
        BY <3>1, <3>4, QueueCounts DEF Entry, NoFile, Taken, Total
      <4>. QED
        BY <1>3, <3>1, <4>1, <4>2, QueueCounts DEF EndsCounted
    <3>. QED
      BY <3>3, <3>4
  <2>3. CASE ~GetFile(p)
    <3>1. /\ fileQ' = fileQ
          /\ \/ pc'[p] = pc[p] /\ pc[p] # "exited"
             \/ pc[p] \in {"wait", "check", "batch"} /\ pc'[p] \in {"check", "file", "crashed"}
             \/ pc[p] \in {"rem", "mark"} /\ pc'[p] \in {"mark", "flush"}
             \/ pc[p] \in {"flush", "crashed"} /\ pc'[p] = "exited" /\ todo' = todo
      <4>1. CASE WaitStart(p) \/ SeeStop(p) \/ SeeNoStop(p) \/ Crash(p) \/ Carry(p)
                 \/ SkipShort(p)
        BY <2>1, <4>1 DEF WaitStart, SeeStop, SeeNoStop, Crash, Carry, SkipShort,
           TakeStop, Goto, TypeOK, Pads, PadFails
      <4>2. CASE PutBatch(p) \/ PutPadded(p) \/ PutShort(p) \/ PutEndMark(p)
        BY <4>2 DEF PutBatch, PutPadded, PutShort, PutEndMark, Pads, HasShort, Goto,
           TypeOK
      <4>3. CASE PutTimeout(p) \/ PutAgain(p) \/ GiveUp(p)
        BY <2>1, <4>3 DEF PutTimeout, PutAgain, GiveUp, TakeStop, FullPutting,
           Putting, Pads, HasShort
      <4>4. CASE DrainFiles(p) \/ Exit(p)
        BY <2>1, <4>4 DEF DrainFiles, Exit, Aborting, Goto, TypeOK
      <4>. QED
        BY <1>3, <2>3, <4>1, <4>2, <4>3, <4>4 DEF LoadDataProc
    <3>2. p \in PastFiles' <=> p \in PastFiles
      BY <3>1 DEF PastFiles, ProcRows
    <3>3. PastFiles' = PastFiles
      BY <2>1, <3>2 DEF PastFiles
    <3>. QED
      BY <2>1, <3>1, <3>3, <1>3 DEF EndsCounted
  <2>. QED
    BY <2>2, <2>3
<1>4. CASE ppc' # "built"
  BY <1>4 DEF EndsCounted
<1>5. \/ Build \/ ppc' # "built"
      \/ /\ ppc' = "built" => ppc = "built"
         /\ UNCHANGED <<fileQ, procVars>>
      \/ ppc' = ppc /\ \E p \in Procs : LoadDataProc(p)
  <2>1. ASSUME NEW p \in Procs, LoadDataProc(p) PROVE ppc' = ppc
    BY <2>1, ProcTouches
  <2>. QED
    BY <2>1 DEF Next, BuildFails, GenStart, GenGet, GenEmpty, StopUnstarted,
     StopBegin, StopTokenSent, StopDrain, StopFinish, Feeder, FeedTake, FeedSend,
     Rest, vars
<1>. QED
  BY <1>1, <1>2, <1>3, <1>4, <1>5

(* A proc whose mark has left it keeps what it held then.                  *)
LEMMA CleanStep ==
  ASSUME TypeOK, FullPutting, EndMarkInv, ControlInv, FilesLeft, EndsCounted,
         ProcRows, MarksClean, [Next]_vars
  PROVE  MarksClean'
<1>. USE DEF parentVars, tokenVars, procVars, queVars, genVars
<1>1. CASE Build
  BY <1>1, BuildFiles DEF Build, MarksClean
<1>2. CASE /\ ppc' = "built" => ppc = "built"
           /\ UNCHANGED <<procVars, pipe, ended>>
  BY <1>2 DEF MarksClean, NoneHeld
<1>3. ASSUME NEW p \in Procs, LoadDataProc(p) PROVE MarksClean'
  <2>1. /\ UNCHANGED <<ppc, pipe, ended>>
        /\ \A q \in Procs : q # p => todo'[q] = todo[q] /\ part'[q] = part[q]
    BY <1>3, ProcTouches
  <2>2. Passed(p) => todo' = todo /\ part' = part
    BY <1>3 DEF Passed, LoadDataProc, WaitStart, SeeStop, SeeNoStop, GetFile, PutBatch,
       Crash, Carry, PutPadded, PutShort, SkipShort, PutEndMark, PutTimeout,
       PutAgain, GiveUp, DrainFiles, Exit, Pads, PadFails, HasShort
  <2>3. \A q \in Procs : Passed(q) /\ NoneHeld(q) => NoneHeld(q)'
    BY <2>1, <2>2 DEF NoneHeld
  <2>4. \A i \in DOMAIN pipe : pipe[i].end => Passed(pipe[i].from) /\ pipe[i].from \in Procs
    BY MsgsHaveSender DEF EndMarkInv, MarksInPipe, TypeOK
  <2>5. \A q \in ended : Passed(q) /\ q \in Procs
    BY DEF EndMarkInv, MarksCounted, TypeOK
  <2>. QED
    BY <2>1, <2>3, <2>4, <2>5 DEF MarksClean, NoneHeld
<1>4. ASSUME pipe # <<>>, pipe' = Tail(pipe), UNCHANGED <<ppc, procVars>>,
             ended' \subseteq (ended \cup {q \in Procs : pipe[1].end /\ q = pipe[1].from})
      PROVE  MarksClean'
  <2>1. \A i \in DOMAIN pipe' : i + 1 \in DOMAIN pipe /\ pipe'[i] = pipe[i + 1]
    BY <1>4, ShiftedPipe
  <2>2. 1 \in DOMAIN pipe
    BY <1>4, LenProperties, EmptySeq DEF TypeOK
  <2>. QED
    BY <1>4, <2>1, <2>2 DEF MarksClean, NoneHeld
<1>5. CASE GenGet
  <2>1. Head(pipe) = pipe[1] /\ pipe[1].from \in Procs /\ pipe # <<>>
    <3>1. pipe # <<>> /\ 1 \in DOMAIN pipe /\ Head(pipe) = pipe[1]
      BY <1>5, LenProperties, EmptySeq DEF TypeOK, GenGet
    <3>. QED
      BY <3>1, MsgsHaveSender DEF TypeOK
  <2>2. \/ ended' = ended
        \/ pipe[1].end /\ ended' = ended \cup {pipe[1].from}
    BY <1>5, <2>1 DEF GenGet
  <2>3. pipe' = Tail(pipe) /\ UNCHANGED <<ppc, procVars>>
    BY <1>5 DEF GenGet, TakeFromPipe
  <2>4. ended' \subseteq (ended \cup {q \in Procs : pipe[1].end /\ q = pipe[1].from})
    BY <2>1, <2>2
  <2>. QED
    BY <1>4, <2>1, <2>3, <2>4
<1>6. ASSUME NEW p \in Procs, FeedSend(p) PROVE MarksClean'
  <2>. DEFINE m == Head(inhand[p])
  <2>1. /\ inhand[p] # <<>> /\ inhand[p] \in Seq(Msgs) /\ pipe \in Seq(Msgs)
        /\ pipe' = Append(pipe, m)
        /\ UNCHANGED <<ppc, procVars, ended>>
    BY <1>6 DEF FeedSend, TypeOK
  <2>2. m \in Msgs /\ m.from = p /\ (m.end => pc[p] = "flush")
    <3>1. m = inhand[p][1]
      BY <2>1
    <3>2. m \in Msgs
      BY <2>1, HeadTailProperties
    <3>. QED
      BY <2>1, <3>1, <3>2 DEF EndMarkInv, MarksInHand
  <2>. HIDE DEF m
  <2>3. /\ DOMAIN pipe' = 1..(Len(pipe) + 1)
        /\ \A i \in DOMAIN pipe' : (i \in DOMAIN pipe /\ pipe'[i] = pipe[i]) \/ pipe'[i] = m
    BY <2>1, <2>2, AppendProperties, LenProperties
  <2>4. ppc = "built" /\ m.end => NoneHeld(p)
    BY <2>2 DEF ProcRows
  <2>. QED
    BY <2>1, <2>2, <2>3, <2>4 DEF MarksClean, NoneHeld
<1>7. CASE ppc' # "built"
  BY <1>7 DEF MarksClean
<1>8. \/ Build \/ GenGet \/ ppc' # "built"
      \/ /\ ppc' = "built" => ppc = "built"
         /\ UNCHANGED <<procVars, pipe, ended>>
      \/ \E p \in Procs : LoadDataProc(p) \/ FeedSend(p)
  BY DEF Next, BuildFails, GenStart, GenEmpty, StopUnstarted, StopBegin,
     StopTokenSent, StopDrain, StopFinish, Feeder, FeedTake, Rest, vars
<1>. QED
  BY <1>1, <1>2, <1>3, <1>5, <1>6, <1>7, <1>8

(* The parent, file_que and the ends of the procs, together.               *)
EndsInv == ControlInv /\ FilesLeft /\ EndsCounted /\ ProcRows /\ MarksClean

(* Until stop(), as many procs are past their files as Nones were taken,   *)
(* and a proc whose end mark was counted holds no rows back.               *)
THEOREM EndsReached == Spec => []EndsInv
<1>1. Init => EndsInv
  <2>. SUFFICES ASSUME Init PROVE EndsInv
    OBVIOUS
  <2>1. Len(<<>>) = 0 /\ DOMAIN <<>> = {}
    OBVIOUS
  <2>. QED
    BY <2>1, CountsType DEF Init, EndsInv, ControlInv, FilesLeft, Total, Taken, EndsCounted,
       ProcRows, MarksClean, Aborting
<1>2. /\ TypeOK /\ TypeOK' /\ FullPutting /\ EndMarkInv /\ EndsInv /\ [Next]_vars
      => EndsInv'
  <2>. SUFFICES ASSUME TypeOK, TypeOK', FullPutting, EndMarkInv, EndsInv, [Next]_vars
                PROVE  EndsInv'
    OBVIOUS
  <2>. USE DEF EndsInv
  <2>1. ControlInv'
    BY ControlStep
  <2>2. FilesLeft'
    BY FilesStep
  <2>3. ProcRows'
    BY ProcRowsStep
  <2>4. EndsCounted'
    BY <2>3, EndsStep
  <2>5. MarksClean'
    BY CleanStep
  <2>. QED
    BY <2>1, <2>2, <2>3, <2>4, <2>5
<1>. QED
  BY <1>1, <1>2, Typing, FullIsPutting, EndMarks, PTL DEF Spec

---------------------------------------------------------------------------
(* The sizes of the batches                                                *)

(* A put of a message of the right size.                                   *)
LEMMA SizedPut ==
  ASSUME TypeOK, AllSized, NEW p \in Procs, NEW m \in Msgs, Sized(m),
         UNCHANGED <<delivered, pipe, inhand>>,
         buffer' = [buffer EXCEPT ![p] = Append(@, m)]
  PROVE  AllSized'
<1>1. buffer[p] \in Seq(Msgs) /\ buffer'[p] = Append(buffer[p], m)
  BY DEF TypeOK
<1>2. /\ DOMAIN buffer'[p] = 1..(Len(buffer[p]) + 1) /\ Len(buffer[p]) \in Nat
      /\ DOMAIN buffer[p] = 1..Len(buffer[p])
      /\ \A i \in 1..Len(buffer[p]) : buffer'[p][i] = buffer[p][i]
      /\ buffer'[p][Len(buffer[p]) + 1] = m
  BY <1>1, AppendProperties, LenProperties
<1>3. \A i \in DOMAIN buffer'[p] : Sized(buffer'[p][i])
  <2>. SUFFICES ASSUME NEW i \in DOMAIN buffer'[p] PROVE Sized(buffer'[p][i])
    OBVIOUS
  <2>1. i = Len(buffer[p]) + 1 \/ i \in DOMAIN buffer[p]
    BY <1>2
  <2>. QED
    BY <1>2, <2>1 DEF AllSized
<1>4. \A q \in Procs : q # p => buffer'[q] = buffer[q]
  BY DEF TypeOK
<1>. QED
  BY <1>3, <1>4 DEF AllSized, Sized

(* Every step keeps the sizes.                                             *)
LEMMA SizedStep ==
  ASSUME TypeOK, ProcRows, AllSized, [Next]_vars
  PROVE  AllSized'
<1>. USE DEF parentVars, tokenVars, procVars, queVars, genVars
<1>1. CASE Build
  BY <1>1 DEF Build, AllSized, Sized
<1>2. CASE UNCHANGED <<delivered, pipe, buffer, inhand>>
  BY <1>2 DEF AllSized, Sized
<1>3. ASSUME pipe # <<>>, pipe' = Tail(pipe), UNCHANGED <<buffer, inhand>>,
             \/ delivered' = delivered
             \/ delivered' = Append(delivered, Head(pipe)) /\ ~Head(pipe).end
      PROVE  AllSized'
  <2>1. \A i \in DOMAIN pipe' : i + 1 \in DOMAIN pipe /\ pipe'[i] = pipe[i + 1]
    BY <1>3, ShiftedPipe
  <2>2. 1 \in DOMAIN pipe /\ Head(pipe) = pipe[1] /\ pipe[1] \in Msgs
    <3>1. 1 \in DOMAIN pipe /\ Head(pipe) = pipe[1]
      BY <1>3, LenProperties, EmptySeq DEF TypeOK
    <3>. QED
      BY <3>1, MsgsHaveSender DEF TypeOK
  <2>3. ASSUME delivered' = Append(delivered, pipe[1])
        PROVE  \A i \in DOMAIN delivered' :
                 (i \in DOMAIN delivered /\ delivered'[i] = delivered[i]) \/ delivered'[i] = pipe[1]
    BY <2>2, <2>3, AppendProperties, LenProperties DEF TypeOK
  <2>4. \A i \in DOMAIN delivered' : Sized(delivered'[i]) /\ ~delivered'[i].end
    BY <1>3, <2>2, <2>3 DEF AllSized
  <2>. QED
    BY <1>3, <2>1, <2>4 DEF AllSized, Sized
<1>4. CASE StopFinish
  BY <1>4 DEF StopFinish, QueuesBuilt, AllSized, Sized
<1>5. ASSUME NEW p \in Procs, FeedTake(p) PROVE AllSized'
  <2>1. /\ buffer[p] \in Seq(Msgs) /\ buffer[p] # <<>>
        /\ inhand'[p] = <<Head(buffer[p])>> /\ buffer'[p] = Tail(buffer[p])
        /\ \A q \in Procs : q # p => buffer'[q] = buffer[q] /\ inhand'[q] = inhand[q]
        /\ UNCHANGED <<pipe, delivered>>
    BY <1>5 DEF FeedTake, TypeOK
  <2>2. /\ 1 \in DOMAIN buffer[p] /\ Head(buffer[p]) = buffer[p][1]
        /\ \A i \in DOMAIN Tail(buffer[p]) : i + 1 \in DOMAIN buffer[p]
                                             /\ Tail(buffer[p])[i] = buffer[p][i + 1]
    BY <2>1, HeadTailProperties, LenProperties, EmptySeq
  <2>3. /\ \A i \in DOMAIN buffer'[p] : Sized(buffer'[p][i])
        /\ \A i \in DOMAIN inhand'[p] : Sized(inhand'[p][i])
    BY <2>1, <2>2 DEF AllSized
  <2>. QED
    BY <2>1, <2>3 DEF AllSized, Sized
<1>6. ASSUME NEW p \in Procs, FeedSend(p) PROVE AllSized'
  <2>1. /\ inhand[p] \in Seq(Msgs) /\ inhand[p] # <<>> /\ pipe \in Seq(Msgs)
        /\ inhand'[p] = <<>> /\ pipe' = Append(pipe, Head(inhand[p]))
        /\ \A q \in Procs : q # p => inhand'[q] = inhand[q]
        /\ UNCHANGED <<buffer, delivered>>
    BY <1>6 DEF FeedSend, TypeOK
  <2>2. 1 \in DOMAIN inhand[p] /\ Head(inhand[p]) = inhand[p][1] /\ Head(inhand[p]) \in Msgs
    BY <2>1, HeadTailProperties, LenProperties, EmptySeq
  <2>3. \A i \in DOMAIN pipe' : \/ i \in DOMAIN pipe /\ pipe'[i] = pipe[i]
                                \/ pipe'[i] = inhand[p][1]
    BY <2>1, <2>2, AppendProperties, LenProperties
  <2>4. \A i \in DOMAIN pipe' : Sized(pipe'[i])
    BY <2>2, <2>3 DEF AllSized
  <2>. QED
    BY <2>1, <2>4 DEF AllSized, Sized
<1>7. ASSUME NEW p \in Procs, LoadDataProc(p) PROVE AllSized'
  <2>1. UNCHANGED <<delivered, pipe, inhand>>
    BY <1>7, ProcTouches
  <2>2. BatchSize \in Nat \ {0} /\ Joined(p) \in Seq(Nat \X Nat) /\ todo[p] \in Seq(Nat \X Nat)
        /\ part[p] \in Seq(Nat \X Nat)
    BY CountsType, ConcatProperties DEF Joined, TypeOK
  <2>3. CASE buffer' = buffer
    BY <1>2, <2>1, <2>3
  <2>4. ASSUME NEW s \in Seq(Nat \X Nat), Len(s) \in 1..BatchSize
        PROVE  Batch(p, s) \in Msgs /\ Sized(Batch(p, s))
    BY <2>4, MsgType DEF Batch, Sized
  <2>5. CASE PutBatch(p)
    <3>1. FirstOf(todo[p]) \in Seq(Nat \X Nat) /\ Len(FirstOf(todo[p])) = BatchSize
      BY <2>2, <2>5, CutType, CutRows DEF PutBatch
    <3>2. buffer' = [buffer EXCEPT ![p] = Append(@, Batch(p, FirstOf(todo[p])))]
      BY <2>5 DEF PutBatch, Enqueue
    <3>3. Batch(p, FirstOf(todo[p])) \in Msgs /\ Sized(Batch(p, FirstOf(todo[p])))
      <4>1. FirstOf(todo[p]) \in Seq(Nat \X Nat) /\ Len(FirstOf(todo[p])) \in 1..BatchSize
        BY <2>2, <3>1
      <4>. QED
        BY <2>4, <4>1, Zenon
    <3>. QED
      BY <2>1, <3>2, <3>3, SizedPut
  <2>6. CASE PutPadded(p)
    <3>1. FirstOf(Joined(p)) \in Seq(Nat \X Nat) /\ Len(FirstOf(Joined(p))) = BatchSize
      BY <2>2, <2>6, CutType, CutRows DEF PutPadded
    <3>2. buffer' = [buffer EXCEPT ![p] = Append(@, Batch(p, FirstOf(Joined(p))))]
      BY <2>6 DEF PutPadded, Enqueue
    <3>3. Batch(p, FirstOf(Joined(p))) \in Msgs /\ Sized(Batch(p, FirstOf(Joined(p))))
      <4>1. FirstOf(Joined(p)) \in Seq(Nat \X Nat) /\ Len(FirstOf(Joined(p))) \in 1..BatchSize
        BY <2>2, <3>1
      <4>. QED
        BY <2>4, <4>1, Zenon
    <3>. QED
      BY <2>1, <3>2, <3>3, SizedPut
  <2>7. CASE PutShort(p)
    <3>1. Len(part[p]) \in 1..BatchSize
      <4>1. part[p] # <<>> /\ Len(part[p]) < BatchSize
        BY <2>7 DEF PutShort, HasShort, ProcRows
      <4>. QED
        BY <2>2, <4>1, LenProperties, EmptySeq
    <3>2. buffer' = [buffer EXCEPT ![p] = Append(@, Batch(p, part[p]))]
      BY <2>7 DEF PutShort, Enqueue
    <3>. QED
      BY <2>1, <2>2, <2>4, <3>1, <3>2, SizedPut
  <2>8. CASE PutEndMark(p)
    <3>1. EndMark(p) \in Msgs /\ Sized(EndMark(p))
      BY MsgType, EmptySeq DEF EndMark, Sized
    <3>2. buffer' = [buffer EXCEPT ![p] = Append(@, EndMark(p))]
      BY <2>8 DEF PutEndMark, Enqueue
    <3>. QED
      BY <2>1, <3>1, <3>2, SizedPut
  <2>9. buffer' = buffer \/ PutBatch(p) \/ PutPadded(p) \/ PutShort(p) \/ PutEndMark(p)
    BY <1>7 DEF LoadDataProc, WaitStart, SeeStop, SeeNoStop, GetFile, Crash, Carry,
       SkipShort, PutTimeout, PutAgain, GiveUp, DrainFiles, Exit
  <2>. QED
    BY <2>3, <2>5, <2>6, <2>7, <2>8, <2>9
<1>8. CASE GenGet
  BY <1>3, <1>8 DEF GenGet, TakeFromPipe
<1>9. CASE StopDrain
  BY <1>2, <1>3, <1>9 DEF StopDrain, TakeFromPipe
<1>10. \/ Build \/ GenGet \/ StopDrain \/ StopFinish
       \/ UNCHANGED <<delivered, pipe, buffer, inhand>>
       \/ \E p \in Procs : LoadDataProc(p) \/ FeedTake(p) \/ FeedSend(p)
  BY DEF Next, BuildFails, GenStart, GenEmpty, StopUnstarted, StopBegin,
     StopTokenSent, Feeder, Rest, vars
<1>. QED
  BY <1>1, <1>2, <1>4, <1>5, <1>6, <1>7, <1>8, <1>9, <1>10

---------------------------------------------------------------------------
(* The places of the rows                                                  *)

(* Rows put together: their set, and when none is there twice.             *)
LEMMA JoinRows ==
  ASSUME NEW s \in Seq(Nat \X Nat), NEW t \in Seq(Nat \X Nat)
  PROVE  /\ s \o t \in Seq(Nat \X Nat)
         /\ ToSet(s \o t) = ToSet(s) \cup ToSet(t)
         /\ IsInjective(s \o t) <=> /\ IsInjective(s) /\ IsInjective(t)
                                    /\ ToSet(s) \cap ToSet(t) = {}
<1>. DEFINE u == s \o t
<1>1. /\ u \in Seq(Nat \X Nat) /\ Len(u) = Len(s) + Len(t)
      /\ \A i \in 1..Len(s) + Len(t) : u[i] = IF i <= Len(s) THEN s[i] ELSE t[i - Len(s)]
  BY ConcatProperties
<1>2. /\ DOMAIN s = 1..Len(s) /\ DOMAIN t = 1..Len(t) /\ Len(s) \in Nat /\ Len(t) \in Nat
      /\ DOMAIN u = 1..Len(u)
  BY <1>1, LenProperties
<1>. HIDE DEF u
<1>3. ASSUME NEW i \in DOMAIN s PROVE i \in DOMAIN u /\ u[i] = s[i]
  <2>1. i \in 1..Len(s) + Len(t) /\ i <= Len(s)
    BY <1>2
  <2>. QED
    BY <1>1, <1>2, <2>1
<1>4. ASSUME NEW i \in DOMAIN t
      PROVE  /\ i + Len(s) \in DOMAIN u /\ u[i + Len(s)] = t[i]
             /\ i + Len(s) \notin DOMAIN s
  <2>1. /\ i + Len(s) \in 1..Len(s) + Len(t) /\ ~(i + Len(s) <= Len(s))
        /\ i + Len(s) - Len(s) = i
    <3>1. i \in Nat \ {0} /\ i <= Len(t)
      BY <1>2
    <3>2. ASSUME NEW a \in Nat, NEW b \in Nat, NEW c \in Nat \ {0}, c <= b
          PROVE  c + a \in 1..a + b /\ ~(c + a <= a) /\ c + a - a = c
      BY <3>2
    <3>. QED
      BY <1>2, <3>1, <3>2
  <2>. QED
    BY <1>1, <1>2, <2>1
<1>5. ASSUME NEW i \in DOMAIN u, i \notin DOMAIN s
      PROVE  i - Len(s) \in DOMAIN t /\ u[i] = t[i - Len(s)]
  <2>1. i \in 1..Len(s) + Len(t) /\ ~(i <= Len(s)) /\ i - Len(s) \in 1..Len(t)
    <3>1. i \in 1..Len(s) + Len(t)
      BY <1>1, <1>2
    <3>2. i \notin 1..Len(s)
      BY <1>2, <1>5
    <3>3. ASSUME NEW a \in Nat, NEW b \in Nat, NEW c \in 1..a + b, c \notin 1..a
          PROVE  ~(c <= a) /\ c - a \in 1..b
      BY <3>3
    <3>. QED
      BY <1>2, <3>1, <3>2, <3>3
  <2>. QED
    BY <1>1, <1>2, <2>1
<1>6. ToSet(u) = ToSet(s) \cup ToSet(t)
  BY <1>3, <1>4, <1>5 DEF ToSet
<1>7. ASSUME IsInjective(s), IsInjective(t), ToSet(s) \cap ToSet(t) = {}
      PROVE  IsInjective(u)
  <2>. SUFFICES ASSUME NEW i \in DOMAIN u, NEW j \in DOMAIN u, u[i] = u[j] PROVE i = j
    BY DEF IsInjective
  <2>1. CASE i \in DOMAIN s /\ j \in DOMAIN s
    BY <1>3, <1>7, <2>1 DEF IsInjective
  <2>2. CASE i \notin DOMAIN s /\ j \notin DOMAIN s
    <3>1. i - Len(s) = j - Len(s)
      BY <1>5, <1>7, <2>2 DEF IsInjective
    <3>. QED
      BY <1>2, <3>1
  <2>3. CASE i \in DOMAIN s /\ j \notin DOMAIN s
    <3>1. u[i] \in ToSet(s) /\ u[j] \in ToSet(t)
      BY <1>3, <1>5, <2>3 DEF ToSet
    <3>. QED
      BY <1>7, <3>1
  <2>4. CASE i \notin DOMAIN s /\ j \in DOMAIN s
    <3>1. u[j] \in ToSet(s) /\ u[i] \in ToSet(t)
      BY <1>3, <1>5, <2>4 DEF ToSet
    <3>. QED
      BY <1>7, <3>1
  <2>. QED
    BY <2>1, <2>2, <2>3, <2>4
<1>8. ASSUME IsInjective(u)
      PROVE  IsInjective(s) /\ IsInjective(t) /\ ToSet(s) \cap ToSet(t) = {}
  <2>1. ASSUME NEW i \in DOMAIN s, NEW j \in DOMAIN s, s[i] = s[j] PROVE i = j
    BY <1>3, <1>8, <2>1 DEF IsInjective
  <2>2. ASSUME NEW i \in DOMAIN t, NEW j \in DOMAIN t, t[i] = t[j] PROVE i = j
    <3>1. i + Len(s) = j + Len(s)
      BY <1>4, <1>8, <2>2 DEF IsInjective
    <3>. QED
      BY <1>2, <3>1
  <2>3. ASSUME NEW i \in DOMAIN s, NEW j \in DOMAIN t PROVE s[i] # t[j]
    <3>1. i # j + Len(s)
      BY <1>4
    <3>. QED
      BY <1>3, <1>4, <1>8, <3>1 DEF IsInjective
  <2>. QED
    BY <2>1, <2>2, <2>3 DEF IsInjective, ToSet
<1>. QED
  BY <1>1, <1>6, <1>7, <1>8 DEF u

(* The rows of a file bear its number, and each is there once.             *)
LEMMA FileRows ==
  /\ \A k \in 1..NumHanded : /\ ToSet(Rows(k)) \subseteq AllRows /\ IsInjective(Rows(k))
                             /\ \A r \in ToSet(Rows(k)) : r[1] = k
  /\ \A r \in AllRows : r[1] \in 1..NumHanded /\ r \in ToSet(Rows(r[1]))
<1>1. ASSUME NEW k \in 1..NumHanded
      PROVE  /\ ToSet(Rows(k)) \subseteq AllRows /\ IsInjective(Rows(k))
             /\ \A r \in ToSet(Rows(k)) : r[1] = k
  <2>1. ToSet(Rows(k)) \subseteq AllRows
    BY DEF AllRows
  <2>2. IsInjective(Rows(k))
    BY DEF IsInjective, Rows
  <2>3. \A i \in DOMAIN Rows(k) : Rows(k)[i] = <<k, i>> /\ <<k, i>>[1] = k
    BY DEF Rows
  <2>. QED
    BY <2>1, <2>2, <2>3 DEF ToSet
<1>2. ASSUME NEW r \in AllRows PROVE r[1] \in 1..NumHanded /\ r \in ToSet(Rows(r[1]))
  <2>1. PICK k \in 1..NumHanded : r \in ToSet(Rows(k))
    BY DEF AllRows
  <2>. QED
    BY <1>1, <2>1
<1>. QED
  BY <1>1, <1>2

(* A step that brings no row to any place it was not in.                   *)
LEMMA NoNewPlace ==
  ASSUME RowsTaken, OnlyOnce, Taken \in Int, Taken' \in Int, Taken' >= Taken,
         \A p \in Procs : IsInjective(Joined(p)'),
         \A r : \A c \in Cells, p \in Procs, n \in Nat : In(r, c, p, n)' => In(r, c, p, n)
  PROVE  RowsTaken' /\ OnlyOnce'
<1>1. RowsTaken'
  <2>. SUFFICES ASSUME NEW r, NEW c \in Cells, NEW p \in Procs, NEW n \in Nat,
                       In(r, c, p, n)'
                PROVE  r \in AllRows /\ r[1] <= Taken'
    BY DEF RowsTaken
  <2>1. r \in AllRows /\ r[1] <= Taken /\ r[1] \in Int
    BY FileRows DEF RowsTaken
  <2>. QED
    BY <2>1
<1>2. OnlyOnce'
  BY DEF OnlyOnce
<1>. QED
  BY <1>1, <1>2

(* A step that moves no row.                                               *)
LEMMA SamePlaces ==
  ASSUME RowsInv, Taken \in Int, Taken' \in Int, Taken' >= Taken,
         UNCHANGED <<delivered, pipe, inhand, buffer>>,
         \A p \in Procs : Joined(p)' = Joined(p),
         ppc' = "built" => ppc = "built" /\ Taken' = Taken
  PROVE  RowsInv'
<1>1. \A r : \A c \in Cells, p \in Procs, n \in Nat : In(r, c, p, n)' <=> In(r, c, p, n)
  BY DEF In, Holds
<1>2. \A p \in Procs : IsInjective(Joined(p)')
  BY DEF RowsInv, OnlyOnce
<1>3. RowsTaken' /\ OnlyOnce'
  BY <1>1, <1>2, NoNewPlace DEF RowsInv
<1>4. NoneLost'
  BY <1>1 DEF RowsInv, NoneLost
<1>. QED
  BY <1>3, <1>4 DEF RowsInv

(* A put moves rows of the proc to the end of its buffer.                  *)
LEMMA PutMoves ==
  ASSUME TypeOK, TypeOK', RowsInv, NEW p \in Procs, NEW m \in Msgs, m.from = p,
         Taken' = Taken, Taken \in Int,
         ppc' = ppc, UNCHANGED <<delivered, pipe, inhand>>,
         buffer' = [buffer EXCEPT ![p] = Append(@, m)],
         \A q \in Procs : q # p => Joined(q)' = Joined(q),
         IsInjective(Joined(p)'),
         ToSet(m.rows) \cap ToSet(Joined(p)') = {},
         ToSet(m.rows) \cup ToSet(Joined(p)') = ToSet(Joined(p))
  PROVE  RowsInv'
<1>0. PICK L \in Nat : L = Len(buffer[p]) + 1
  BY LenProperties DEF TypeOK
<1>1. /\ DOMAIN buffer[p] = 1..Len(buffer[p]) /\ Len(buffer[p]) \in Nat /\ L \in Nat
      /\ DOMAIN buffer'[p] = 1..L /\ buffer'[p][L] = m
      /\ \A i \in DOMAIN buffer[p] : buffer'[p][i] = buffer[p][i]
      /\ \A q \in Procs : q # p => buffer'[q] = buffer[q]
  <2>1. buffer[p] \in Seq(Msgs) /\ buffer'[p] = Append(buffer[p], m)
    BY DEF TypeOK
  <2>2. \A q \in Procs : q # p => buffer'[q] = buffer[q]
    BY DEF TypeOK
  <2>. QED
    BY <1>0, <2>1, <2>2, AppendProperties, LenProperties
<1>2. ASSUME NEW r, NEW c \in Cells, NEW q \in Procs, NEW n \in Nat, In(r, c, q, n)'
      PROVE  \/ c = "buffer" /\ q = p /\ n = L /\ r \in ToSet(m.rows) /\ In(r, "proc", p, 0)
             \/ /\ ~(c = "buffer" /\ q = p /\ n = L)
                /\ In(r, c, q, n)
                /\ c = "proc" /\ q = p => r \in ToSet(Joined(p)')
  <2>1. CASE c = "buffer" /\ q = p
    <3>1. Holds(buffer'[p], p, n, r)
      BY <1>2, <2>1 DEF In
    <3>2. CASE n = L
      <4>1. r \in ToSet(m.rows)
        BY <1>1, <3>1, <3>2 DEF Holds
      <4>. QED
        BY <2>1, <3>2, <4>1 DEF In
    <3>3. CASE n # L
      <4>1. n \in DOMAIN buffer[p]
        BY <1>0, <1>1, <3>1, <3>3 DEF Holds
      <4>. QED
        BY <1>1, <2>1, <3>1, <3>3, <4>1 DEF In, Holds
    <3>. QED
      BY <3>2, <3>3
  <2>2. CASE c = "proc" /\ q = p
    <3>1. r \in ToSet(Joined(p)') /\ n = 0
      BY <1>2, <2>2 DEF In
    <3>. QED
      BY <2>2, <3>1 DEF In
  <2>3. CASE q # p \/ c \in {"yielded", "pipe", "hand"}
    BY <1>1, <1>2, <2>3 DEF In
  <2>. QED
    BY <2>1, <2>2, <2>3 DEF Cells
<1>6. \A r : r \in ToSet(m.rows) => In(r, "buffer", p, L)'
  <2>1. L \in DOMAIN buffer'[p] /\ buffer'[p][L].from = p /\ buffer'[p][L].rows = m.rows
    BY <1>0, <1>1
  <2>2. \A r : r \in ToSet(m.rows) => Holds(buffer'[p], p, L, r)
    BY <2>1, Zenon DEF Holds
  <2>. QED
    BY <2>2, Zenon DEF In
<1>7. \A r : \A d \in Cells, u \in Procs, k \in Nat :
        In(r, "proc", p, 0) /\ In(r, d, u, k) => d = "proc" /\ u = p
  <2>1. "proc" \in Cells /\ 0 \in Nat
    BY DEF Cells
  <2>. QED
    BY <2>1, Zenon DEF RowsInv, OnlyOnce
<1>3. RowsTaken'
  <2>. SUFFICES ASSUME NEW r, NEW c \in Cells, NEW q \in Procs, NEW n \in Nat,
                       In(r, c, q, n)'
                PROVE  r \in AllRows /\ r[1] <= Taken
    BY DEF RowsTaken
  <2>1. In(r, "proc", p, 0) \/ In(r, c, q, n)
    BY <1>2
  <2>. QED
    BY <2>1 DEF RowsInv, RowsTaken, Cells
<1>4. OnlyOnce'
  <2>1. \A q \in Procs : IsInjective(Joined(q)')
    BY DEF RowsInv, OnlyOnce
  <2>2. ASSUME NEW r, NEW c \in Cells, NEW d \in Cells, NEW q \in Procs, NEW u \in Procs,
               NEW n \in Nat, NEW k \in Nat, In(r, c, q, n)', In(r, d, u, k)'
        PROVE  c = d /\ q = u /\ n = k
    <3>1. CASE c = "buffer" /\ q = p /\ n = L
      <4>1. r \in ToSet(m.rows) /\ In(r, "proc", p, 0)
        BY <1>2, <2>2, <3>1
      <4>2. ASSUME ~(d = "buffer" /\ u = p /\ k = L) PROVE FALSE
        <5>1. In(r, d, u, k) /\ (d = "proc" /\ u = p => r \in ToSet(Joined(p)'))
          BY <1>2, <2>2, <4>2
        <5>2. d = "proc" /\ u = p
          BY <1>7, <4>1, <5>1
        <5>. QED
          BY <4>1, <5>1, <5>2
      <4>. QED
        BY <3>1, <4>2
    <3>2. CASE d = "buffer" /\ u = p /\ k = L
      <4>1. r \in ToSet(m.rows) /\ In(r, "proc", p, 0)
        BY <1>2, <2>2, <3>2
      <4>2. ASSUME ~(c = "buffer" /\ q = p /\ n = L) PROVE FALSE
        <5>1. In(r, c, q, n) /\ (c = "proc" /\ q = p => r \in ToSet(Joined(p)'))
          BY <1>2, <2>2, <4>2
        <5>2. c = "proc" /\ q = p
          BY <1>7, <4>1, <5>1
        <5>. QED
          BY <4>1, <5>1, <5>2
      <4>. QED
        BY <3>2, <4>2
    <3>3. CASE ~(c = "buffer" /\ q = p /\ n = L) /\ ~(d = "buffer" /\ u = p /\ k = L)
      <4>1. In(r, c, q, n) /\ In(r, d, u, k)
        BY <1>2, <2>2, <3>3
      <4>. QED
        BY <4>1 DEF RowsInv, OnlyOnce
    <3>. QED
      BY <3>1, <3>2, <3>3
  <2>. QED
    BY <2>1, <2>2 DEF OnlyOnce
<1>5. NoneLost'
  <2>1. ASSUME NEW r, NEW c \in Cells, NEW q \in Procs, NEW n \in Nat, In(r, c, q, n)
        PROVE  \E d \in Cells, u \in Procs, k \in Nat : In(r, d, u, k)'
    <3>1. CASE c = "proc" /\ q = p
      <4>1. r \in ToSet(m.rows) \/ r \in ToSet(Joined(p)')
        BY <2>1, <3>1 DEF In
      <4>2. CASE r \in ToSet(m.rows)
        <5>1. In(r, "buffer", p, L)'
          BY <1>6, <4>2
        <5>2. "buffer" \in Cells /\ L \in Nat
          BY <1>1 DEF Cells
        <5>. QED
          BY <5>1, <5>2
      <4>3. CASE r \in ToSet(Joined(p)')
        <5>1. In(r, "proc", p, 0)'
          BY <4>3 DEF In
        <5>. QED
          BY <5>1 DEF Cells
      <4>. QED
        BY <4>1, <4>2, <4>3
    <3>2. CASE c = "buffer" /\ q = p
      <4>1. Holds(buffer[p], p, n, r)
        BY <2>1, <3>2 DEF In
      <4>2. Holds(buffer'[p], p, n, r)
        <5>1. n \in DOMAIN buffer'[p] /\ buffer'[p][n] = buffer[p][n]
          BY <1>0, <1>1, <4>1 DEF Holds
        <5>. QED
          BY <4>1, <5>1 DEF Holds
      <4>3. In(r, c, q, n)'
        BY <3>2, <4>2 DEF In
      <4>. QED
        BY <4>3
    <3>3. CASE q # p \/ c \in {"yielded", "pipe", "hand"}
      <4>1. In(r, c, q, n)'
        BY <1>1, <2>1, <3>3 DEF In
      <4>. QED
        BY <4>1
    <3>. QED
      BY <3>1, <3>2, <3>3 DEF Cells
  <2>. QED
    BY <2>1 DEF RowsInv, NoneLost
<1>. QED
  BY <1>3, <1>4, <1>5 DEF RowsInv

(* The oldest message leaves the pipe; the generator yields it, or it has  *)
(* no rows, or nobody takes its rows any more.                             *)
LEMMA PipeTaken ==
  ASSUME TypeOK, AllSized, RowsInv, pipe # <<>>, pipe' = Tail(pipe),
         UNCHANGED <<fileQ, ppc, inhand, buffer, part, todo>>,
         \/ delivered' = Append(delivered, Head(pipe))
         \/ delivered' = delivered /\ (Head(pipe).end \/ ppc # "built")
  PROVE  RowsInv'
<1>0. PICK L \in Nat : L = Len(delivered) + 1
  BY LenProperties DEF TypeOK
<1>1. /\ \A i \in DOMAIN pipe' : /\ i \in Nat \ {0} /\ i + 1 \in DOMAIN pipe
                                 /\ pipe'[i] = pipe[i + 1]
      /\ 1 \in DOMAIN pipe /\ Head(pipe) = pipe[1] /\ pipe[1] \in Msgs
      /\ DOMAIN pipe = 1..Len(pipe) /\ Len(pipe) \in Nat
      /\ DOMAIN pipe' = 1..(Len(pipe) - 1)
  <2>1. \A i \in DOMAIN pipe' : /\ i \in Nat \ {0} /\ i + 1 \in DOMAIN pipe
                                /\ pipe'[i] = pipe[i + 1]
    BY ShiftedPipe
  <2>2. pipe \in Seq(Msgs) /\ Len(Tail(pipe)) = Len(pipe) - 1 /\ Tail(pipe) \in Seq(Msgs)
        /\ Head(pipe) = pipe[1] /\ Head(pipe) \in Msgs
    BY HeadTailProperties DEF TypeOK
  <2>3. Len(pipe) \in Nat \ {0} /\ DOMAIN pipe = 1..Len(pipe)
        /\ DOMAIN pipe' = 1..(Len(pipe) - 1)
    BY <2>2, LenProperties, EmptySeq
  <2>. QED
    BY <2>1, <2>2, <2>3
<1>2. /\ \A i \in DOMAIN delivered : i \in DOMAIN delivered' /\ delivered'[i] = delivered[i]
      /\ \A i \in DOMAIN delivered' :
           \/ i \in DOMAIN delivered /\ i # L
           \/ i = L /\ delivered'[i] = pipe[1]
      /\ delivered' # delivered => L \in DOMAIN delivered' /\ delivered'[L] = pipe[1]
  <2>1. delivered \in Seq(Msgs) /\ DOMAIN delivered = 1..Len(delivered) /\ Len(delivered) \in Nat
    BY LenProperties DEF TypeOK
  <2>0. \A i \in DOMAIN delivered : i # L
    BY <1>0, <2>1
  <2>2. CASE delivered' = Append(delivered, pipe[1])
    <3>1. /\ DOMAIN delivered' = 1..L /\ delivered'[L] = pipe[1]
          /\ \A i \in 1..Len(delivered) : delivered'[i] = delivered[i]
      <4>1. /\ delivered' \in Seq(Msgs) /\ Len(delivered') = L
            /\ delivered'[Len(delivered) + 1] = pipe[1]
            /\ \A i \in 1..Len(delivered) : delivered'[i] = delivered[i]
        <5>1. LET t == Append(delivered, pipe[1])
              IN  /\ t \in Seq(Msgs) /\ Len(t) = Len(delivered) + 1
                  /\ t[Len(delivered) + 1] = pipe[1]
                  /\ \A i \in 1..Len(delivered) : t[i] = delivered[i]
          BY <1>1, <2>1, AppendProperties
        <5>. QED
          BY <1>0, <2>2, <5>1
      <4>. QED
        BY <1>0, <4>1, LenProperties
    <3>2. \A i \in 1..L : i = L \/ i \in 1..Len(delivered)
      BY <1>0, <2>1
    <3>3. L \in 1..L /\ \A i \in 1..Len(delivered) : i \in 1..L
      BY <1>0, <2>1
    <3>. QED
      BY <2>0, <2>1, <3>1, <3>2, <3>3
  <2>3. CASE delivered' = delivered
    BY <2>0, <2>3
  <2>. QED
    BY <1>1, <2>2, <2>3
<1>3. \A p \in Procs : Joined(p)' = Joined(p)
  BY DEF Joined
<1>4. Taken' = Taken /\ Taken \in Int
  BY QueueCounts DEF Taken, Total
<1>5. ASSUME NEW r, NEW c \in Cells, NEW q \in Procs, NEW n \in Nat, In(r, c, q, n)'
      PROVE  \/ c = "yielded" /\ n = L /\ In(r, "pipe", q, 1)
             \/ c = "yielded" /\ n # L /\ In(r, c, q, n)
             \/ c = "pipe" /\ n > 0 /\ In(r, "pipe", q, n + 1)
             \/ c \in {"hand", "buffer", "proc"} /\ In(r, c, q, n)
  <2>1. CASE c = "yielded"
    <3>1. Holds(delivered', q, n, r)
      BY <1>5, <2>1 DEF In
    <3>2. CASE n \in DOMAIN delivered /\ n # L
      BY <1>2, <2>1, <3>1, <3>2 DEF In, Holds
    <3>3. CASE n = L /\ delivered'[n] = pipe[1]
      <4>1. Holds(pipe, q, 1, r)
        BY <1>1, <3>1, <3>3 DEF Holds
      <4>. QED
        BY <2>1, <3>3, <4>1 DEF In
    <3>. QED
      BY <1>2, <3>1, <3>2, <3>3 DEF Holds
  <2>2. CASE c = "pipe"
    <3>1. Holds(pipe', q, n, r)
      BY <1>5, <2>2 DEF In
    <3>2. Holds(pipe, q, n + 1, r) /\ n > 0
      BY <1>1, <3>1 DEF Holds
    <3>. QED
      BY <2>2, <3>2 DEF In
  <2>3. CASE c \in {"hand", "buffer", "proc"}
    BY <1>3, <1>5, <2>3 DEF In
  <2>. QED
    BY <2>1, <2>2, <2>3 DEF Cells
<1>6. RowsTaken'
  <2>. SUFFICES ASSUME NEW r, NEW c \in Cells, NEW q \in Procs, NEW n \in Nat, In(r, c, q, n)'
                PROVE  r \in AllRows /\ r[1] <= Taken
    BY <1>4 DEF RowsTaken
  <2>1. PICK d \in Cells, m \in Nat : In(r, d, q, m)
    <3>1. 1 \in Nat /\ n + 1 \in Nat /\ "pipe" \in Cells
      BY DEF Cells
    <3>. QED
      BY <1>5, <3>1
  <2>. QED
    BY <2>1 DEF RowsInv, RowsTaken
<1>7. OnlyOnce'
  <2>1. \A p \in Procs : IsInjective(Joined(p)')
    BY <1>3 DEF RowsInv, OnlyOnce
  <2>2. ASSUME NEW r, NEW c \in Cells, NEW d \in Cells, NEW q \in Procs, NEW u \in Procs,
               NEW n \in Nat, NEW k \in Nat, In(r, c, q, n)', In(r, d, u, k)'
        PROVE  c = d /\ q = u /\ n = k
    <3>1. \A e \in Cells, f \in Cells, v \in Procs, w \in Procs, x \in Nat, y \in Nat :
            In(r, e, v, x) /\ In(r, f, w, y) => e = f /\ v = w /\ x = y
      BY DEF RowsInv, OnlyOnce
    <3>2. {"yielded", "pipe", "hand", "buffer", "proc"} \subseteq Cells
          /\ 1 \in Nat /\ n + 1 \in Nat /\ k + 1 \in Nat
      BY DEF Cells
    <3>3. \/ c = "yielded" /\ n = L /\ In(r, "pipe", q, 1)
          \/ c = "yielded" /\ n # L /\ In(r, c, q, n)
          \/ c = "pipe" /\ n > 0 /\ In(r, "pipe", q, n + 1)
          \/ c \in {"hand", "buffer", "proc"} /\ In(r, c, q, n)
      BY <1>5, <2>2
    <3>4. \/ d = "yielded" /\ k = L /\ In(r, "pipe", u, 1)
          \/ d = "yielded" /\ k # L /\ In(r, d, u, k)
          \/ d = "pipe" /\ k > 0 /\ In(r, "pipe", u, k + 1)
          \/ d \in {"hand", "buffer", "proc"} /\ In(r, d, u, k)
      BY <1>5, <2>2
    <3>. QED
      BY <3>1, <3>2, <3>3, <3>4
  <2>. QED
    BY <2>1, <2>2 DEF OnlyOnce
<1>8. NoneLost'
  <2>1. ASSUME NEW r, NEW c \in Cells, NEW q \in Procs, NEW n \in Nat, In(r, c, q, n),
               ppc = "built"
        PROVE  \E d \in Cells, k \in Nat : In(r, d, q, k)'
    <3>1. CASE c = "yielded"
      <4>1. Holds(delivered', q, n, r)
        BY <1>2, <2>1, <3>1 DEF In, Holds
      <4>2. In(r, "yielded", q, n)'
        BY <4>1 DEF In
      <4>. QED
        BY <4>2 DEF Cells
    <3>2. CASE c = "pipe" /\ n = 1
      <4>1. Holds(pipe, q, 1, r)
        BY <2>1, <3>2 DEF In
      <4>2. ~pipe[1].end
        <5>1. pipe[1].end => pipe[1].rows = <<>>
          BY <1>1 DEF AllSized, Sized
        <5>2. r \in ToSet(pipe[1].rows)
          BY <4>1 DEF Holds
        <5>. QED
          BY <5>1, <5>2 DEF ToSet
      <4>3. L \in DOMAIN delivered' /\ delivered'[L] = pipe[1]
        <5>1. delivered' = Append(delivered, pipe[1])
          BY <1>1, <2>1, <4>2
        <5>. QED
          BY <1>0, <1>1, <5>1, AppendProperties, LenProperties DEF TypeOK
      <4>4. Holds(delivered', q, L, r)
        BY <4>1, <4>3 DEF Holds
      <4>5. In(r, "yielded", q, L)'
        BY <4>4 DEF In
      <4>. QED
        BY <4>5 DEF Cells
    <3>3. CASE c = "pipe" /\ n # 1
      <4>1. Holds(pipe, q, n, r)
        BY <2>1, <3>3 DEF In
      <4>2. PICK k \in Nat : k + 1 = n /\ k \in DOMAIN pipe'
        BY <1>1, <3>3, <4>1 DEF Holds
      <4>3. Holds(pipe', q, k, r)
        BY <1>1, <4>1, <4>2 DEF Holds
      <4>4. In(r, "pipe", q, k)'
        BY <4>3 DEF In
      <4>. QED
        BY <4>4 DEF Cells
    <3>4. CASE c \in {"hand", "buffer", "proc"}
      <4>1. In(r, c, q, n)'
        BY <1>3, <2>1, <3>4 DEF In
      <4>. QED
        BY <4>1
    <3>. QED
      BY <3>1, <3>2, <3>3, <3>4 DEF Cells
  <2>. QED
    BY <1>4, <2>1 DEF RowsInv, NoneLost
<1>. QED
  BY <1>6, <1>7, <1>8 DEF RowsInv

(* A feeder thread takes the first message of its buffer.                  *)
LEMMA FeedTaken ==
  ASSUME TypeOK, RowsInv, NEW p \in Procs, FeedTake(p)
  PROVE  RowsInv'
<1>1. /\ buffer[p] \in Seq(Msgs) /\ buffer[p] # <<>> /\ inhand[p] = <<>>
      /\ inhand'[p] = <<buffer[p][1]>> /\ buffer'[p] = Tail(buffer[p])
      /\ \A q \in Procs : q # p => buffer'[q] = buffer[q] /\ inhand'[q] = inhand[q]
      /\ UNCHANGED <<ppc, pipe, delivered, fileQ, part, todo>>
  BY HeadTailProperties DEF FeedTake, TypeOK, parentVars, procVars, genVars
<1>2. /\ DOMAIN buffer[p] = 1..Len(buffer[p]) /\ Len(buffer[p]) \in Nat \ {0}
      /\ 1 \in DOMAIN buffer[p]
      /\ DOMAIN buffer'[p] = 1..(Len(buffer[p]) - 1)
      /\ \A i \in DOMAIN buffer'[p] : i \in Nat \ {0} /\ i + 1 \in DOMAIN buffer[p]
                                      /\ buffer'[p][i] = buffer[p][i + 1]
  <2>1. /\ Len(Tail(buffer[p])) = Len(buffer[p]) - 1 /\ Tail(buffer[p]) \in Seq(Msgs)
        /\ \A i \in 1..Len(Tail(buffer[p])) : Tail(buffer[p])[i] = buffer[p][i + 1]
    BY <1>1, HeadTailProperties
  <2>2. DOMAIN buffer[p] = 1..Len(buffer[p]) /\ Len(buffer[p]) \in Nat \ {0}
    BY <1>1, LenProperties, EmptySeq
  <2>3. DOMAIN Tail(buffer[p]) = 1..(Len(buffer[p]) - 1)
    BY <2>1, LenProperties
  <2>. QED
    BY <1>1, <2>1, <2>2, <2>3
<1>3. DOMAIN inhand'[p] = {1} /\ inhand'[p][1] = buffer[p][1]
  BY <1>1
<1>4. /\ \A q \in Procs : Joined(q)' = Joined(q)
      /\ Taken' = Taken /\ Taken \in Int
  BY <1>1, QueueCounts DEF Joined, Taken, Total
<1>5. ASSUME NEW r, NEW c \in Cells, NEW q \in Procs, NEW n \in Nat, In(r, c, q, n)'
      PROVE  \/ c = "hand" /\ q = p /\ n = 1 /\ In(r, "buffer", p, 1)
             \/ c = "buffer" /\ q = p /\ n > 0 /\ In(r, "buffer", p, n + 1)
             \/ c \in {"hand", "buffer"} /\ q # p /\ In(r, c, q, n)
             \/ c \in {"yielded", "pipe", "proc"} /\ In(r, c, q, n)
  <2>1. CASE c = "hand" /\ q = p
    <3>1. Holds(inhand'[p], p, n, r)
      BY <1>5, <2>1 DEF In
    <3>2. n = 1 /\ Holds(buffer[p], p, 1, r)
      BY <1>2, <1>3, <3>1 DEF Holds
    <3>. QED
      BY <2>1, <3>2 DEF In
  <2>2. CASE c = "buffer" /\ q = p
    <3>1. Holds(buffer'[p], p, n, r)
      BY <1>5, <2>2 DEF In
    <3>2. n > 0 /\ Holds(buffer[p], p, n + 1, r)
      BY <1>2, <3>1 DEF Holds
    <3>. QED
      BY <2>2, <3>2 DEF In
  <2>3. CASE c \in {"hand", "buffer"} /\ q # p
    BY <1>1, <1>5, <2>3 DEF In
  <2>4. CASE c \in {"yielded", "pipe", "proc"}
    BY <1>1, <1>4, <1>5, <2>4 DEF In
  <2>. QED
    BY <2>1, <2>2, <2>3, <2>4 DEF Cells
<1>6. RowsTaken'
  <2>. SUFFICES ASSUME NEW r, NEW c \in Cells, NEW q \in Procs, NEW n \in Nat, In(r, c, q, n)'
                PROVE  r \in AllRows /\ r[1] <= Taken
    BY <1>4 DEF RowsTaken
  <2>1. PICK d \in Cells, m \in Nat : In(r, d, q, m)
    <3>1. 1 \in Nat /\ n + 1 \in Nat /\ "buffer" \in Cells
      BY DEF Cells
    <3>. QED
      BY <1>5, <3>1
  <2>. QED
    BY <2>1 DEF RowsInv, RowsTaken
<1>7. OnlyOnce'
  <2>1. \A q \in Procs : IsInjective(Joined(q)')
    BY <1>4 DEF RowsInv, OnlyOnce
  <2>2. ASSUME NEW r, NEW c \in Cells, NEW d \in Cells, NEW q \in Procs, NEW u \in Procs,
               NEW n \in Nat, NEW k \in Nat, In(r, c, q, n)', In(r, d, u, k)'
        PROVE  c = d /\ q = u /\ n = k
    <3>1. \A e \in Cells, f \in Cells, v \in Procs, w \in Procs, x \in Nat, y \in Nat :
            In(r, e, v, x) /\ In(r, f, w, y) => e = f /\ v = w /\ x = y
      BY DEF RowsInv, OnlyOnce
    <3>2. {"yielded", "pipe", "hand", "buffer", "proc"} \subseteq Cells
          /\ 1 \in Nat /\ n + 1 \in Nat /\ k + 1 \in Nat
      BY DEF Cells
    <3>3. \/ c = "hand" /\ q = p /\ n = 1 /\ In(r, "buffer", p, 1)
          \/ c = "buffer" /\ q = p /\ n > 0 /\ In(r, "buffer", p, n + 1)
          \/ c \in {"hand", "buffer"} /\ q # p /\ In(r, c, q, n)
          \/ c \in {"yielded", "pipe", "proc"} /\ In(r, c, q, n)
      BY <1>5, <2>2
    <3>4. \/ d = "hand" /\ u = p /\ k = 1 /\ In(r, "buffer", p, 1)
          \/ d = "buffer" /\ u = p /\ k > 0 /\ In(r, "buffer", p, k + 1)
          \/ d \in {"hand", "buffer"} /\ u # p /\ In(r, d, u, k)
          \/ d \in {"yielded", "pipe", "proc"} /\ In(r, d, u, k)
      BY <1>5, <2>2
    <3>. QED
      BY <3>1, <3>2, <3>3, <3>4
  <2>. QED
    BY <2>1, <2>2 DEF OnlyOnce
<1>8. NoneLost'
  <2>1. ASSUME NEW r, NEW c \in Cells, NEW q \in Procs, NEW n \in Nat, In(r, c, q, n)
        PROVE  \E d \in Cells, k \in Nat : In(r, d, q, k)'
    <3>1. CASE c = "buffer" /\ q = p /\ n = 1
      <4>1. Holds(inhand'[p], p, 1, r)
        BY <1>2, <1>3, <2>1, <3>1 DEF In, Holds
      <4>2. In(r, "hand", q, 1)'
        BY <3>1, <4>1 DEF In
      <4>. QED
        BY <4>2 DEF Cells
    <3>2. CASE c = "buffer" /\ q = p /\ n # 1
      <4>1. Holds(buffer[p], p, n, r)
        BY <2>1, <3>2 DEF In
      <4>0. n \in 1..Len(buffer[p]) /\ n # 1 /\ Len(buffer[p]) \in Nat
        BY <1>2, <3>2, <4>1 DEF Holds
      <4>2. PICK k \in Nat : k + 1 = n /\ k \in DOMAIN buffer'[p]
        <5>1. n - 1 \in Nat /\ (n - 1) + 1 = n /\ n - 1 \in 1..(Len(buffer[p]) - 1)
          BY <4>0
        <5>. QED
          BY <1>2, <5>1
      <4>3. Holds(buffer'[p], p, k, r)
        BY <1>2, <4>1, <4>2 DEF Holds
      <4>4. In(r, "buffer", q, k)'
        BY <3>2, <4>3 DEF In
      <4>. QED
        BY <4>4 DEF Cells
    <3>3. CASE c = "hand" /\ q = p
      BY <1>1, <2>1, <3>3 DEF In, Holds
    <3>4. CASE c \in {"hand", "buffer"} /\ q # p
      <4>1. In(r, c, q, n)'
        BY <1>1, <2>1, <3>4 DEF In
      <4>. QED
        BY <4>1
    <3>5. CASE c \in {"yielded", "pipe", "proc"}
      <4>1. In(r, c, q, n)'
        BY <1>1, <1>4, <2>1, <3>5 DEF In
      <4>. QED
        BY <4>1
    <3>. QED
      BY <3>1, <3>2, <3>3, <3>4, <3>5 DEF Cells
  <2>. QED
    BY <1>1, <1>4, <2>1 DEF RowsInv, NoneLost
<1>. QED
  BY <1>6, <1>7, <1>8 DEF RowsInv

(* A feeder thread sends the message it holds.                             *)
LEMMA FeedSent ==
  ASSUME TypeOK, EndMarkInv, RowsInv, NEW p \in Procs, FeedSend(p)
  PROVE  RowsInv'
<1>0. PICK L \in Nat : L = Len(pipe) + 1
  BY LenProperties DEF TypeOK
<1>1. /\ inhand[p] \in Seq(Msgs) /\ inhand[p] # <<>> /\ pipe \in Seq(Msgs)
      /\ inhand'[p] = <<>> /\ pipe' = Append(pipe, Head(inhand[p]))
      /\ \A q \in Procs : q # p => inhand'[q] = inhand[q]
      /\ UNCHANGED <<ppc, buffer, delivered, fileQ, part, todo>>
  BY DEF FeedSend, TypeOK, parentVars, procVars, genVars
<1>2. /\ DOMAIN inhand[p] = {1} /\ Head(inhand[p]) = inhand[p][1]
      /\ inhand[p][1] \in Msgs /\ inhand[p][1].from = p
  <2>1. Len(inhand[p]) = 1 /\ inhand[p][1].from = p
    BY <1>1 DEF EndMarkInv, MarksInHand
  <2>2. DOMAIN inhand[p] = 1..1 /\ 1..1 = {1}
    BY <1>1, <2>1, LenProperties
  <2>3. Head(inhand[p]) = inhand[p][1] /\ Head(inhand[p]) \in Msgs
    BY <1>1, HeadTailProperties
  <2>. QED
    BY <2>1, <2>2, <2>3
<1>3. /\ \A i \in DOMAIN pipe : i \in DOMAIN pipe' /\ pipe'[i] = pipe[i] /\ i # L
      /\ \A i \in DOMAIN pipe' : i \in DOMAIN pipe \/ i = L
      /\ L \in DOMAIN pipe' /\ pipe'[L] = inhand[p][1]
  <2>1. LET t == Append(pipe, inhand[p][1])
        IN  /\ t \in Seq(Msgs) /\ Len(t) = Len(pipe) + 1
            /\ t[Len(pipe) + 1] = inhand[p][1]
            /\ \A i \in 1..Len(pipe) : t[i] = pipe[i]
    BY <1>1, <1>2, AppendProperties
  <2>2. /\ DOMAIN pipe' = 1..L /\ DOMAIN pipe = 1..Len(pipe) /\ Len(pipe) \in Nat
        /\ pipe'[L] = inhand[p][1]
        /\ \A i \in 1..Len(pipe) : pipe'[i] = pipe[i]
    BY <1>0, <1>1, <1>2, <2>1, LenProperties
  <2>3. /\ \A i \in 1..L : i = L \/ i \in 1..Len(pipe)
        /\ L \in 1..L /\ \A i \in 1..Len(pipe) : i \in 1..L /\ i # L
    BY <1>0, <2>2
  <2>. QED
    BY <2>2, <2>3
<1>4. /\ \A q \in Procs : Joined(q)' = Joined(q)
      /\ Taken' = Taken /\ Taken \in Int
  BY <1>1, QueueCounts DEF Joined, Taken, Total
<1>5. ASSUME NEW r, NEW c \in Cells, NEW q \in Procs, NEW n \in Nat, In(r, c, q, n)'
      PROVE  \/ c = "pipe" /\ q = p /\ n = L /\ In(r, "hand", p, 1)
             \/ c = "pipe" /\ n # L /\ In(r, c, q, n)
             \/ c = "hand" /\ q # p /\ In(r, c, q, n)
             \/ c \in {"yielded", "buffer", "proc"} /\ In(r, c, q, n)
  <2>1. CASE c = "pipe" /\ n = L
    <3>1. Holds(pipe', q, L, r)
      BY <1>5, <2>1 DEF In
    <3>2. q = p /\ Holds(inhand[p], p, 1, r)
      BY <1>2, <1>3, <3>1 DEF Holds
    <3>. QED
      BY <2>1, <3>2 DEF In
  <2>2. CASE c = "pipe" /\ n # L
    <3>1. Holds(pipe', q, n, r)
      BY <1>5, <2>2 DEF In
    <3>2. Holds(pipe, q, n, r)
      BY <1>3, <2>2, <3>1 DEF Holds
    <3>. QED
      BY <2>2, <3>2 DEF In
  <2>3. CASE c = "hand"
    <3>1. Holds(inhand'[q], q, n, r)
      BY <1>5, <2>3 DEF In
    <3>2. q # p
      BY <1>1, <3>1 DEF Holds
    <3>. QED
      BY <1>1, <1>5, <2>3, <3>2 DEF In
  <2>4. CASE c \in {"yielded", "buffer", "proc"}
    BY <1>1, <1>4, <1>5, <2>4 DEF In
  <2>. QED
    BY <2>1, <2>2, <2>3, <2>4 DEF Cells
<1>6. RowsTaken'
  <2>. SUFFICES ASSUME NEW r, NEW c \in Cells, NEW q \in Procs, NEW n \in Nat, In(r, c, q, n)'
                PROVE  r \in AllRows /\ r[1] <= Taken
    BY <1>4 DEF RowsTaken
  <2>1. PICK d \in Cells, m \in Nat : In(r, d, q, m)
    <3>1. 1 \in Nat /\ "hand" \in Cells
      BY DEF Cells
    <3>. QED
      BY <1>5, <3>1
  <2>. QED
    BY <2>1 DEF RowsInv, RowsTaken
<1>7. OnlyOnce'
  <2>1. \A q \in Procs : IsInjective(Joined(q)')
    BY <1>4 DEF RowsInv, OnlyOnce
  <2>2. ASSUME NEW r, NEW c \in Cells, NEW d \in Cells, NEW q \in Procs, NEW u \in Procs,
               NEW n \in Nat, NEW k \in Nat, In(r, c, q, n)', In(r, d, u, k)'
        PROVE  c = d /\ q = u /\ n = k
    <3>1. \A e \in Cells, f \in Cells, v \in Procs, w \in Procs, x \in Nat, y \in Nat :
            In(r, e, v, x) /\ In(r, f, w, y) => e = f /\ v = w /\ x = y
      BY DEF RowsInv, OnlyOnce
    <3>2. {"yielded", "pipe", "hand", "buffer", "proc"} \subseteq Cells /\ 1 \in Nat
      BY DEF Cells
    <3>3. \/ c = "pipe" /\ q = p /\ n = L /\ In(r, "hand", p, 1)
          \/ c = "pipe" /\ n # L /\ In(r, c, q, n)
          \/ c = "hand" /\ q # p /\ In(r, c, q, n)
          \/ c \in {"yielded", "buffer", "proc"} /\ In(r, c, q, n)
      BY <1>5, <2>2
    <3>4. \/ d = "pipe" /\ u = p /\ k = L /\ In(r, "hand", p, 1)
          \/ d = "pipe" /\ k # L /\ In(r, d, u, k)
          \/ d = "hand" /\ u # p /\ In(r, d, u, k)
          \/ d \in {"yielded", "buffer", "proc"} /\ In(r, d, u, k)
      BY <1>5, <2>2
    <3>. QED
      BY <3>1, <3>2, <3>3, <3>4
  <2>. QED
    BY <2>1, <2>2 DEF OnlyOnce
<1>8. NoneLost'
  <2>1. ASSUME NEW r, NEW c \in Cells, NEW q \in Procs, NEW n \in Nat, In(r, c, q, n)
        PROVE  \E d \in Cells, k \in Nat : In(r, d, q, k)'
    <3>1. CASE c = "hand" /\ q = p
      <4>1. Holds(pipe', p, L, r)
        BY <1>2, <1>3, <2>1, <3>1 DEF In, Holds
      <4>2. In(r, "pipe", q, L)'
        BY <3>1, <4>1 DEF In
      <4>. QED
        BY <4>2 DEF Cells
    <3>2. CASE c = "pipe"
      <4>1. Holds(pipe', q, n, r)
        BY <1>3, <2>1, <3>2 DEF In, Holds
      <4>2. In(r, "pipe", q, n)'
        BY <4>1 DEF In
      <4>. QED
        BY <4>2 DEF Cells
    <3>3. CASE c = "hand" /\ q # p
      <4>1. In(r, c, q, n)'
        BY <1>1, <2>1, <3>3 DEF In
      <4>. QED
        BY <4>1
    <3>4. CASE c \in {"yielded", "buffer", "proc"}
      <4>1. In(r, c, q, n)'
        BY <1>1, <1>4, <2>1, <3>4 DEF In
      <4>. QED
        BY <4>1
    <3>. QED
      BY <3>1, <3>2, <3>3, <3>4 DEF Cells
  <2>. QED
    BY <1>1, <1>4, <2>1 DEF RowsInv, NoneLost
<1>. QED
  BY <1>6, <1>7, <1>8 DEF RowsInv

(* A proc takes the next file: its rows were nowhere yet.                  *)
LEMMA FileGot ==
  ASSUME TypeOK, FilesLeft, ProcRows, RowsInv, NEW p \in Procs, GetFile(p),
         Head(fileQ) # NoFile
  PROVE  RowsInv'
<1>. DEFINE k == Head(fileQ)
<1>1. /\ k = Taken + 1 /\ k \in 1..NumHanded /\ Taken' = Taken + 1 /\ Taken \in Int
  <2>1. /\ FilesLeft' /\ k = Entry(Taken + 1) /\ fileQ' = Tail(fileQ)
        /\ Len(fileQ') = Len(fileQ) - 1 /\ Len(fileQ) \in Nat \ {0}
    BY TakeFile DEF GetFile
  <2>2. Taken' = Taken + 1 /\ Taken \in Nat
    BY <2>1, QueueCounts DEF Taken, Total, FilesLeft
  <2>. QED
    BY <2>1, <2>2, QueueCounts DEF Entry, NoFile
<1>2. /\ UNCHANGED <<ppc, delivered, pipe, inhand, buffer>>
      /\ \A q \in Procs : q # p => Joined(q)' = Joined(q)
      /\ todo'[p] = Rows(k) /\ part'[p] = part[p] /\ todo[p] = <<>>
  BY DEF GetFile, TypeOK, Joined, ProcRows, parentVars, queVars, genVars
<1>. HIDE DEF k
<1>4. /\ Joined(p) = part[p] /\ Joined(p)' = part[p] \o Rows(k)
      /\ part[p] \in Seq(Nat \X Nat) /\ Rows(k) \in Seq(Nat \X Nat)
  <2>1. part[p] \in Seq(Nat \X Nat) /\ Rows(k) \in Seq(Nat \X Nat)
    BY <1>1, RowsType DEF TypeOK
  <2>2. part[p] \o <<>> = part[p]
    BY <2>1, ConcatEmptySeq
  <2>. QED
    BY <1>2, <2>1, <2>2 DEF Joined
<1>5. \A r \in ToSet(Rows(k)) : /\ r[1] = k /\ r \in AllRows
                                /\ \A c \in Cells, q \in Procs, n \in Nat : ~In(r, c, q, n)
  <2>1. \A r \in ToSet(Rows(k)) : r[1] = k /\ r \in AllRows
    BY <1>1, FileRows
  <2>. QED
    BY <1>1, <2>1 DEF RowsInv, RowsTaken
<1>6. /\ ToSet(Joined(p)') = ToSet(Joined(p)) \cup ToSet(Rows(k))
      /\ IsInjective(Joined(p)')
  <2>1. IsInjective(part[p]) /\ IsInjective(Rows(k))
    BY <1>1, <1>4, FileRows DEF RowsInv, OnlyOnce
  <2>2. ToSet(part[p]) \cap ToSet(Rows(k)) = {}
    <3>1. \A r \in ToSet(part[p]) : In(r, "proc", p, 0)
      BY <1>4 DEF In
    <3>. QED
      BY <1>5, <3>1 DEF Cells
  <2>. QED
    BY <1>4, <2>1, <2>2, JoinRows
<1>7. ASSUME NEW r, NEW c \in Cells, NEW q \in Procs, NEW n \in Nat
      PROVE  In(r, c, q, n)' <=> \/ In(r, c, q, n)
                                 \/ c = "proc" /\ q = p /\ n = 0 /\ r \in ToSet(Rows(k))
  <2>1. CASE c = "proc" /\ q = p
    BY <1>6, <2>1 DEF In
  <2>2. CASE ~(c = "proc" /\ q = p)
    BY <1>2, <2>2 DEF In
  <2>. QED
    BY <2>1, <2>2
<1>8. RowsTaken'
  <2>. SUFFICES ASSUME NEW r, NEW c \in Cells, NEW q \in Procs, NEW n \in Nat, In(r, c, q, n)'
                PROVE  r \in AllRows /\ r[1] <= Taken'
    BY DEF RowsTaken
  <2>1. CASE In(r, c, q, n)
    <3>1. r \in AllRows /\ r[1] <= Taken /\ r[1] \in Int
      BY <2>1, FileRows DEF RowsInv, RowsTaken
    <3>. QED
      BY <1>1, <3>1
  <2>2. CASE r \in ToSet(Rows(k))
    BY <1>1, <1>5, <2>2
  <2>. QED
    BY <1>7, <2>1, <2>2
<1>9. OnlyOnce'
  <2>1. \A q \in Procs : IsInjective(Joined(q)')
    BY <1>2, <1>6 DEF RowsInv, OnlyOnce
  <2>2. ASSUME NEW r, NEW c \in Cells, NEW d \in Cells, NEW q \in Procs, NEW u \in Procs,
               NEW n \in Nat, NEW m \in Nat, In(r, c, q, n)', In(r, d, u, m)'
        PROVE  c = d /\ q = u /\ n = m
    BY <1>5, <1>7, <2>2 DEF RowsInv, OnlyOnce
  <2>. QED
    BY <2>1, <2>2 DEF OnlyOnce
<1>10. NoneLost'
  <2>. SUFFICES ASSUME ppc = "built", NEW r \in AllRows, ~(r[1] > Taken')
                PROVE  \E c \in Cells, q \in Procs, n \in Nat : In(r, c, q, n)'
    BY <1>2 DEF NoneLost
  <2>1. r[1] \in 1..NumHanded /\ r \in ToSet(Rows(r[1]))
    BY FileRows
  <2>2. CASE r[1] > Taken
    <3>1. r[1] = k
      BY <1>1, <2>1, <2>2
    <3>2. In(r, "proc", p, 0)'
      BY <1>6, <2>1, <3>1 DEF In
    <3>. QED
      BY <3>2 DEF Cells
  <2>3. CASE ~(r[1] > Taken)
    BY <1>7, <2>3 DEF RowsInv, NoneLost
  <2>. QED
    BY <2>2, <2>3
<1>. QED
  BY <1>8, <1>9, <1>10 DEF RowsInv

(* Every put takes the first rows of a proc, and keeps the rest.           *)
LEMMA PutKeepsRows ==
  ASSUME TypeOK, TypeOK', AllSized, RowsInv, NEW p \in Procs,
         PutBatch(p) \/ PutPadded(p) \/ PutShort(p) \/ PutEndMark(p),
         ProcRows
  PROVE  RowsInv'
<1>. USE DEF parentVars, tokenVars, procVars, queVars, genVars
<1>1. /\ UNCHANGED <<ppc, delivered, pipe, inhand, fileQ>>
      /\ \A q \in Procs : q # p => todo'[q] = todo[q] /\ part'[q] = part[q]
  BY DEF PutBatch, PutPadded, PutShort, PutEndMark, Enqueue, TypeOK
<1>2. /\ Taken' = Taken /\ Taken \in Int
      /\ \A q \in Procs : q # p => Joined(q)' = Joined(q)
  BY <1>1, QueueCounts DEF Taken, Total, Joined
<1>3. /\ todo[p] \in Seq(Nat \X Nat) /\ part[p] \in Seq(Nat \X Nat)
      /\ Joined(p) \in Seq(Nat \X Nat) /\ IsInjective(Joined(p))
      /\ Joined(p)' = part'[p] \o todo'[p]
      /\ \A s \in Seq(Nat \X Nat) : s \o <<>> = s
  BY JoinRows, ConcatEmptySeq DEF TypeOK, RowsInv, OnlyOnce, Joined
<1>4. ASSUME NEW m \in Msgs, m.from = p, buffer' = [buffer EXCEPT ![p] = Append(@, m)],
             IsInjective(Joined(p)'), ToSet(m.rows) \cap ToSet(Joined(p)') = {},
             ToSet(m.rows) \cup ToSet(Joined(p)') = ToSet(Joined(p))
      PROVE  RowsInv'
  BY <1>1, <1>2, <1>4, PutMoves
<1>5. <<>> \in Seq(Nat \X Nat) /\ ToSet(<<>>) = {} /\ IsInjective(<<>>)
  BY DEF ToSet, IsInjective
<1>6. \A s \in Seq(Nat \X Nat) : /\ Batch(p, s) \in Msgs /\ Batch(p, s).from = p
                                 /\ Batch(p, s).rows = s
  BY MsgType DEF Batch
<1>7. CASE PutBatch(p)
  <2>. DEFINE f == FirstOf(todo[p])
              t == RestOf(todo[p])
  <2>1. /\ buffer' = [buffer EXCEPT ![p] = Append(@, Batch(p, f))]
        /\ todo'[p] = t /\ part'[p] = part[p] /\ Len(todo[p]) >= BatchSize
    BY <1>7 DEF PutBatch, Enqueue, TypeOK
  <2>2. f \in Seq(Nat \X Nat) /\ t \in Seq(Nat \X Nat)
    BY <1>3, <2>1, CutType
  <2>3. /\ ToSet(f) \cup ToSet(t) = ToSet(todo[p])
        /\ IsInjective(todo[p]) => IsInjective(t) /\ ToSet(f) \cap ToSet(t) = {}
    BY <1>3, <2>1, CutRows
  <2>. HIDE DEF f, t
  <2>4. /\ IsInjective(part[p]) /\ IsInjective(todo[p])
        /\ ToSet(part[p]) \cap ToSet(todo[p]) = {}
        /\ ToSet(Joined(p)) = ToSet(part[p]) \cup ToSet(todo[p])
    BY <1>3, JoinRows DEF Joined
  <2>5. /\ Joined(p)' = part[p] \o t
        /\ ToSet(part[p] \o t) = ToSet(part[p]) \cup ToSet(t)
        /\ IsInjective(part[p] \o t) <=> /\ IsInjective(part[p]) /\ IsInjective(t)
                                         /\ ToSet(part[p]) \cap ToSet(t) = {}
    BY <1>3, <2>1, <2>2, JoinRows
  <2>6. /\ IsInjective(Joined(p)') /\ ToSet(f) \cap ToSet(Joined(p)') = {}
        /\ ToSet(f) \cup ToSet(Joined(p)') = ToSet(Joined(p))
    BY <2>3, <2>4, <2>5
  <2>7. Batch(p, f) \in Msgs /\ Batch(p, f).from = p /\ Batch(p, f).rows = f
    BY <1>6, <2>2
  <2>. QED
    BY <1>4, <2>1, <2>6, <2>7
<1>8. CASE PutPadded(p)
  <2>. DEFINE f == FirstOf(Joined(p))
              t == RestOf(Joined(p))
  <2>1. /\ buffer' = [buffer EXCEPT ![p] = Append(@, Batch(p, f))]
        /\ todo'[p] = <<>> /\ part'[p] = t /\ Len(Joined(p)) >= BatchSize
    BY <1>8 DEF PutPadded, Enqueue, TypeOK
  <2>2. f \in Seq(Nat \X Nat) /\ t \in Seq(Nat \X Nat)
    BY <1>3, <2>1, CutType
  <2>3. /\ ToSet(f) \cup ToSet(t) = ToSet(Joined(p))
        /\ IsInjective(t) /\ ToSet(f) \cap ToSet(t) = {}
    BY <1>3, <2>1, CutRows
  <2>. HIDE DEF f, t
  <2>4. Joined(p)' = t
    BY <1>3, <2>1, <2>2
  <2>5. Batch(p, f) \in Msgs /\ Batch(p, f).from = p /\ Batch(p, f).rows = f
    BY <1>6, <2>2
  <2>. QED
    BY <1>4, <2>1, <2>3, <2>4, <2>5
<1>9. CASE PutShort(p)
  <2>1. /\ buffer' = [buffer EXCEPT ![p] = Append(@, Batch(p, part[p]))]
        /\ todo'[p] = todo[p] /\ part'[p] = <<>> /\ pc[p] = "rem"
    BY <1>9 DEF PutShort, HasShort, Enqueue, TypeOK
  <2>2. todo[p] = <<>>
    BY <2>1 DEF ProcRows
  <2>3. Joined(p) = part[p] /\ Joined(p)' = <<>>
    BY <1>3, <1>5, <2>1, <2>2 DEF Joined
  <2>4. Batch(p, part[p]) \in Msgs /\ Batch(p, part[p]).from = p
        /\ Batch(p, part[p]).rows = part[p]
    BY <1>3, <1>6
  <2>. QED
    BY <1>4, <1>5, <2>1, <2>3, <2>4
<1>10. CASE PutEndMark(p)
  <2>1. /\ buffer' = [buffer EXCEPT ![p] = Append(@, EndMark(p))]
        /\ todo'[p] = todo[p] /\ part'[p] = part[p]
    BY <1>10 DEF PutEndMark, Enqueue, TypeOK
  <2>2. Joined(p)' = Joined(p)
    BY <1>3, <2>1 DEF Joined
  <2>3. EndMark(p) \in Msgs /\ EndMark(p).from = p /\ EndMark(p).rows = <<>>
    BY <1>5, MsgType DEF EndMark
  <2>. QED
    BY <1>3, <1>4, <1>5, <2>1, <2>2, <2>3
<1>. QED
  BY <1>7, <1>8, <1>9, <1>10

(* Taking the end of file_que, or a file nobody reads any more.            *)
LEMMA FileLeft ==
  ASSUME TypeOK, FilesLeft, RowsInv, fileQ # <<>>, fileQ' = Tail(fileQ),
         UNCHANGED <<ppc, delivered, pipe, inhand, buffer, todo, part>>,
         Head(fileQ) = NoFile \/ ppc # "built"
  PROVE  RowsInv'
<1>1. Taken' = Taken + 1 /\ Taken \in Nat /\ Head(fileQ) = Entry(Taken + 1)
  BY TakeFile, QueueCounts DEF Taken, Total, FilesLeft
<1>2. \A r : \A c \in Cells, p \in Procs, n \in Nat : In(r, c, p, n)' <=> In(r, c, p, n)
  BY DEF In, Holds, Joined
<1>3. \A p \in Procs : IsInjective(Joined(p)')
  BY DEF RowsInv, OnlyOnce, Joined
<1>4. RowsTaken' /\ OnlyOnce'
  BY <1>1, <1>2, <1>3, NoNewPlace DEF RowsInv
<1>5. NoneLost'
  <2>. SUFFICES ASSUME ppc = "built", NEW r \in AllRows
                PROVE  \E c \in Cells, p \in Procs, n \in Nat : In(r, c, p, n)
    BY <1>2 DEF NoneLost
  <2>1. Taken >= NumHanded
    BY <1>1, QueueCounts DEF Entry, NoFile
  <2>2. r[1] \in 1..NumHanded
    BY FileRows
  <2>3. ~(r[1] > Taken)
    BY <1>1, <2>1, <2>2, QueueCounts
  <2>. QED
    BY <2>3 DEF RowsInv, NoneLost
<1>. QED
  BY <1>4, <1>5 DEF RowsInv

(* Every step keeps the account of the rows.                               *)
LEMMA RowsStep ==
  ASSUME TypeOK, TypeOK', EndMarkInv, EndsInv, AllSized, RowsInv, [Next]_vars
  PROVE  RowsInv'
<1>. USE DEF parentVars, tokenVars, procVars, queVars, genVars
<1>0. /\ Taken \in Int /\ ControlInv /\ FilesLeft /\ EndsCounted /\ ProcRows /\ MarksClean
  BY QueueCounts DEF EndsInv
<1>1. CASE Build
  <2>1. /\ \A p \in Procs : /\ todo'[p] = <<>> /\ part'[p] = <<>>
                            /\ buffer'[p] = <<>> /\ inhand'[p] = <<>>
        /\ delivered' = <<>> /\ pipe' = <<>> /\ Len(fileQ') = Total
    BY <1>0, <1>1, BuildFiles DEF Build
  <2>2. Taken' = 0
    BY <2>1, QueueCounts DEF Taken, Total
  <2>3. \A p \in Procs : Joined(p)' = <<>>
    BY <2>1 DEF Joined
  <2>4. \A r : \A c \in Cells, p \in Procs, n \in Nat : ~In(r, c, p, n)'
    BY <2>1, <2>3 DEF In, Holds, ToSet
  <2>5. \A p \in Procs : IsInjective(Joined(p)')
    BY <2>3 DEF IsInjective
  <2>6. \A r \in AllRows : r[1] > Taken'
    BY <2>2, FileRows, CountsType
  <2>. QED
    BY <2>4, <2>5, <2>6 DEF RowsInv, RowsTaken, OnlyOnce, NoneLost
<1>2. ASSUME UNCHANGED <<delivered, pipe, inhand, buffer, todo, part, fileQ>>,
             ppc' = "built" => ppc = "built"
      PROVE  RowsInv'
  BY <1>0, <1>2, SamePlaces DEF Joined, Taken, Total
<1>3. CASE GenGet
  BY <1>3, PipeTaken DEF GenGet, TakeFromPipe
<1>4. CASE StopDrain
  BY <1>2, <1>4, PipeTaken DEF StopDrain, TakeFromPipe
<1>5. CASE StopFinish
  <2>1. /\ pipe' = <<>> /\ UNCHANGED <<delivered, inhand, buffer, todo, part>>
        /\ fileQ' = <<>> /\ ppc' = "idle"
    BY <1>5 DEF StopFinish, QueuesBuilt
  <2>2. Taken' = Total /\ Total \in Nat /\ Len(fileQ) \in Nat
    BY <2>1, QueueCounts DEF Taken, Total
  <2>3. Taken' \in Int /\ Taken' >= Taken
    BY <2>2 DEF Taken
  <2>4. \A r : \A c \in Cells, p \in Procs, n \in Nat : In(r, c, p, n)' => In(r, c, p, n)
    BY <2>1 DEF In, Holds, Joined
  <2>5. \A p \in Procs : IsInjective(Joined(p)')
    BY <2>1 DEF RowsInv, OnlyOnce, Joined
  <2>6. RowsTaken' /\ OnlyOnce'
    BY <1>0, <2>3, <2>4, <2>5, NoNewPlace DEF RowsInv
  <2>7. NoneLost'
    BY <2>1 DEF NoneLost
  <2>. QED
    BY <2>6, <2>7 DEF RowsInv
<1>6. ASSUME NEW p \in Procs, FeedTake(p) PROVE RowsInv'
  BY <1>6, FeedTaken
<1>7. ASSUME NEW p \in Procs, FeedSend(p) PROVE RowsInv'
  BY <1>7, FeedSent
<1>8. ASSUME NEW p \in Procs, LoadDataProc(p) PROVE RowsInv'
  <2>1. CASE GetFile(p)
    <3>1. CASE Head(fileQ) = NoFile
      BY <1>0, <2>1, <3>1, FileLeft DEF GetFile
    <3>2. CASE Head(fileQ) # NoFile
      BY <1>0, <2>1, <3>2, FileGot
    <3>. QED
      BY <3>1, <3>2
  <2>2. CASE DrainFiles(p)
    <3>1. ppc # "built"
      BY <1>0, <2>2 DEF DrainFiles, ControlInv, Aborting
    <3>. QED
      BY <1>0, <2>2, <3>1, FileLeft DEF DrainFiles
  <2>3. CASE PutBatch(p) \/ PutPadded(p) \/ PutShort(p) \/ PutEndMark(p)
    BY <1>0, <2>3, PutKeepsRows
  <2>4. CASE Carry(p)
    <3>1. /\ UNCHANGED <<ppc, delivered, pipe, inhand, buffer, fileQ>>
          /\ todo'[p] = <<>> /\ part'[p] = Joined(p)
          /\ \A q \in Procs : q # p => todo'[q] = todo[q] /\ part'[q] = part[q]
      BY <2>4 DEF Carry, TypeOK
    <3>2. Joined(p)' = Joined(p)
      <4>1. Joined(p) \in Seq(Nat \X Nat)
        BY JoinRows DEF TypeOK, Joined
      <4>2. Joined(p) \o <<>> = Joined(p)
        BY <4>1, ConcatEmptySeq
      <4>3. Joined(p)' = part'[p] \o todo'[p]
        BY DEF Joined
      <4>. QED
        BY <3>1, <4>2, <4>3
    <3>3. \A q \in Procs : Joined(q)' = Joined(q)
      BY <3>1, <3>2 DEF Joined
    <3>. QED
      BY <1>0, <3>1, <3>3, SamePlaces DEF Taken, Total
  <2>5. \/ GetFile(p) \/ DrainFiles(p) \/ Carry(p)
        \/ PutBatch(p) \/ PutPadded(p) \/ PutShort(p) \/ PutEndMark(p)
        \/ UNCHANGED <<delivered, pipe, inhand, buffer, todo, part, fileQ, ppc>>
    BY <1>8 DEF LoadDataProc, WaitStart, SeeStop, SeeNoStop, Crash, SkipShort, PutTimeout,
       PutAgain, GiveUp, Exit
  <2>. QED
    BY <1>2, <2>1, <2>2, <2>3, <2>4, <2>5
<1>9. \/ Build \/ GenGet \/ StopDrain \/ StopFinish
      \/ \E p \in Procs : LoadDataProc(p) \/ FeedTake(p) \/ FeedSend(p)
      \/ /\ UNCHANGED <<delivered, pipe, inhand, buffer, todo, part, fileQ>>
         /\ ppc' = "built" => ppc = "built"
  BY DEF Next, BuildFails, GenStart, GenEmpty, StopUnstarted, StopBegin, StopTokenSent,
     Feeder, Rest, vars
<1>. QED
  BY <1>1, <1>2, <1>3, <1>4, <1>5, <1>6, <1>7, <1>8, <1>9

(* Every row is accounted for.                                             *)
THEOREM RowsAccounted == Spec => [](AllSized /\ RowsInv)
<1>1. Init => AllSized /\ RowsInv
  <2>. SUFFICES ASSUME Init PROVE AllSized /\ RowsInv
    OBVIOUS
  <2>1. /\ \A p \in Procs : /\ todo[p] = <<>> /\ part[p] = <<>>
                            /\ buffer[p] = <<>> /\ inhand[p] = <<>>
        /\ delivered = <<>> /\ pipe = <<>> /\ ppc = "idle"
    BY DEF Init
  <2>2. \A p \in Procs : Joined(p) = <<>>
    BY <2>1 DEF Joined
  <2>3. \A r : \A c \in Cells, p \in Procs, n \in Nat : ~In(r, c, p, n)
    BY <2>1, <2>2 DEF In, Holds, ToSet
  <2>4. \A p \in Procs : IsInjective(Joined(p))
    BY <2>2 DEF IsInjective
  <2>. QED
    BY <2>1, <2>3, <2>4 DEF RowsInv, RowsTaken, OnlyOnce, NoneLost, AllSized
<1>2. /\ TypeOK /\ TypeOK' /\ EndMarkInv /\ EndsInv /\ AllSized /\ RowsInv /\ [Next]_vars
      => AllSized' /\ RowsInv'
  BY SizedStep, RowsStep DEF EndsInv
<1>. QED
  BY <1>1, <1>2, Typing, EndMarks, EndsReached, PTL DEF Spec

(* The rows yielded are those in the place of that name.                   *)
LEMMA YieldedPlaces ==
  ASSUME TypeOK
  PROVE  \A r : r \in Yielded <=> \E p \in Procs, n \in Nat : In(r, "yielded", p, n)
<1>1. /\ DOMAIN delivered = 1..Len(delivered) /\ delivered \in Seq(Msgs)
      /\ \A i \in DOMAIN delivered : delivered[i].from \in Procs /\ i \in Nat
  BY LenProperties, MsgsHaveSender DEF TypeOK
<1>2. ASSUME NEW r \in Yielded PROVE \E p \in Procs, n \in Nat : In(r, "yielded", p, n)
  <2>1. PICK i \in DOMAIN delivered : r \in ToSet(delivered[i].rows)
    BY <1>2 DEF Yielded, ToSet
  <2>2. In(r, "yielded", delivered[i].from, i)
    BY <2>1 DEF In, Holds
  <2>. QED
    BY <1>1, <2>2
<1>3. ASSUME NEW r, NEW p \in Procs, NEW n \in Nat, In(r, "yielded", p, n)
      PROVE  r \in Yielded
  <2>1. n \in DOMAIN delivered /\ r \in ToSet(delivered[n].rows)
    BY <1>3 DEF In, Holds
  <2>2. delivered[n] \in ToSet(delivered)
    BY <2>1 DEF ToSet
  <2>. QED
    BY <2>1, <2>2 DEF Yielded
<1>. QED
  BY <1>2, <1>3

(* The rows drop_remainder drops are less than a batch of each proc.       *)
LEMMA FewCarried ==
  ASSUME TypeOK, ProcRows
  PROVE  LET carried == UNION {ToSet(part[p]) : p \in Procs}
         IN  /\ IsFiniteSet(carried)
             /\ Cardinality(carried) <= NumProc * (BatchSize - 1)
<1>. DEFINE carried == UNION {ToSet(part[p]) : p \in Procs}
            I == 1..(BatchSize - 1)
            D == {d \in Procs \X I : d[2] \in DOMAIN part[d[1]]}
            f == [d \in D |-> part[d[1]][d[2]]]
<1>1. /\ IsFiniteSet(Procs) /\ IsFiniteSet(I) /\ Cardinality(I) = BatchSize - 1
      /\ BatchSize \in Nat \ {0} /\ NumProc \in Nat
  <2>1. BatchSize \in Nat \ {0} /\ NumProc \in Nat /\ IsFiniteSet(Procs)
    BY CountsType, ConstAssumption DEF ConstAssumption
  <2>2. 1 \in Int /\ BatchSize - 1 \in Int /\ ~(1 > BatchSize - 1 /\ BatchSize # 1)
    BY <2>1
  <2>3. /\ IsFiniteSet(I)
        /\ Cardinality(I) = IF 1 > BatchSize - 1 THEN 0 ELSE (BatchSize - 1) - 1 + 1
    BY <2>2, FS_Interval
  <2>. QED
    BY <2>1, <2>2, <2>3
<1>2. /\ IsFiniteSet(Procs \X I)
      /\ Cardinality(Procs \X I) = NumProc * (BatchSize - 1)
  BY <1>1, FS_Product DEF NumProc
<1>3. /\ IsFiniteSet(D) /\ Cardinality(D) \in Nat
      /\ Cardinality(D) <= NumProc * (BatchSize - 1)
  BY <1>2, FS_Subset, FS_CardinalityType
<1>4. f \in Surjection(D, carried)
  <2>1. f \in [D -> carried]
    <3>1. \A d \in D : part[d[1]][d[2]] \in carried
      BY DEF ToSet
    <3>. QED
      BY <3>1
  <2>2. ASSUME NEW r \in carried PROVE  \E d \in D : f[d] = r
    <3>0. PICK p \in Procs : r \in ToSet(part[p])
      BY <2>2
    <3>1. PICK i \in DOMAIN part[p] : r = part[p][i]
      BY <3>0 DEF ToSet
    <3>2. DOMAIN part[p] = 1..Len(part[p]) /\ Len(part[p]) \in Nat /\ Len(part[p]) < BatchSize
      BY LenProperties DEF TypeOK, ProcRows
    <3>3. i \in I
      BY <1>1, <3>2
    <3>4. <<p, i>> \in D
      BY <3>3
    <3>. QED
      BY <3>1, <3>4
  <2>. QED
    BY <2>1, <2>2 DEF Surjection
<1>5. IsFiniteSet(carried) /\ Cardinality(carried) <= Cardinality(D)
  BY <1>3, <1>4, FS_Surjection
<1>6. Cardinality(carried) \in Nat
  BY <1>5, FS_CardinalityType
<1>. HIDE DEF carried, D
<1>7. Cardinality(carried) <= NumProc * (BatchSize - 1)
  <2>1. ASSUME NEW a \in Nat, NEW b \in Nat, NEW c \in Nat, NEW d \in Nat, a <= b, b <= c * d
        PROVE  a <= c * d
    BY <2>1
  <2>. QED
    BY <1>1, <1>3, <1>5, <1>6, <2>1
<1>. QED
  BY <1>5, <1>7 DEF carried

(* Once the procs are counted and the pipe is empty, every row of the      *)
(* task's files is yielded or dropped.                                     *)
LEMMA AllYielded ==
  ASSUME TypeOK, EndMarkInv, EndsInv, RowsInv, ppc = "built", AllDone, pipe = <<>>
  PROVE  LET carried == UNION {ToSet(part[p]) : p \in Procs}
         IN  /\ Yielded \cup carried = AllRows
             /\ ~Drop => carried = {}
<1>. DEFINE carried == UNION {ToSet(part[p]) : p \in Procs}
<1>1. /\ fileQ = <<>>
      /\ \A p \in Procs : NoneHeld(p) /\ buffer[p] = <<>> /\ inhand[p] = <<>>
  BY AllAtEnd DEF EndsInv, Passed
<1>2. \A p \in Procs : Joined(p) = part[p]
  BY <1>1, ConcatEmptySeq DEF Joined, NoneHeld, TypeOK
<1>3. Taken >= NumHanded /\ Taken \in Int /\ NumHanded \in Nat
  BY <1>1, QueueCounts DEF Taken, Total
<1>4. ASSUME NEW r \in AllRows PROVE r \in Yielded \cup carried
  <2>1. r[1] \in 1..NumHanded
    BY FileRows
  <2>2. ~(r[1] > Taken)
    BY <1>3, <2>1
  <2>3. PICK c \in Cells, p \in Procs, n \in Nat : In(r, c, p, n)
    BY <2>2 DEF RowsInv, NoneLost
  <2>4. c = "yielded" \/ c = "proc"
    BY <1>1, <2>3 DEF In, Holds
  <2>5. CASE c = "yielded"
    BY <2>3, <2>5, YieldedPlaces
  <2>6. CASE c = "proc"
    <3>1. r \in ToSet(part[p])
      BY <1>2, <2>3, <2>6 DEF In
    <3>. QED
      BY <3>1
  <2>. QED
    BY <2>4, <2>5, <2>6
<1>5. ASSUME NEW r \in Yielded \cup carried PROVE r \in AllRows
  <2>1. CASE r \in Yielded
    BY <2>1, YieldedPlaces DEF RowsInv, RowsTaken, Cells
  <2>2. CASE r \in carried
    <3>1. PICK p \in Procs : r \in ToSet(part[p])
      BY <2>2
    <3>2. In(r, "proc", p, 0)
      BY <1>2, <3>1 DEF In
    <3>. QED
      BY <3>2 DEF RowsInv, RowsTaken, Cells
  <2>. QED
    BY <1>5, <2>1, <2>2
<1>6. ~Drop => carried = {}
  BY <1>1 DEF NoneHeld, ToSet
<1>. QED
  BY <1>4, <1>5, <1>6

(* A pass that ends by itself has yielded every row, but what              *)
(* drop_remainder drops.                                                   *)
THEOREM RunIsComplete == Spec => []RunComplete
<1>1. TypeOK /\ EndMarkInv /\ EndsInv /\ RowsInv => RunComplete
  <2>. SUFFICES ASSUME TypeOK, EndMarkInv, EndsInv, RowsInv, gen = "ended"
                PROVE  LET carried == UNION {ToSet(part[p]) : p \in Procs}
                       IN  /\ Yielded \cup carried = AllRows
                           /\ ~Drop => carried = {}
                           /\ \A p \in Procs : Len(part[p]) < BatchSize
    BY DEF RunComplete
  <2>1. AllDone /\ pipe = <<>> /\ ppc = "built"
    BY DEF EndMarkInv, QueueAtRest, EndsInv, ControlInv
  <2>2. \A p \in Procs : Len(part[p]) < BatchSize
    BY DEF EndsInv, ProcRows
  <2>. QED
    BY <2>1, <2>2, AllYielded
<1>. QED
  BY <1>1, Typing, EndMarks, EndsReached, RowsAccounted, PTL

---------------------------------------------------------------------------
(* The short batches                                                       *)

(* A message of p is at place n of what was yielded, of the pipe, of the   *)
(* hand of its feeder thread or of its buffer; the first of these come     *)
(* before the others.                                                      *)
Ways == {"yielded", "pipe", "hand", "buffer"}

At(m, c, p, n) ==
  /\ m.from = p
  /\ \/ c = "yielded" /\ n \in DOMAIN delivered /\ delivered[n] = m
     \/ c = "pipe" /\ n \in DOMAIN pipe /\ pipe[n] = m
     \/ c = "hand" /\ n \in DOMAIN inhand[p] /\ inhand[p][n] = m
     \/ c = "buffer" /\ n \in DOMAIN buffer[p] /\ buffer[p][n] = m

Before(c, n, d, k) ==
  \/ c = "yielded" /\ d # "yielded"
  \/ c \in {"pipe", "hand"} /\ d = "buffer"
  \/ c = "pipe" /\ d = "hand"
  \/ c = d /\ n < k

(* A batch that is short is of a proc that is past its files, without      *)
(* drop_remainder, and only the end mark comes after it.                   *)
Short(m) == ~m.end /\ Len(m.rows) < BatchSize

ShortLast(p) ==
  ~Drop /\ pc[p] \in {"mark", "flush", "redrain", "abort", "exited"}

ShortInv ==
  \A p \in Procs : \A c \in Ways, n \in Nat : \A m :
    At(m, c, p, n) /\ Short(m) =>
      /\ ShortLast(p)
      /\ \A d \in Ways, k \in Nat : \A o :
           At(o, d, p, k) /\ Before(c, n, d, k) => o.end

(* A step that makes no message and keeps the order of those there are.    *)
Kept ==
  /\ \A p \in Procs, c \in Ways, n \in Nat : \A m :
       At(m, c, p, n)' => \E e \in Ways, i \in Nat : At(m, e, p, i)
  /\ \A p \in Procs, c \in Ways, d \in Ways, n \in Nat, k \in Nat : \A m, o :
       At(m, c, p, n)' /\ At(o, d, p, k)' /\ Before(c, n, d, k) =>
         \E e \in Ways, f \in Ways, i \in Nat, j \in Nat :
           At(m, e, p, i) /\ At(o, f, p, j) /\ Before(e, i, f, j)

(* Such a step keeps the short batches last.                               *)
LEMMA ShortKept ==
  ASSUME ShortInv, Kept, \A p \in Procs : ShortLast(p) => ShortLast(p)'
  PROVE  ShortInv'
<1>. SUFFICES ASSUME NEW p \in Procs, NEW c \in Ways, NEW n \in Nat, NEW m,
                     At(m, c, p, n)', Short(m)
              PROVE  /\ ShortLast(p)'
                     /\ \A d \in Ways, k \in Nat : \A o :
                          At(o, d, p, k)' /\ Before(c, n, d, k) => o.end
  BY DEF ShortInv, Short, Before
<1>1. ShortLast(p)'
  BY DEF ShortInv, Kept
<1>2. ASSUME NEW d \in Ways, NEW k \in Nat, NEW o, At(o, d, p, k)', Before(c, n, d, k)
      PROVE  o.end
  <2>1. PICK e \in Ways, f \in Ways, i \in Nat, j \in Nat :
          At(m, e, p, i) /\ At(o, f, p, j) /\ Before(e, i, f, j)
    BY <1>2 DEF Kept
  <2>. QED
    BY <2>1 DEF ShortInv
<1>. QED
  BY <1>1, <1>2

(* A step that leaves the messages alone, or throws those in the pipe away.*)
LEMMA KeptAlike ==
  ASSUME UNCHANGED <<delivered, inhand, buffer>>, pipe' = pipe \/ pipe' = <<>>
  PROVE  Kept
<1>1. \A p \in Procs, c \in Ways, n \in Nat : \A m : At(m, c, p, n)' => At(m, c, p, n)
  BY DEF At
<1>. QED
  BY <1>1 DEF Kept

(* The oldest message leaves the pipe.                                     *)
LEMMA KeptTaken ==
  ASSUME TypeOK, pipe # <<>>, pipe' = Tail(pipe), UNCHANGED <<inhand, buffer>>,
         delivered' = delivered \/ delivered' = Append(delivered, Head(pipe))
  PROVE  Kept
<1>0. PICK L \in Nat : L = Len(delivered) + 1
  BY LenProperties DEF TypeOK
<1>1. /\ \A i \in DOMAIN pipe' : /\ i \in Nat \ {0} /\ i + 1 \in DOMAIN pipe
                                 /\ pipe'[i] = pipe[i + 1]
      /\ 1 \in DOMAIN pipe /\ Head(pipe) = pipe[1] /\ pipe[1] \in Msgs
  <2>1. 1 \in DOMAIN pipe /\ Head(pipe) = pipe[1]
    BY LenProperties, EmptySeq DEF TypeOK
  <2>. QED
    BY <2>1, ShiftedPipe, MsgsHaveSender DEF TypeOK
<1>2. \A i \in DOMAIN delivered' :
        \/ i \in DOMAIN delivered /\ i < L /\ delivered'[i] = delivered[i]
        \/ i = L /\ delivered'[i] = pipe[1]
  <2>1. /\ delivered \in Seq(Msgs) /\ DOMAIN delivered = 1..Len(delivered)
        /\ Len(delivered) \in Nat
    BY LenProperties DEF TypeOK
  <2>2. CASE delivered' = delivered
    BY <1>0, <2>1, <2>2
  <2>3. CASE delivered' = Append(delivered, Head(pipe))
    <3>1. LET t == Append(delivered, pipe[1])
          IN  /\ t \in Seq(Msgs) /\ Len(t) = Len(delivered) + 1
              /\ t[Len(delivered) + 1] = pipe[1]
              /\ \A i \in 1..Len(delivered) : t[i] = delivered[i]
      BY <1>1, <2>1, AppendProperties
    <3>2. DOMAIN delivered' = 1..Len(delivered) + 1
      BY <1>1, <2>3, <3>1, LenProperties
    <3>3. \A i \in 1..Len(delivered) + 1 : i = L \/ (i \in 1..Len(delivered) /\ i < L)
      BY <1>0, <2>1
    <3>. QED
      BY <1>0, <1>1, <2>1, <2>3, <3>1, <3>2, <3>3
  <2>. QED
    BY <2>2, <2>3
<1>3. ASSUME NEW p \in Procs, NEW c \in Ways, NEW n \in Nat, NEW m, At(m, c, p, n)'
      PROVE  \/ c = "yielded" /\ n = L /\ At(m, "pipe", p, 1)
             \/ c = "yielded" /\ n < L /\ At(m, c, p, n)
             \/ c = "pipe" /\ n > 0 /\ At(m, "pipe", p, n + 1)
             \/ c \in {"hand", "buffer"} /\ At(m, c, p, n)
  BY <1>1, <1>2, <1>3 DEF At, Ways
<1>4. Ways = {"yielded", "pipe", "hand", "buffer"} /\ \A n \in Nat : n + 1 \in Nat
  BY DEF Ways
<1>5. \A p \in Procs, c \in Ways, n \in Nat : \A m :
        At(m, c, p, n)' => \E e \in Ways, i \in Nat : At(m, e, p, i)
  BY <1>3, <1>4
<1>6. ASSUME NEW p \in Procs, NEW c \in Ways, NEW d \in Ways, NEW n \in Nat, NEW k \in Nat,
             NEW m, NEW o, At(m, c, p, n)', At(o, d, p, k)', Before(c, n, d, k)
      PROVE  \E e \in Ways, f \in Ways, i \in Nat, j \in Nat :
               At(m, e, p, i) /\ At(o, f, p, j) /\ Before(e, i, f, j)
  <2>1. PICK e \in Ways, i \in Nat :
          /\ At(m, e, p, i)
          /\ \/ c = "yielded" /\ n = L /\ e = "pipe" /\ i = 1
             \/ c = "yielded" /\ n < L /\ e = c /\ i = n
             \/ c = "pipe" /\ n > 0 /\ e = c /\ i = n + 1
             \/ c \in {"hand", "buffer"} /\ e = c /\ i = n
    BY <1>3, <1>4, <1>6
  <2>2. PICK f \in Ways, j \in Nat :
          /\ At(o, f, p, j)
          /\ \/ d = "yielded" /\ k = L /\ f = "pipe" /\ j = 1
             \/ d = "yielded" /\ k < L /\ f = d /\ j = k
             \/ d = "pipe" /\ k > 0 /\ f = d /\ j = k + 1
             \/ d \in {"hand", "buffer"} /\ f = d /\ j = k
    BY <1>3, <1>4, <1>6
  <2>3. Before(e, i, f, j)
    BY <1>6, <2>1, <2>2 DEF Before
  <2>. QED
    BY <2>1, <2>2, <2>3
<1>. QED
  BY <1>5, <1>6 DEF Kept

(* A feeder thread takes the first message of its buffer.                  *)
LEMMA KeptToHand ==
  ASSUME TypeOK, NEW q \in Procs, FeedTake(q)
  PROVE  Kept
<1>1. /\ buffer[q] \in Seq(Msgs) /\ buffer[q] # <<>> /\ inhand[q] = <<>>
      /\ inhand'[q] = <<buffer[q][1]>> /\ buffer'[q] = Tail(buffer[q])
      /\ \A p \in Procs : p # q => buffer'[p] = buffer[p] /\ inhand'[p] = inhand[p]
      /\ UNCHANGED <<pipe, delivered>>
  BY HeadTailProperties DEF FeedTake, TypeOK, genVars
<1>2. /\ 1 \in DOMAIN buffer[q]
      /\ \A i \in DOMAIN buffer'[q] : /\ i \in Nat \ {0} /\ i + 1 \in DOMAIN buffer[q]
                                      /\ buffer'[q][i] = buffer[q][i + 1]
  <2>1. /\ Len(Tail(buffer[q])) = Len(buffer[q]) - 1 /\ Tail(buffer[q]) \in Seq(Msgs)
        /\ \A i \in 1..Len(Tail(buffer[q])) : Tail(buffer[q])[i] = buffer[q][i + 1]
    BY <1>1, HeadTailProperties
  <2>2. DOMAIN buffer[q] = 1..Len(buffer[q]) /\ Len(buffer[q]) \in Nat \ {0}
    BY <1>1, LenProperties, EmptySeq
  <2>3. DOMAIN Tail(buffer[q]) = 1..(Len(buffer[q]) - 1)
    BY <2>1, LenProperties
  <2>. QED
    BY <1>1, <2>1, <2>2, <2>3
<1>3. ASSUME NEW p \in Procs, NEW c \in Ways, NEW n \in Nat, NEW m, At(m, c, p, n)'
      PROVE  \/ p # q /\ At(m, c, p, n)
             \/ p = q /\ c \in {"yielded", "pipe"} /\ At(m, c, p, n)
             \/ p = q /\ c = "hand" /\ n = 1 /\ At(m, "buffer", p, 1)
             \/ p = q /\ c = "buffer" /\ n > 0 /\ At(m, "buffer", p, n + 1)
  <2>1. CASE p # q \/ c \in {"yielded", "pipe"}
    BY <1>1, <1>3, <2>1 DEF At
  <2>2. CASE p = q /\ c = "hand"
    <3>1. DOMAIN inhand'[q] = {1} /\ inhand'[q][1] = buffer[q][1]
      BY <1>1
    <3>. QED
      BY <1>2, <1>3, <2>2, <3>1 DEF At
  <2>3. CASE p = q /\ c = "buffer"
    BY <1>2, <1>3, <2>3 DEF At
  <2>. QED
    BY <2>1, <2>2, <2>3 DEF Ways
<1>4. Ways = {"yielded", "pipe", "hand", "buffer"} /\ \A n \in Nat : n + 1 \in Nat
  BY DEF Ways
<1>5. \A p \in Procs, c \in Ways, n \in Nat : \A m :
        At(m, c, p, n)' => \E e \in Ways, i \in Nat : At(m, e, p, i)
  BY <1>3, <1>4
<1>6. ASSUME NEW p \in Procs, NEW c \in Ways, NEW d \in Ways, NEW n \in Nat, NEW k \in Nat,
             NEW m, NEW o, At(m, c, p, n)', At(o, d, p, k)', Before(c, n, d, k)
      PROVE  \E e \in Ways, f \in Ways, i \in Nat, j \in Nat :
               At(m, e, p, i) /\ At(o, f, p, j) /\ Before(e, i, f, j)
  <2>1. PICK e \in Ways, i \in Nat :
          /\ At(m, e, p, i)
          /\ \/ p # q /\ e = c /\ i = n
             \/ p = q /\ c \in {"yielded", "pipe"} /\ e = c /\ i = n
             \/ p = q /\ c = "hand" /\ n = 1 /\ e = "buffer" /\ i = 1
             \/ p = q /\ c = "buffer" /\ n > 0 /\ e = "buffer" /\ i = n + 1
    BY <1>3, <1>4, <1>6
  <2>2. PICK f \in Ways, j \in Nat :
          /\ At(o, f, p, j)
          /\ \/ p # q /\ f = d /\ j = k
             \/ p = q /\ d \in {"yielded", "pipe"} /\ f = d /\ j = k
             \/ p = q /\ d = "hand" /\ k = 1 /\ f = "buffer" /\ j = 1
             \/ p = q /\ d = "buffer" /\ k > 0 /\ f = "buffer" /\ j = k + 1
    BY <1>3, <1>4, <1>6
  <2>3. Before(e, i, f, j)
    BY <1>6, <2>1, <2>2 DEF Before
  <2>. QED
    BY <2>1, <2>2, <2>3
<1>. QED
  BY <1>5, <1>6 DEF Kept

(* A feeder thread sends the message it holds.                             *)
LEMMA KeptToPipe ==
  ASSUME TypeOK, EndMarkInv, NEW q \in Procs, FeedSend(q)
  PROVE  Kept
<1>0. PICK L \in Nat : L = Len(pipe) + 1
  BY LenProperties DEF TypeOK
<1>1. /\ inhand[q] \in Seq(Msgs) /\ inhand[q] # <<>> /\ pipe \in Seq(Msgs)
      /\ inhand'[q] = <<>> /\ pipe' = Append(pipe, Head(inhand[q]))
      /\ \A p \in Procs : p # q => inhand'[p] = inhand[p]
      /\ UNCHANGED <<buffer, delivered>>
  BY DEF FeedSend, TypeOK, genVars
<1>2. /\ 1 \in DOMAIN inhand[q] /\ Head(inhand[q]) = inhand[q][1]
      /\ inhand[q][1] \in Msgs /\ inhand[q][1].from = q
  <2>1. 1 \in DOMAIN inhand[q] /\ inhand[q][1].from = q
    BY <1>1, LenProperties, EmptySeq DEF EndMarkInv, MarksInHand
  <2>2. Head(inhand[q]) = inhand[q][1] /\ Head(inhand[q]) \in Msgs
    BY <1>1, HeadTailProperties
  <2>. QED
    BY <2>1, <2>2
<1>3. \A i \in DOMAIN pipe' :
        \/ i \in DOMAIN pipe /\ i < L /\ pipe'[i] = pipe[i]
        \/ i = L /\ pipe'[i] = inhand[q][1]
  <2>1. LET t == Append(pipe, inhand[q][1])
        IN  /\ t \in Seq(Msgs) /\ Len(t) = Len(pipe) + 1
            /\ t[Len(pipe) + 1] = inhand[q][1]
            /\ \A i \in 1..Len(pipe) : t[i] = pipe[i]
    BY <1>1, <1>2, AppendProperties
  <2>2. /\ DOMAIN pipe' = 1..L /\ DOMAIN pipe = 1..Len(pipe) /\ Len(pipe) \in Nat
        /\ pipe'[L] = inhand[q][1]
        /\ \A i \in 1..Len(pipe) : pipe'[i] = pipe[i]
    BY <1>0, <1>1, <1>2, <2>1, LenProperties
  <2>3. \A i \in 1..L : i = L \/ (i \in 1..Len(pipe) /\ i < L)
    BY <1>0, <2>2
  <2>. QED
    BY <2>2, <2>3
<1>4. ASSUME NEW p \in Procs, NEW c \in Ways, NEW n \in Nat, NEW m, At(m, c, p, n)'
      PROVE  \/ c = "pipe" /\ n = L /\ p = q /\ At(m, "hand", p, 1)
             \/ c = "pipe" /\ n < L /\ At(m, c, p, n)
             \/ c = "hand" /\ p # q /\ At(m, c, p, n)
             \/ c \in {"yielded", "buffer"} /\ At(m, c, p, n)
  <2>1. CASE c = "pipe"
    BY <1>2, <1>3, <1>4, <2>1 DEF At
  <2>2. CASE c = "hand"
    BY <1>1, <1>4, <2>2 DEF At
  <2>3. CASE c \in {"yielded", "buffer"}
    BY <1>1, <1>4, <2>3 DEF At
  <2>. QED
    BY <2>1, <2>2, <2>3 DEF Ways
<1>5. Ways = {"yielded", "pipe", "hand", "buffer"} /\ 1 \in Nat
  BY DEF Ways
<1>6. \A p \in Procs, c \in Ways, n \in Nat : \A m :
        At(m, c, p, n)' => \E e \in Ways, i \in Nat : At(m, e, p, i)
  BY <1>4, <1>5
<1>7. ASSUME NEW p \in Procs, NEW c \in Ways, NEW d \in Ways, NEW n \in Nat, NEW k \in Nat,
             NEW m, NEW o, At(m, c, p, n)', At(o, d, p, k)', Before(c, n, d, k)
      PROVE  \E e \in Ways, f \in Ways, i \in Nat, j \in Nat :
               At(m, e, p, i) /\ At(o, f, p, j) /\ Before(e, i, f, j)
  <2>1. PICK e \in Ways, i \in Nat :
          /\ At(m, e, p, i)
          /\ \/ c = "pipe" /\ n = L /\ p = q /\ e = "hand" /\ i = 1
             \/ c = "pipe" /\ n < L /\ e = c /\ i = n
             \/ c = "hand" /\ p # q /\ e = c /\ i = n
             \/ c \in {"yielded", "buffer"} /\ e = c /\ i = n
    BY <1>4, <1>5, <1>7
  <2>2. PICK f \in Ways, j \in Nat :
          /\ At(o, f, p, j)
          /\ \/ d = "pipe" /\ k = L /\ p = q /\ f = "hand" /\ j = 1
             \/ d = "pipe" /\ k < L /\ f = d /\ j = k
             \/ d = "hand" /\ p # q /\ f = d /\ j = k
             \/ d \in {"yielded", "buffer"} /\ f = d /\ j = k
    BY <1>4, <1>5, <1>7
  <2>3. Before(e, i, f, j)
    BY <1>7, <2>1, <2>2 DEF Before
  <2>. QED
    BY <2>1, <2>2, <2>3
<1>. QED
  BY <1>6, <1>7 DEF Kept

(* The messages after a put: one more, at place L of the buffer of q, and  *)
(* those there were before.                                                *)
PutAt(q, o, L) ==
  \A p \in Procs, c \in Ways, n \in Nat : \A m : At(m, c, p, n)' =>
    \/ At(m, c, p, n) /\ (c = "buffer" /\ p = q => n < L)
    \/ c = "buffer" /\ p = q /\ n = L /\ m = o

(* A put adds a message at the end of the buffer.                          *)
LEMMA PutPlaces ==
  ASSUME TypeOK, NEW q \in Procs, NEW o \in Msgs,
         UNCHANGED <<delivered, pipe, inhand>>,
         buffer' = [buffer EXCEPT ![q] = Append(@, o)]
  PROVE  \E L \in Nat : PutAt(q, o, L)
<1>0. PICK L \in Nat : L = Len(buffer[q]) + 1
  BY LenProperties DEF TypeOK
<1>1. /\ \A i \in DOMAIN buffer'[q] :
           \/ i \in DOMAIN buffer[q] /\ i < L /\ buffer'[q][i] = buffer[q][i]
           \/ i = L /\ buffer'[q][i] = o
      /\ \A p \in Procs : p # q => buffer'[p] = buffer[p]
  <2>1. buffer[q] \in Seq(Msgs) /\ buffer'[q] = Append(buffer[q], o)
    BY DEF TypeOK
  <2>2. LET t == Append(buffer[q], o)
        IN  /\ t \in Seq(Msgs) /\ Len(t) = Len(buffer[q]) + 1
            /\ t[Len(buffer[q]) + 1] = o
            /\ \A i \in 1..Len(buffer[q]) : t[i] = buffer[q][i]
    BY <2>1, AppendProperties
  <2>3. /\ DOMAIN buffer'[q] = 1..L /\ DOMAIN buffer[q] = 1..Len(buffer[q])
        /\ Len(buffer[q]) \in Nat /\ buffer'[q][L] = o
        /\ \A i \in 1..Len(buffer[q]) : buffer'[q][i] = buffer[q][i]
    BY <1>0, <2>1, <2>2, LenProperties
  <2>4. \A i \in 1..L : i = L \/ (i \in 1..Len(buffer[q]) /\ i < L)
    BY <1>0, <2>3
  <2>5. \A p \in Procs : p # q => buffer'[p] = buffer[p]
    BY DEF TypeOK
  <2>. QED
    BY <2>3, <2>4, <2>5
<1>2. ASSUME NEW p \in Procs, NEW c \in Ways, NEW n \in Nat, NEW m, At(m, c, p, n)'
      PROVE  \/ At(m, c, p, n) /\ (c = "buffer" /\ p = q => n < L)
             \/ c = "buffer" /\ p = q /\ n = L /\ m = o
  <2>1. CASE c = "buffer" /\ p = q
    BY <1>1, <1>2, <2>1 DEF At
  <2>2. CASE ~(c = "buffer" /\ p = q)
    BY <1>1, <1>2, <2>2 DEF At
  <2>. QED
    BY <2>1, <2>2
<1>. QED
  BY <1>2 DEF PutAt

(* A put: the message is an end mark, or no short batch of the proc was    *)
(* put before; and if it is short, the proc is past its files.             *)
LEMMA ShortPut ==
  ASSUME TypeOK, ShortInv, NEW q \in Procs, NEW o \in Msgs, o.from = q,
         UNCHANGED <<delivered, pipe, inhand>>,
         buffer' = [buffer EXCEPT ![q] = Append(@, o)],
         \A p \in Procs : ShortLast(p) => ShortLast(p)',
         o.end \/ ~ShortLast(q),
         Short(o) => ShortLast(q)'
  PROVE  ShortInv'
<1>0. PICK L \in Nat : PutAt(q, o, L)
  BY PutPlaces
<1>2. ASSUME NEW p \in Procs, NEW c \in Ways, NEW n \in Nat, NEW m, At(m, c, p, n)'
      PROVE  \/ At(m, c, p, n) /\ (c = "buffer" /\ p = q => n < L)
             \/ c = "buffer" /\ p = q /\ n = L /\ m = o
  BY <1>0, <1>2 DEF PutAt
<1>. SUFFICES ASSUME NEW p \in Procs, NEW c \in Ways, NEW n \in Nat, NEW m,
                     At(m, c, p, n)', Short(m)
              PROVE  /\ ShortLast(p)'
                     /\ \A d \in Ways, k \in Nat : \A u :
                          At(u, d, p, k)' /\ Before(c, n, d, k) => u.end
  BY DEF ShortInv, Short, Before
<1>3. CASE At(m, c, p, n) /\ (c = "buffer" /\ p = q => n < L)
  <2>1. ShortLast(p) /\ ShortLast(p)'
    BY <1>3 DEF ShortInv
  <2>2. ASSUME NEW d \in Ways, NEW k \in Nat, NEW u, At(u, d, p, k)', Before(c, n, d, k)
        PROVE  u.end
    <3>1. CASE At(u, d, p, k)
      BY <1>3, <2>2, <3>1 DEF ShortInv
    <3>2. CASE p = q /\ u = o
      BY <2>1, <3>2
    <3>. QED
      BY <1>2, <2>2, <3>1, <3>2
  <2>. QED
    BY <2>1, <2>2
<1>4. CASE c = "buffer" /\ p = q /\ n = L /\ m = o
  <2>1. ASSUME NEW d \in Ways, NEW k \in Nat, NEW u, At(u, d, p, k)', Before(c, n, d, k)
        PROVE  FALSE
    <3>1. d = "buffer" /\ L < k
      BY <1>4, <2>1 DEF Before
    <3>2. k < L \/ k = L
      BY <1>2, <1>4, <2>1, <3>1
    <3>. QED
      BY <3>1, <3>2
  <2>. QED
    BY <1>4, <2>1
<1>5. \/ At(m, c, p, n) /\ (c = "buffer" /\ p = q => n < L)
      \/ c = "buffer" /\ p = q /\ n = L /\ m = o
  BY <1>2
<1>. QED
  BY <1>3, <1>4, <1>5

(* Every step keeps the short batches last.                                *)
LEMMA ShortStep ==
  ASSUME TypeOK, EndMarkInv, EndsInv, ShortInv, [Next]_vars
  PROVE  ShortInv'
<1>. USE DEF parentVars, tokenVars, procVars, queVars, genVars
<1>0. ControlInv /\ FilesLeft /\ EndsCounted /\ ProcRows /\ MarksClean
  BY DEF EndsInv
<1>1. CASE Build
  <2>1. /\ \A p \in Procs : buffer'[p] = <<>> /\ inhand'[p] = <<>>
        /\ delivered' = <<>> /\ pipe' = <<>>
    BY <1>0, <1>1, BuildFiles DEF Build
  <2>2. \A m : \A c \in Ways, p \in Procs, n \in Nat : ~At(m, c, p, n)'
    BY <2>1 DEF At
  <2>. QED
    BY <2>2 DEF ShortInv
<1>2. ASSUME UNCHANGED <<delivered, inhand, buffer>>,
             \A p \in Procs : ShortLast(p) => ShortLast(p)',
             pipe' = pipe \/ pipe' = <<>>
      PROVE  ShortInv'
  BY <1>2, KeptAlike, ShortKept
<1>3. UNCHANGED pc => \A p \in Procs : ShortLast(p) => ShortLast(p)'
  BY DEF ShortLast
<1>4. CASE GenGet
  BY <1>3, <1>4, KeptTaken, ShortKept DEF GenGet, TakeFromPipe
<1>5. CASE StopDrain
  BY <1>2, <1>3, <1>5, KeptTaken, ShortKept DEF StopDrain, TakeFromPipe
<1>6. CASE StopFinish
  BY <1>2, <1>3, <1>6 DEF StopFinish, QueuesBuilt
<1>7. ASSUME NEW p \in Procs, FeedTake(p) \/ FeedSend(p) PROVE ShortInv'
  BY <1>3, <1>7, KeptToHand, KeptToPipe, ShortKept DEF FeedTake, FeedSend
<1>8. ASSUME NEW p \in Procs, LoadDataProc(p) PROVE ShortInv'
  <2>1. /\ UNCHANGED <<delivered, pipe, inhand>>
        /\ \A q \in Procs : q # p => pc'[q] = pc[q]
    BY <1>8, ProcTouches
  <2>2. ShortLast(p) => ShortLast(p)'
    <3>1. CASE WaitStart(p) \/ SeeStop(p) \/ SeeNoStop(p) \/ GetFile(p) \/ DrainFiles(p)
      BY <3>1 DEF WaitStart, SeeStop, SeeNoStop, GetFile, DrainFiles, Goto, ShortLast, TypeOK
    <3>2. CASE Crash(p) \/ Carry(p) \/ SkipShort(p) \/ PutTimeout(p) \/ PutAgain(p)
      BY <3>2 DEF Crash, Carry, SkipShort, PutTimeout, PutAgain, Pads, PadFails, Goto,
         ShortLast, TypeOK
    <3>3. CASE PutBatch(p) \/ PutPadded(p) \/ PutShort(p) \/ PutEndMark(p)
      BY <3>3 DEF PutBatch, PutPadded, PutShort, PutEndMark, Pads, HasShort, Goto,
         ShortLast, TypeOK
    <3>4. CASE GiveUp(p) \/ Exit(p)
      BY <3>4 DEF GiveUp, Exit, Goto, ShortLast, TypeOK
    <3>. QED
      BY <1>8, <3>1, <3>2, <3>3, <3>4 DEF LoadDataProc
  <2>3. \A q \in Procs : ShortLast(q) => ShortLast(q)'
    BY <2>1, <2>2 DEF ShortLast
  <2>4. /\ todo[p] \in Seq(Nat \X Nat) /\ part[p] \in Seq(Nat \X Nat)
        /\ Joined(p) \in Seq(Nat \X Nat) /\ BatchSize \in Nat \ {0}
    BY JoinRows, CountsType DEF TypeOK, Joined
  <2>5. ASSUME NEW o \in Msgs, o.from = p, buffer' = [buffer EXCEPT ![p] = Append(@, o)],
               o.end \/ ~ShortLast(p), Short(o) => ShortLast(p)'
        PROVE  ShortInv'
    BY <2>1, <2>3, <2>5, ShortPut
  <2>6. ASSUME NEW s \in Seq(Nat \X Nat), Len(s) = BatchSize
        PROVE  Batch(p, s) \in Msgs /\ Batch(p, s).from = p /\ ~Short(Batch(p, s))
    BY <2>4, <2>6, MsgType DEF Batch, Short
  <2>7. CASE PutBatch(p)
    <3>1. /\ buffer' = [buffer EXCEPT ![p] = Append(@, Batch(p, FirstOf(todo[p])))]
          /\ ~ShortLast(p)
      BY <2>7 DEF PutBatch, Enqueue, ShortLast
    <3>2. FirstOf(todo[p]) \in Seq(Nat \X Nat) /\ Len(FirstOf(todo[p])) = BatchSize
      BY <2>4, <2>7, CutType, CutRows DEF PutBatch
    <3>. QED
      BY <2>5, <2>6, <3>1, <3>2
  <2>8. CASE PutPadded(p)
    <3>1. /\ buffer' = [buffer EXCEPT ![p] = Append(@, Batch(p, FirstOf(Joined(p))))]
          /\ ~ShortLast(p)
      BY <2>8 DEF PutPadded, Pads, Enqueue, ShortLast
    <3>2. FirstOf(Joined(p)) \in Seq(Nat \X Nat) /\ Len(FirstOf(Joined(p))) = BatchSize
      BY <2>4, <2>8, CutType, CutRows DEF PutPadded
    <3>. QED
      BY <2>5, <2>6, <3>1, <3>2
  <2>9. CASE PutShort(p)
    <3>1. /\ buffer' = [buffer EXCEPT ![p] = Append(@, Batch(p, part[p]))]
          /\ ~ShortLast(p) /\ ShortLast(p)'
      BY <2>9 DEF PutShort, HasShort, Enqueue, ShortLast, Goto, TypeOK
    <3>2. Batch(p, part[p]) \in Msgs /\ Batch(p, part[p]).from = p
      BY <2>4, MsgType DEF Batch
    <3>. QED
      BY <2>5, <3>1, <3>2
  <2>10. CASE PutEndMark(p)
    <3>1. buffer' = [buffer EXCEPT ![p] = Append(@, EndMark(p))]
      BY <2>10 DEF PutEndMark, Enqueue
    <3>2. /\ EndMark(p) \in Msgs /\ EndMark(p).from = p /\ EndMark(p).end
          /\ ~Short(EndMark(p))
      BY EmptySeq, MsgType DEF EndMark, Short
    <3>. QED
      BY <2>5, <3>1, <3>2
  <2>11. CASE buffer' = buffer
    BY <1>2, <2>1, <2>3, <2>11
  <2>12. buffer' = buffer \/ PutBatch(p) \/ PutPadded(p) \/ PutShort(p) \/ PutEndMark(p)
    BY <1>8 DEF LoadDataProc, WaitStart, SeeStop, SeeNoStop, GetFile, Crash, Carry,
       SkipShort, PutTimeout, PutAgain, GiveUp, DrainFiles, Exit
  <2>. QED
    BY <2>7, <2>8, <2>9, <2>10, <2>11, <2>12
<1>9. \/ Build \/ GenGet \/ StopDrain \/ StopFinish
      \/ \E p \in Procs : LoadDataProc(p) \/ FeedTake(p) \/ FeedSend(p)
      \/ UNCHANGED <<delivered, inhand, buffer, pipe, pc>>
  BY DEF Next, BuildFails, GenStart, GenEmpty, StopUnstarted, StopBegin, StopTokenSent,
     Feeder, Rest, vars
<1>. QED
  BY <1>1, <1>2, <1>3, <1>4, <1>5, <1>6, <1>7, <1>8, <1>9

(* A batch that is yielded is full, except the last one of a proc; with    *)
(* drop_remainder there is no exception.                                   *)
THEOREM ShortBatchesLast == Spec => []ShortOnlyLast
<1>1. Init => ShortInv
  <2>. SUFFICES ASSUME Init PROVE ShortInv
    OBVIOUS
  <2>1. /\ \A p \in Procs : buffer[p] = <<>> /\ inhand[p] = <<>>
        /\ delivered = <<>> /\ pipe = <<>>
    BY DEF Init
  <2>2. \A m : \A c \in Ways, p \in Procs, n \in Nat : ~At(m, c, p, n)
    BY <2>1 DEF At
  <2>. QED
    BY <2>2 DEF ShortInv
<1>2. TypeOK /\ EndMarkInv /\ EndsInv /\ ShortInv /\ [Next]_vars => ShortInv'
  BY ShortStep
<1>3. TypeOK /\ AllSized /\ ShortInv => ShortOnlyLast
  <2>. SUFFICES ASSUME TypeOK, AllSized, ShortInv, NEW i \in DOMAIN delivered
                PROVE  /\ Len(delivered[i].rows) \in 1..BatchSize
                       /\ Len(delivered[i].rows) < BatchSize =>
                            /\ ~Drop
                            /\ \A j \in i+1..Len(delivered) :
                                 delivered[j].from # delivered[i].from
    BY DEF ShortOnlyLast
  <2>1. /\ DOMAIN delivered = 1..Len(delivered) /\ Len(delivered) \in Nat
        /\ \A j \in DOMAIN delivered : j \in Nat /\ delivered[j].from \in Procs
    BY LenProperties, MsgsHaveSender DEF TypeOK
  <2>2. Len(delivered[i].rows) \in 1..BatchSize /\ ~delivered[i].end
    BY DEF AllSized, Sized
  <2>. DEFINE p == delivered[i].from
  <2>3. At(delivered[i], "yielded", p, i) /\ "yielded" \in Ways /\ p \in Procs /\ i \in Nat
    BY <2>1 DEF At, Ways
  <2>4. ASSUME Len(delivered[i].rows) < BatchSize
        PROVE  ~Drop
    BY <2>2, <2>3, <2>4 DEF ShortInv, Short, ShortLast
  <2>5. ASSUME Len(delivered[i].rows) < BatchSize, NEW j \in i+1..Len(delivered),
               delivered[j].from = p
        PROVE  FALSE
    <3>1. j \in DOMAIN delivered /\ i < j /\ j \in Nat
      BY <2>1
    <3>2. At(delivered[j], "yielded", p, j)
      BY <2>5, <3>1 DEF At
    <3>3. Before("yielded", i, "yielded", j)
      BY <3>1 DEF Before
    <3>4. Short(delivered[i])
      BY <2>2, <2>5 DEF Short
    <3>5. delivered[j].end
      BY <2>3, <3>1, <3>2, <3>3, <3>4, Zenon DEF ShortInv
    <3>. QED
      BY <3>1, <3>5 DEF AllSized
  <2>. QED
    BY <2>2, <2>4, <2>5
<1>. QED
  BY <1>1, <1>2, <1>3, Typing, EndMarks, EndsReached, RowsAccounted, PTL DEF Spec

---------------------------------------------------------------------------
(* The order of the rows of a file                                         *)

(* Rows of one file rise; they rise from the first of two sequences to the *)
(* second; they are not of one file at all.                                *)
InOrder(s) ==
  \A i, j \in DOMAIN s : i < j /\ s[i][1] = s[j][1] => s[i][2] < s[j][2]

Ahead(s, t) ==
  \A i \in DOMAIN s, j \in DOMAIN t : s[i][1] = t[j][1] => s[i][2] < t[j][2]

Apart(s, t) == \A i \in DOMAIN s, j \in DOMAIN t : s[i][1] # t[j][1]

(* The row is in a message of the proc, or is a row it still holds.        *)
Mine(p, r) ==
  \/ \E c \in Ways, n \in Nat : \E m : At(m, c, p, n) /\ r \in ToSet(m.rows)
  \/ r \in ToSet(part[p]) \/ r \in ToSet(todo[p])

(* The messages of a proc are in order, each and one after the other, and  *)
(* the rows it still holds come after them; no two procs have rows of one  *)
(* file.                                                                   *)
MsgsInOrder ==
  \A p \in Procs :
    /\ \A c \in Ways, n \in Nat : \A m : At(m, c, p, n) =>
         InOrder(m.rows) /\ Ahead(m.rows, part[p]) /\ Ahead(m.rows, todo[p])
    /\ \A c \in Ways, d \in Ways, n \in Nat, k \in Nat : \A m, o :
         At(m, c, p, n) /\ At(o, d, p, k) /\ Before(c, n, d, k) => Ahead(m.rows, o.rows)

HeldInOrder ==
  \A p \in Procs : InOrder(part[p]) /\ InOrder(todo[p]) /\ Apart(part[p], todo[p])

OneProc ==
  \A p, q \in Procs : \A r, s : Mine(p, r) /\ Mine(q, s) /\ r[1] = s[1] => p = q

OrderInv == MsgsInOrder /\ HeldInOrder /\ OneProc

(* What is taken off the front of rows in order, and what is left.         *)
LEMMA CutOrder ==
  ASSUME NEW s \in Seq(Nat \X Nat), Len(s) >= BatchSize, InOrder(s)
  PROVE  /\ InOrder(FirstOf(s)) /\ InOrder(RestOf(s)) /\ Ahead(FirstOf(s), RestOf(s))
         /\ \A t : Apart(t, s) => /\ Ahead(FirstOf(s), t) /\ Apart(t, RestOf(s))
         /\ \A t : Ahead(t, s) => Ahead(t, RestOf(s))
<1>1. BatchSize \in Nat \ {0} /\ Len(s) \in Nat /\ DOMAIN s = 1..Len(s)
  BY CutPlaces
<1>2. /\ Len(s) - BatchSize \in Nat
      /\ \A i \in 1..BatchSize : i \in 1..Len(s)
      /\ \A i \in 1..(Len(s) - BatchSize) : i + BatchSize \in 1..Len(s)
  <2>1. ASSUME NEW a \in Nat, NEW b \in Nat, a >= b
        PROVE  /\ a - b \in Nat
               /\ \A i \in 1..b : i \in 1..a
               /\ \A i \in 1..(a - b) : i + b \in 1..a
    BY <2>1
  <2>2. BatchSize \in Nat
    BY <1>1
  <2>. QED
    BY <1>1, <2>1, <2>2
<1>3. \A i \in DOMAIN FirstOf(s) : /\ i \in DOMAIN s /\ i <= BatchSize /\ i \in Nat
                                   /\ FirstOf(s)[i] = s[i]
  <2>1. /\ DOMAIN FirstOf(s) = 1..BatchSize
        /\ \A i \in 1..BatchSize : FirstOf(s)[i] = s[i]
    BY CutPlaces
  <2>2. \A i \in 1..BatchSize : i <= BatchSize /\ i \in Nat
    BY <1>1
  <2>. QED
    BY <1>1, <1>2, <2>1, <2>2
<1>4. \A i \in DOMAIN RestOf(s) : /\ i + BatchSize \in DOMAIN s /\ i \in Nat \ {0}
                                  /\ RestOf(s)[i] = s[i + BatchSize]
  <2>1. /\ DOMAIN RestOf(s) = 1..(Len(s) - BatchSize)
        /\ \A i \in 1..(Len(s) - BatchSize) : RestOf(s)[i] = s[i + BatchSize]
    BY CutPlaces
  <2>2. \A i \in 1..(Len(s) - BatchSize) : i \in Nat \ {0}
    BY <1>2
  <2>. QED
    BY <1>1, <1>2, <2>1, <2>2
<1>5. InOrder(FirstOf(s))
  BY <1>3 DEF InOrder
<1>6. InOrder(RestOf(s))
  <2>1. ASSUME NEW i \in Nat, NEW j \in Nat, i < j
        PROVE  i + BatchSize < j + BatchSize
    BY <1>1, <2>1
  <2>. QED
    BY <1>4, <2>1 DEF InOrder
<1>7. Ahead(FirstOf(s), RestOf(s))
  <2>1. ASSUME NEW i \in Nat, NEW j \in Nat \ {0}, i <= BatchSize
        PROVE  i < j + BatchSize
    BY <1>1, <2>1
  <2>2. \A i \in DOMAIN FirstOf(s), j \in DOMAIN RestOf(s) :
          /\ i \in DOMAIN s /\ j + BatchSize \in DOMAIN s /\ i < j + BatchSize
          /\ FirstOf(s)[i] = s[i] /\ RestOf(s)[j] = s[j + BatchSize]
    BY <1>3, <1>4, <2>1
  <2>3. ASSUME NEW i \in DOMAIN FirstOf(s), NEW j \in DOMAIN RestOf(s),
               FirstOf(s)[i][1] = RestOf(s)[j][1]
        PROVE  FirstOf(s)[i][2] < RestOf(s)[j][2]
    <3>. PICK k \in DOMAIN s : k = j + BatchSize /\ i < k /\ RestOf(s)[j] = s[k]
      BY <2>2
    <3>1. i \in DOMAIN s /\ FirstOf(s)[i] = s[i]
      BY <2>2
    <3>. QED
      BY <2>3, <3>1 DEF InOrder
  <2>. QED
    BY <2>3 DEF Ahead
<1>8. \A t : Apart(t, s) => Ahead(FirstOf(s), t) /\ Apart(t, RestOf(s))
  BY <1>3, <1>4 DEF Apart, Ahead
<1>9. \A t : Ahead(t, s) => Ahead(t, RestOf(s))
  BY <1>4 DEF Ahead
<1>. QED
  BY <1>5, <1>6, <1>7, <1>8, <1>9

(* The rows a proc carries and those of its file, put together.            *)
LEMMA JoinOrder ==
  ASSUME NEW s \in Seq(Nat \X Nat), NEW t \in Seq(Nat \X Nat),
         InOrder(s), InOrder(t), Apart(s, t)
  PROVE  /\ InOrder(s \o t)
         /\ \A u : Ahead(u, s) /\ Ahead(u, t) => Ahead(u, s \o t)
<1>. DEFINE w == s \o t
<1>1. /\ w \in Seq(Nat \X Nat) /\ Len(w) = Len(s) + Len(t)
      /\ \A i \in 1..Len(s) + Len(t) : w[i] = IF i <= Len(s) THEN s[i] ELSE t[i - Len(s)]
  BY ConcatProperties
<1>2. /\ DOMAIN s = 1..Len(s) /\ DOMAIN t = 1..Len(t) /\ Len(s) \in Nat /\ Len(t) \in Nat
      /\ DOMAIN w = 1..Len(w)
  BY <1>1, LenProperties
<1>. HIDE DEF w
<1>3. \A i \in DOMAIN w :
        /\ i \in Nat
        /\ \/ i \in DOMAIN s /\ w[i] = s[i]
           \/ /\ i - Len(s) \in DOMAIN t /\ w[i] = t[i - Len(s)]
              /\ ~(i <= Len(s))
  <2>1. ASSUME NEW a \in Nat, NEW b \in Nat, NEW i \in 1..a + b
        PROVE  /\ i \in Nat
               /\ \/ i \in 1..a /\ i <= a
                  \/ i - a \in 1..b /\ ~(i <= a)
    <3>1. i \in Nat /\ 1 <= i /\ i <= a + b
      OBVIOUS
    <3>2. CASE i <= a
      BY <3>1, <3>2
    <3>3. CASE ~(i <= a)
      <4>1. i - a \in Int /\ 1 <= i - a /\ i - a <= b
        BY <3>1, <3>3
      <4>. QED
        BY <3>1, <3>3, <4>1
    <3>. QED
      BY <3>2, <3>3
  <2>2. DOMAIN w = 1..Len(s) + Len(t)
    BY <1>1, <1>2
  <2>. QED
    BY <1>1, <1>2, <2>1, <2>2
<1>4. InOrder(w)
  <2>. SUFFICES ASSUME NEW i \in DOMAIN w, NEW j \in DOMAIN w, i < j, w[i][1] = w[j][1]
                PROVE  w[i][2] < w[j][2]
    BY DEF InOrder
  <2>1. CASE i \in DOMAIN s /\ w[i] = s[i]
    <3>1. CASE j \in DOMAIN s /\ w[j] = s[j]
      BY <2>1, <3>1 DEF InOrder
    <3>2. CASE j - Len(s) \in DOMAIN t /\ w[j] = t[j - Len(s)]
      BY <2>1, <3>2 DEF Apart
    <3>. QED
      BY <1>3, <3>1, <3>2
  <2>2. CASE i - Len(s) \in DOMAIN t /\ w[i] = t[i - Len(s)] /\ ~(i <= Len(s))
    <3>1. /\ j - Len(s) \in DOMAIN t /\ w[j] = t[j - Len(s)]
          /\ i - Len(s) < j - Len(s)
      <4>1. i \in Nat /\ j \in Nat /\ ~(j <= Len(s))
        BY <1>2, <1>3, <2>2
      <4>2. j \notin DOMAIN s
        BY <1>2, <4>1
      <4>3. i - Len(s) < j - Len(s)
        BY <1>2, <4>1
      <4>. QED
        BY <1>3, <4>2, <4>3
    <3>. QED
      BY <2>2, <3>1 DEF InOrder
  <2>. QED
    BY <1>3, <2>1, <2>2
<1>5. \A u : Ahead(u, s) /\ Ahead(u, t) => Ahead(u, w)
  BY <1>3 DEF Ahead
<1>. QED
  BY <1>4, <1>5 DEF w

(* A row that some proc has is of a file that was taken.                   *)
LEMMA MineTaken ==
  ASSUME TypeOK, RowsInv, NEW p \in Procs, NEW r, Mine(p, r)
  PROVE  r \in AllRows /\ r[1] <= Taken /\ r[1] \in Nat
<1>1. \E c \in Cells, n \in Nat : In(r, c, p, n)
  <2>1. CASE r \in ToSet(part[p]) \/ r \in ToSet(todo[p])
    <3>1. r \in ToSet(Joined(p))
      BY <2>1, JoinRows DEF TypeOK, Joined
    <3>. QED
      BY <3>1 DEF In, Cells
  <2>2. ASSUME NEW c \in Ways, NEW n \in Nat, NEW m, At(m, c, p, n), r \in ToSet(m.rows)
        PROVE  In(r, c, p, n) /\ c \in Cells
    BY <2>2 DEF In, Holds, At, Ways, Cells
  <2>. QED
    BY <2>1, <2>2 DEF Mine
<1>2. r \in AllRows /\ r[1] <= Taken
  BY <1>1 DEF RowsInv, RowsTaken
<1>3. r[1] \in 1..NumHanded /\ NumHanded \in Nat
  BY <1>2, FileRows, CountsType
<1>. QED
  BY <1>2, <1>3

(* The order after a step, in terms of the messages and rows there are.    *)
LEMMA MsgsInOrderNext ==
  ASSUME \A p \in Procs, c \in Ways, n \in Nat : \A m : At(m, c, p, n)' =>
           InOrder(m.rows) /\ Ahead(m.rows, part'[p]) /\ Ahead(m.rows, todo'[p]),
         \A p \in Procs, c \in Ways, d \in Ways, n \in Nat, k \in Nat : \A m, o :
           At(m, c, p, n)' /\ At(o, d, p, k)' /\ Before(c, n, d, k) =>
             Ahead(m.rows, o.rows)
  PROVE  MsgsInOrder'
  BY DEF MsgsInOrder, InOrder, Ahead, Before

(* The same for the rows the procs hold.                                   *)
LEMMA HeldInOrderNext ==
  ASSUME \A p \in Procs :
           InOrder(part'[p]) /\ InOrder(todo'[p]) /\ Apart(part'[p], todo'[p])
  PROVE  HeldInOrder'
  BY DEF HeldInOrder, InOrder, Apart

(* A step that makes no message and leaves the rows the procs hold.        *)
LEMMA OrderKept ==
  ASSUME OrderInv, Kept, UNCHANGED <<part, todo>>
  PROVE  OrderInv'
<1>1. MsgsInOrder'
  <2>1. ASSUME NEW p \in Procs, NEW c \in Ways, NEW n \in Nat, NEW m, At(m, c, p, n)'
        PROVE  InOrder(m.rows) /\ Ahead(m.rows, part'[p]) /\ Ahead(m.rows, todo'[p])
    <3>1. PICK e \in Ways, i \in Nat : At(m, e, p, i)
      BY <2>1 DEF Kept
    <3>. QED
      BY <3>1 DEF OrderInv, MsgsInOrder
  <2>2. ASSUME NEW p \in Procs, NEW c \in Ways, NEW d \in Ways, NEW n \in Nat, NEW k \in Nat,
               NEW m, NEW o, At(m, c, p, n)', At(o, d, p, k)', Before(c, n, d, k)
        PROVE  Ahead(m.rows, o.rows)
    <3>1. PICK e \in Ways, f \in Ways, i \in Nat, j \in Nat :
            At(m, e, p, i) /\ At(o, f, p, j) /\ Before(e, i, f, j)
      BY <2>2 DEF Kept
    <3>. QED
      BY <3>1 DEF OrderInv, MsgsInOrder
  <2>. QED
    BY <2>1, <2>2, MsgsInOrderNext
<1>2. HeldInOrder'
  BY DEF OrderInv, HeldInOrder, InOrder, Apart
<1>3. OneProc'
  <2>1. \A p \in Procs : \A r : Mine(p, r)' => Mine(p, r)
    BY DEF Kept, Mine
  <2>. QED
    BY <2>1 DEF OrderInv, OneProc
<1>. QED
  BY <1>1, <1>2, <1>3 DEF OrderInv

(* A put, or a proc that carries its rows on: the message has rows the     *)
(* proc held, in order and ahead of those it still holds.                  *)
LEMMA OrderPut ==
  ASSUME TypeOK, OrderInv, NEW q \in Procs, NEW o \in Msgs, o.from = q,
         UNCHANGED <<delivered, pipe, inhand>>,
         buffer' = buffer \/ buffer' = [buffer EXCEPT ![q] = Append(@, o)],
         \A p \in Procs : p # q => part'[p] = part[p] /\ todo'[p] = todo[p],
         InOrder(o.rows), Ahead(o.rows, part'[q]), Ahead(o.rows, todo'[q]),
         ToSet(o.rows) \subseteq ToSet(part[q]) \cup ToSet(todo[q]),
         ToSet(part'[q]) \cup ToSet(todo'[q]) \subseteq ToSet(part[q]) \cup ToSet(todo[q]),
         InOrder(part'[q]), InOrder(todo'[q]), Apart(part'[q], todo'[q])
  PROVE  OrderInv'
<1>1. \E L \in Nat : PutAt(q, o, L)
  <2>1. CASE buffer' = buffer
    <3>1. PICK L \in Nat : L = Len(buffer[q]) + 1
      BY LenProperties DEF TypeOK
    <3>2. ASSUME NEW p \in Procs, NEW c \in Ways, NEW n \in Nat, NEW m, At(m, c, p, n)'
          PROVE  At(m, c, p, n) /\ (c = "buffer" /\ p = q => n < L)
      <4>1. At(m, c, p, n)
        BY <2>1, <3>2 DEF At
      <4>2. c = "buffer" /\ p = q => n \in 1..Len(buffer[q]) /\ Len(buffer[q]) \in Nat
        BY <4>1, LenProperties DEF At, TypeOK
      <4>. QED
        BY <3>1, <4>1, <4>2
    <3>. QED
      BY <3>2 DEF PutAt
  <2>2. CASE buffer' = [buffer EXCEPT ![q] = Append(@, o)]
    BY <2>2, PutPlaces
  <2>. QED
    BY <2>1, <2>2
<1>2. PICK L \in Nat : PutAt(q, o, L)
  BY <1>1
<1>3. ASSUME NEW p \in Procs, NEW c \in Ways, NEW n \in Nat, NEW m, At(m, c, p, n)'
      PROVE  \/ At(m, c, p, n) /\ (c = "buffer" /\ p = q => n < L)
             \/ c = "buffer" /\ p = q /\ n = L /\ m = o
  BY <1>2, <1>3 DEF PutAt
<1>4. \A m : \A c \in Ways, n \in Nat : At(m, c, q, n) =>
        /\ Ahead(m.rows, o.rows) /\ Ahead(m.rows, part'[q]) /\ Ahead(m.rows, todo'[q])
  <2>. SUFFICES ASSUME NEW m, NEW c \in Ways, NEW n \in Nat, At(m, c, q, n)
                PROVE  /\ Ahead(m.rows, o.rows) /\ Ahead(m.rows, part'[q])
                       /\ Ahead(m.rows, todo'[q])
    OBVIOUS
  <2>1. Ahead(m.rows, part[q]) /\ Ahead(m.rows, todo[q])
    BY DEF OrderInv, MsgsInOrder
  <2>2. ASSUME NEW s, ToSet(s) \subseteq ToSet(part[q]) \cup ToSet(todo[q])
        PROVE  Ahead(m.rows, s)
    <3>. SUFFICES ASSUME NEW i \in DOMAIN m.rows, NEW j \in DOMAIN s, m.rows[i][1] = s[j][1]
                  PROVE  m.rows[i][2] < s[j][2]
      BY DEF Ahead
    <3>1. s[j] \in ToSet(part[q]) \cup ToSet(todo[q])
      BY <2>2 DEF ToSet
    <3>2. CASE s[j] \in ToSet(part[q])
      BY <2>1, <3>2 DEF Ahead, ToSet
    <3>3. CASE s[j] \in ToSet(todo[q])
      BY <2>1, <3>3 DEF Ahead, ToSet
    <3>. QED
      BY <3>1, <3>2, <3>3
  <2>. QED
    BY <2>2
<1>5. MsgsInOrder'
  <2>1. ASSUME NEW p \in Procs, NEW c \in Ways, NEW n \in Nat, NEW m, At(m, c, p, n)'
        PROVE  InOrder(m.rows) /\ Ahead(m.rows, part'[p]) /\ Ahead(m.rows, todo'[p])
    <3>1. CASE p = q /\ m = o
      BY <3>1
    <3>2. CASE At(m, c, p, n) /\ p = q
      BY <1>4, <3>2 DEF OrderInv, MsgsInOrder
    <3>3. CASE At(m, c, p, n) /\ p # q
      BY <3>3 DEF OrderInv, MsgsInOrder
    <3>. QED
      BY <1>3, <2>1, <3>1, <3>2, <3>3
  <2>2. ASSUME NEW p \in Procs, NEW e \in Ways, NEW d \in Ways, NEW j \in Nat, NEW k \in Nat,
               NEW w, NEW u, At(w, e, p, j)', At(u, d, p, k)', Before(e, j, d, k)
        PROVE  Ahead(w.rows, u.rows)
    <3>1. \/ At(w, e, p, j) /\ (e = "buffer" /\ p = q => j < L)
          \/ e = "buffer" /\ p = q /\ j = L /\ w = o
      <4>1. At(w, e, p, j)'
        BY <2>2
      <4>. QED
        BY <1>3, <4>1
    <3>2. \/ At(u, d, p, k) /\ (d = "buffer" /\ p = q => k < L)
          \/ d = "buffer" /\ p = q /\ k = L /\ u = o
      BY <1>3, <2>2
    <3>3. CASE At(w, e, p, j) /\ At(u, d, p, k)
      BY <2>2, <3>3 DEF OrderInv, MsgsInOrder
    <3>4. CASE At(w, e, p, j) /\ p = q /\ u = o
      BY <1>4, <3>4
    <3>5. CASE e = "buffer" /\ p = q /\ j = L
      <4>1. d = "buffer" /\ L < k
        BY <2>2, <3>5 DEF Before
      <4>. QED
        BY <3>2, <3>5, <4>1
    <3>. QED
      BY <3>1, <3>2, <3>3, <3>4, <3>5
  <2>. QED
    BY <2>1, <2>2, MsgsInOrderNext
<1>6. HeldInOrder'
  <2>1. \A p \in Procs : InOrder(part'[p]) /\ InOrder(todo'[p]) /\ Apart(part'[p], todo'[p])
    BY DEF OrderInv, HeldInOrder
  <2>. QED
    BY <2>1, HeldInOrderNext
<1>7. OneProc'
  <2>1. ASSUME NEW p \in Procs, NEW r, Mine(p, r)' PROVE Mine(p, r)
    <3>1. CASE r \in ToSet(part'[p]) \/ r \in ToSet(todo'[p])
      <4>1. CASE p = q
        BY <3>1, <4>1 DEF Mine
      <4>2. CASE p # q
        BY <3>1, <4>2 DEF Mine
      <4>. QED
        BY <4>1, <4>2
    <3>2. ASSUME NEW c \in Ways, NEW n \in Nat, NEW m, At(m, c, p, n)', r \in ToSet(m.rows)
          PROVE  Mine(p, r)
      BY <1>3, <3>2 DEF Mine
    <3>. QED
      BY <2>1, <3>1, <3>2 DEF Mine, ToSet
  <2>. QED
    BY <2>1 DEF OrderInv, OneProc
<1>. QED
  BY <1>5, <1>6, <1>7 DEF OrderInv

(* A file that a proc takes: its rows were with no proc yet.               *)
LEMMA OrderGot ==
  ASSUME TypeOK, FilesLeft, ProcRows, RowsInv, OrderInv, NEW q \in Procs, GetFile(q),
         Head(fileQ) # NoFile
  PROVE  OrderInv'
<1>. DEFINE k == Head(fileQ)
<1>1. k = Taken + 1 /\ k \in 1..NumHanded /\ Taken \in Int
  <2>1. /\ k = Entry(Taken + 1) /\ fileQ' = Tail(fileQ)
        /\ Len(fileQ) \in Nat \ {0}
    BY TakeFile DEF GetFile
  <2>2. Taken \in Nat
    BY <2>1, QueueCounts DEF Taken, Total, FilesLeft
  <2>. QED
    BY <2>1, <2>2, QueueCounts DEF Entry, NoFile
<1>2. /\ UNCHANGED <<delivered, pipe, inhand, buffer, part>>
      /\ \A p \in Procs : p # q => todo'[p] = todo[p]
      /\ todo'[q] = Rows(k) /\ todo[q] = <<>>
  BY DEF GetFile, TypeOK, ProcRows, queVars, genVars
<1>. HIDE DEF k
<1>3. /\ InOrder(Rows(k)) /\ \A i \in DOMAIN Rows(k) : Rows(k)[i][1] = k
  BY DEF InOrder, Rows
<1>4. \A p \in Procs : \A r : Mine(p, r) => r[1] # k
  <2>1. \A p \in Procs : \A r : Mine(p, r) => r[1] <= Taken /\ r[1] \in Nat
    BY MineTaken
  <2>. QED
    BY <1>1, <2>1
<1>5. ASSUME NEW p \in Procs, NEW r, Mine(p, r)'
      PROVE  Mine(p, r) \/ (p = q /\ r[1] = k)
  <2>1. ASSUME NEW c \in Ways, NEW n \in Nat, NEW m, At(m, c, p, n)', r \in ToSet(m.rows)
        PROVE  Mine(p, r)
    BY <1>2, <2>1 DEF At, Mine
  <2>2. CASE r \in ToSet(part'[p])
    BY <1>2, <2>2 DEF Mine
  <2>3. CASE r \in ToSet(todo'[p])
    BY <1>2, <1>3, <2>3 DEF Mine, ToSet
  <2>. QED
    BY <1>5, <2>1, <2>2, <2>3 DEF Mine, ToSet
<1>6. MsgsInOrder'
  <2>1. ASSUME NEW p \in Procs, NEW c \in Ways, NEW n \in Nat, NEW m, At(m, c, p, n)
        PROVE  InOrder(m.rows) /\ Ahead(m.rows, part'[p]) /\ Ahead(m.rows, todo'[p])
    <3>1. InOrder(m.rows) /\ Ahead(m.rows, part[p]) /\ Ahead(m.rows, todo[p])
      BY <2>1 DEF OrderInv, MsgsInOrder
    <3>2. CASE p = q
      <4>1. \A i \in DOMAIN m.rows : m.rows[i][1] # k
        BY <1>4, <2>1 DEF Mine, ToSet
      <4>2. Ahead(m.rows, Rows(k))
        BY <1>3, <4>1 DEF Ahead
      <4>. QED
        BY <1>2, <3>1, <3>2, <4>2
    <3>3. CASE p # q
      BY <1>2, <3>1, <3>3
    <3>. QED
      BY <3>2, <3>3
  <2>2. \A p \in Procs, c \in Ways, n \in Nat : \A m : At(m, c, p, n)' => At(m, c, p, n)
    BY <1>2 DEF At
  <2>3. ASSUME NEW p \in Procs, NEW c \in Ways, NEW d \in Ways, NEW n \in Nat, NEW j \in Nat,
               NEW m, NEW u, At(m, c, p, n)', At(u, d, p, j)', Before(c, n, d, j)
        PROVE  Ahead(m.rows, u.rows)
    <3>1. At(m, c, p, n) /\ At(u, d, p, j)
      BY <2>2, <2>3
    <3>. QED
      BY <2>3, <3>1 DEF OrderInv, MsgsInOrder
  <2>. QED
    BY <2>1, <2>2, <2>3, MsgsInOrderNext
<1>7. HeldInOrder'
  <2>1. Apart(part[q], Rows(k))
    <3>1. \A i \in DOMAIN part[q] : part[q][i][1] # k
      BY <1>4 DEF Mine, ToSet
    <3>. QED
      BY <1>3, <3>1 DEF Apart
  <2>2. \A p \in Procs : InOrder(part'[p]) /\ InOrder(todo'[p]) /\ Apart(part'[p], todo'[p])
    BY <1>2, <1>3, <2>1 DEF OrderInv, HeldInOrder
  <2>. QED
    BY <2>2, HeldInOrderNext
<1>8. OneProc'
  <2>1. ASSUME NEW p \in Procs, NEW t \in Procs, NEW r, NEW s, Mine(p, r)', Mine(t, s)',
               r[1] = s[1]
        PROVE  p = t
    <3>1. Mine(p, r) \/ (p = q /\ r[1] = k)
      BY <1>5, <2>1
    <3>2. Mine(t, s) \/ (t = q /\ s[1] = k)
      BY <1>5, <2>1
    <3>. QED
      BY <1>4, <2>1, <3>1, <3>2 DEF OrderInv, OneProc
  <2>. QED
    BY <2>1 DEF OneProc
<1>. QED
  BY <1>6, <1>7, <1>8 DEF OrderInv

(* Every put takes the first rows a proc holds.                            *)
LEMMA OrderPuts ==
  ASSUME TypeOK, ProcRows, OrderInv, NEW q \in Procs,
         PutBatch(q) \/ PutPadded(q) \/ PutShort(q) \/ PutEndMark(q) \/ Carry(q)
  PROVE  OrderInv'
<1>. USE DEF parentVars, tokenVars, procVars, queVars, genVars
<1>1. /\ UNCHANGED <<delivered, pipe, inhand>>
      /\ \A p \in Procs : p # q => part'[p] = part[p] /\ todo'[p] = todo[p]
  BY DEF PutBatch, PutPadded, PutShort, PutEndMark, Carry, Enqueue, TypeOK
<1>2. /\ todo[q] \in Seq(Nat \X Nat) /\ part[q] \in Seq(Nat \X Nat)
      /\ Joined(q) \in Seq(Nat \X Nat)
      /\ ToSet(Joined(q)) = ToSet(part[q]) \cup ToSet(todo[q])
  BY JoinRows DEF TypeOK, Joined
<1>3. InOrder(part[q]) /\ InOrder(todo[q]) /\ Apart(part[q], todo[q])
  BY DEF OrderInv, HeldInOrder
<1>4. InOrder(Joined(q))
  BY <1>2, <1>3, JoinOrder DEF Joined
<1>5. /\ ToSet(<<>>) = {} /\ InOrder(<<>>) /\ <<>> \in Seq(Nat \X Nat)
      /\ \A s : Ahead(s, <<>>) /\ Ahead(<<>>, s) /\ Apart(s, <<>>)
  BY DEF ToSet, InOrder, Ahead, Apart
<1>6. \A s \in Seq(Nat \X Nat) : /\ Batch(q, s) \in Msgs /\ Batch(q, s).from = q
                                 /\ Batch(q, s).rows = s
  BY MsgType DEF Batch
<1>7. ASSUME NEW s \in Seq(Nat \X Nat), NEW x, NEW y,
             \/ buffer' = buffer
             \/ buffer' = [buffer EXCEPT ![q] = Append(@, Batch(q, s))],
             part'[q] = x, todo'[q] = y,
             InOrder(s), Ahead(s, x), Ahead(s, y), InOrder(x), InOrder(y), Apart(x, y),
             ToSet(s) \cup ToSet(x) \cup ToSet(y) \subseteq ToSet(Joined(q))
      PROVE  OrderInv'
  <2>. DEFINE o == Batch(q, s)
  <2>1. /\ o \in Msgs /\ o.from = q /\ o.rows = s
        /\ buffer' = buffer \/ buffer' = [buffer EXCEPT ![q] = Append(@, o)]
    BY <1>6, <1>7
  <2>2. /\ ToSet(s) \subseteq ToSet(part[q]) \cup ToSet(todo[q])
        /\ ToSet(x) \cup ToSet(y) \subseteq ToSet(part[q]) \cup ToSet(todo[q])
    BY <1>2, <1>7
  <2>. HIDE DEF o
  <2>. QED
    BY <1>1, <1>7, <2>1, <2>2, OrderPut
<1>8. CASE PutBatch(q)
  <2>. DEFINE s == FirstOf(todo[q])
              y == RestOf(todo[q])
  <2>1. /\ buffer' = [buffer EXCEPT ![q] = Append(@, Batch(q, s))]
        /\ part'[q] = part[q] /\ todo'[q] = y /\ Len(todo[q]) >= BatchSize
    BY <1>8 DEF PutBatch, Enqueue, TypeOK
  <2>2. s \in Seq(Nat \X Nat) /\ y \in Seq(Nat \X Nat)
    BY <1>2, <2>1, CutType
  <2>3. /\ InOrder(s) /\ InOrder(y) /\ Ahead(s, y) /\ Ahead(s, part[q]) /\ Apart(part[q], y)
    BY <1>2, <1>3, <2>1, CutOrder
  <2>4. ToSet(s) \cup ToSet(y) = ToSet(todo[q])
    BY <1>2, <2>1, CutRows
  <2>5. ToSet(s) \cup ToSet(part[q]) \cup ToSet(y) \subseteq ToSet(Joined(q))
    BY <1>2, <2>4
  <2>. HIDE DEF s, y
  <2>. QED
    BY <1>3, <1>7, <2>1, <2>2, <2>3, <2>5
<1>9. CASE PutPadded(q)
  <2>. DEFINE s == FirstOf(Joined(q))
              x == RestOf(Joined(q))
  <2>1. /\ buffer' = [buffer EXCEPT ![q] = Append(@, Batch(q, s))]
        /\ part'[q] = x /\ todo'[q] = <<>> /\ Len(Joined(q)) >= BatchSize
    BY <1>9 DEF PutPadded, Enqueue, TypeOK
  <2>2. s \in Seq(Nat \X Nat) /\ x \in Seq(Nat \X Nat)
    BY <1>2, <2>1, CutType
  <2>3. InOrder(s) /\ InOrder(x) /\ Ahead(s, x)
    BY <1>2, <1>4, <2>1, CutOrder
  <2>4. ToSet(s) \cup ToSet(x) = ToSet(Joined(q))
    BY <1>2, <2>1, CutRows
  <2>5. ToSet(s) \cup ToSet(x) \cup ToSet(<<>>) \subseteq ToSet(Joined(q))
    BY <1>5, <2>4
  <2>. HIDE DEF s, x
  <2>. QED
    BY <1>5, <1>7, <2>1, <2>2, <2>3, <2>5
<1>10. CASE PutShort(q)
  <2>1. /\ buffer' = [buffer EXCEPT ![q] = Append(@, Batch(q, part[q]))]
        /\ part'[q] = <<>> /\ todo'[q] = todo[q] /\ pc[q] = "rem"
    BY <1>10 DEF PutShort, HasShort, Enqueue, TypeOK
  <2>2. todo[q] = <<>>
    BY <2>1 DEF ProcRows
  <2>3. ToSet(part[q]) \cup ToSet(<<>>) \cup ToSet(<<>>) \subseteq ToSet(Joined(q))
    BY <1>2, <1>5
  <2>. QED
    BY <1>2, <1>3, <1>5, <1>7, <2>1, <2>2, <2>3
<1>11. CASE PutEndMark(q)
  <2>1. /\ buffer' = [buffer EXCEPT ![q] = Append(@, EndMark(q))]
        /\ part'[q] = part[q] /\ todo'[q] = todo[q]
    BY <1>11 DEF PutEndMark, Enqueue, TypeOK
  <2>2. EndMark(q) \in Msgs /\ EndMark(q).from = q /\ EndMark(q).rows = <<>>
    BY <1>5, MsgType DEF EndMark
  <2>. QED
    BY <1>1, <1>3, <1>5, <2>1, <2>2, OrderPut
<1>12. CASE Carry(q)
  <2>1. buffer' = buffer /\ part'[q] = Joined(q) /\ todo'[q] = <<>>
    BY <1>12 DEF Carry, TypeOK
  <2>2. ToSet(<<>>) \cup ToSet(Joined(q)) \cup ToSet(<<>>) \subseteq ToSet(Joined(q))
    BY <1>5
  <2>. QED
    BY <1>4, <1>5, <1>7, <2>1, <2>2
<1>. QED
  BY <1>8, <1>9, <1>10, <1>11, <1>12

(* Every step keeps the order.                                             *)
LEMMA OrderStep ==
  ASSUME TypeOK, EndMarkInv, EndsInv, RowsInv, OrderInv, [Next]_vars
  PROVE  OrderInv'
<1>. USE DEF parentVars, tokenVars, procVars, queVars, genVars
<1>0. ControlInv /\ FilesLeft /\ EndsCounted /\ ProcRows /\ MarksClean
  BY DEF EndsInv
<1>1. CASE Build
  <2>1. /\ \A p \in Procs : /\ buffer'[p] = <<>> /\ inhand'[p] = <<>>
                            /\ part'[p] = <<>> /\ todo'[p] = <<>>
        /\ delivered' = <<>> /\ pipe' = <<>>
    BY <1>0, <1>1, BuildFiles DEF Build
  <2>2. \A m : \A c \in Ways, p \in Procs, n \in Nat : ~At(m, c, p, n)'
    BY <2>1 DEF At
  <2>3. \A p \in Procs : \A r : ~Mine(p, r)'
    BY <2>1, <2>2 DEF Mine, ToSet
  <2>4. HeldInOrder'
    BY <2>1 DEF HeldInOrder, InOrder, Apart
  <2>5. MsgsInOrder'
    BY <2>2, MsgsInOrderNext
  <2>6. OneProc'
    BY <2>3 DEF OneProc
  <2>. QED
    BY <2>4, <2>5, <2>6 DEF OrderInv
<1>2. ASSUME UNCHANGED <<delivered, inhand, buffer, part, todo>>,
             pipe' = pipe \/ pipe' = <<>>
      PROVE  OrderInv'
  BY <1>2, KeptAlike, OrderKept
<1>3. CASE GenGet
  BY <1>3, KeptTaken, OrderKept DEF GenGet, TakeFromPipe
<1>4. CASE StopDrain
  BY <1>2, <1>4, KeptTaken, OrderKept DEF StopDrain, TakeFromPipe
<1>5. CASE StopFinish
  BY <1>2, <1>5 DEF StopFinish, QueuesBuilt
<1>6. ASSUME NEW p \in Procs, FeedTake(p) \/ FeedSend(p) PROVE OrderInv'
  BY <1>6, KeptToHand, KeptToPipe, OrderKept DEF FeedTake, FeedSend
<1>7. ASSUME NEW p \in Procs, LoadDataProc(p) PROVE OrderInv'
  <2>1. CASE GetFile(p) /\ Head(fileQ) # NoFile
    BY <1>0, <2>1, OrderGot
  <2>2. CASE GetFile(p) /\ Head(fileQ) = NoFile
    BY <1>2, <2>2 DEF GetFile
  <2>3. CASE PutBatch(p) \/ PutPadded(p) \/ PutShort(p) \/ PutEndMark(p) \/ Carry(p)
    BY <1>0, <2>3, OrderPuts
  <2>4. \/ GetFile(p)
        \/ PutBatch(p) \/ PutPadded(p) \/ PutShort(p) \/ PutEndMark(p) \/ Carry(p)
        \/ UNCHANGED <<delivered, pipe, inhand, buffer, todo, part>>
    BY <1>7 DEF LoadDataProc, WaitStart, SeeStop, SeeNoStop, Crash, SkipShort, PutTimeout,
       PutAgain, GiveUp, DrainFiles, Exit
  <2>. QED
    BY <1>2, <2>1, <2>2, <2>3, <2>4
<1>8. \/ Build \/ GenGet \/ StopDrain \/ StopFinish
      \/ \E p \in Procs : LoadDataProc(p) \/ FeedTake(p) \/ FeedSend(p)
      \/ UNCHANGED <<delivered, pipe, inhand, buffer, todo, part>>
  BY DEF Next, BuildFails, GenStart, GenEmpty, StopUnstarted, StopBegin, StopTokenSent,
     Feeder, Rest, vars
<1>. QED
  BY <1>1, <1>2, <1>3, <1>4, <1>5, <1>6, <1>7, <1>8

(* The rows of a file are yielded in the order of the file, however they   *)
(* are cut into batches and carried from one file to the next.             *)
THEOREM FileOrderKept == Spec => []FileOrder
<1>1. Init => OrderInv
  <2>. SUFFICES ASSUME Init PROVE OrderInv
    OBVIOUS
  <2>1. /\ \A p \in Procs : /\ buffer[p] = <<>> /\ inhand[p] = <<>>
                            /\ part[p] = <<>> /\ todo[p] = <<>>
        /\ delivered = <<>> /\ pipe = <<>>
    BY DEF Init
  <2>2. \A m : \A c \in Ways, p \in Procs, n \in Nat : ~At(m, c, p, n)
    BY <2>1 DEF At
  <2>3. \A p \in Procs : \A r : ~Mine(p, r)
    BY <2>1, <2>2 DEF Mine, ToSet
  <2>. QED
    BY <2>1, <2>2, <2>3
       DEF OrderInv, MsgsInOrder, HeldInOrder, OneProc, InOrder, Apart
<1>2. TypeOK /\ EndMarkInv /\ EndsInv /\ RowsInv /\ OrderInv /\ [Next]_vars => OrderInv'
  BY OrderStep
<1>3. TypeOK /\ OrderInv => FileOrder
  <2>. SUFFICES ASSUME TypeOK, OrderInv,
                       NEW i \in DOMAIN delivered, NEW j \in DOMAIN delivered,
                       NEW a \in DOMAIN delivered[i].rows,
                       NEW b \in DOMAIN delivered[j].rows,
                       i < j \/ (i = j /\ a < b),
                       delivered[i].rows[a][1] = delivered[j].rows[b][1]
                PROVE  delivered[i].rows[a][2] < delivered[j].rows[b][2]
    BY DEF FileOrder
  <2>1. /\ DOMAIN delivered \subseteq Nat
        /\ \A k \in DOMAIN delivered : delivered[k].from \in Procs
    BY LenProperties, MsgsHaveSender DEF TypeOK
  <2>. DEFINE m == delivered[i]
              o == delivered[j]
  <2>2. /\ At(m, "yielded", m.from, i) /\ At(o, "yielded", o.from, j)
        /\ "yielded" \in Ways
    BY DEF At, Ways
  <2>3. m.rows[a] \in ToSet(m.rows) /\ o.rows[b] \in ToSet(o.rows)
    BY DEF ToSet
  <2>4. Mine(m.from, m.rows[a]) /\ Mine(o.from, o.rows[b])
    BY <2>1, <2>2, <2>3 DEF Mine
  <2>5. m.from = o.from
    BY <2>1, <2>4 DEF OrderInv, OneProc
  <2>6. CASE i < j
    <3>1. Before("yielded", i, "yielded", j)
      BY <2>6 DEF Before
    <3>2. Ahead(m.rows, o.rows)
      BY <2>1, <2>2, <2>5, <3>1, Zenon DEF OrderInv, MsgsInOrder
    <3>. QED
      BY <3>2 DEF Ahead
  <2>7. CASE i = j /\ a < b
    <3>1. InOrder(m.rows)
      BY <2>1, <2>2 DEF OrderInv, MsgsInOrder
    <3>. QED
      BY <2>7, <3>1 DEF InOrder
  <2>. QED
    BY <2>6, <2>7
<1>. QED
  BY <1>1, <1>2, <1>3, Typing, EndMarks, EndsReached, RowsAccounted, PTL DEF Spec

---------------------------------------------------------------------------
(* The stream the loader implements                                        *)

(* A batch that is yielded has 1 to BatchSize rows of the task, none of    *)
(* them yielded before and none of them twice.                             *)
LEMMA BatchYielded ==
  ASSUME TypeOK, AllSized, RowsInv, FileOrder', pipe # <<>>, ~Head(pipe).end,
         delivered' = Append(delivered, Head(pipe))
  PROVE  LET rows == Head(pipe).rows
         IN  /\ Len(rows) \in 1..BatchSize
             /\ rows \in [1..Len(rows) -> AllRows \ Yielded]
             /\ \A a, b \in 1..Len(rows) : rows[a] = rows[b] => a = b
<1>. DEFINE m == Head(pipe)
            N == Len(m.rows)
<1>1. /\ m = pipe[1] /\ 1 \in DOMAIN pipe /\ m \in Msgs /\ m.from \in Procs
      /\ m.rows \in Seq(Nat \X Nat)
  <2>1. pipe[1] = Head(pipe) /\ 1 \in DOMAIN pipe
    BY LenProperties, EmptySeq DEF TypeOK
  <2>2. pipe[1] \in Msgs
    BY <2>1, MsgsHaveSender DEF TypeOK
  <2>. QED
    BY <2>1, <2>2 DEF Msgs
<1>2. /\ DOMAIN m.rows = 1..N /\ N \in 1..BatchSize
      /\ m.rows \in [1..N -> Nat \X Nat]
  BY <1>1, LenProperties, CountsType DEF AllSized, Sized
<1>3. ASSUME NEW a \in 1..N PROVE m.rows[a] \in AllRows /\ m.rows[a] \notin Yielded
  <2>. DEFINE r == m.rows[a]
  <2>1. In(r, "pipe", m.from, 1)
    BY <1>1, <1>2 DEF In, Holds, ToSet
  <2>2. "pipe" \in Cells /\ "yielded" \in Cells /\ 1 \in Nat
    BY DEF Cells
  <2>3. r \in AllRows
    BY <1>1, <2>1, <2>2 DEF RowsInv, RowsTaken
  <2>4. ASSUME r \in Yielded PROVE FALSE
    <3>1. PICK p \in Procs, n \in Nat : In(r, "yielded", p, n)
      BY <2>4, YieldedPlaces
    <3>2. "pipe" = "yielded"
      BY <1>1, <2>1, <2>2, <3>1 DEF RowsInv, OnlyOnce
    <3>. QED
      BY <3>2
  <2>. QED
    BY <2>3, <2>4
<1>4. ASSUME NEW a \in 1..N, NEW b \in 1..N, a < b PROVE m.rows[a] # m.rows[b]
  <2>. DEFINE k == Len(delivered) + 1
  <2>1. k \in DOMAIN delivered' /\ delivered'[k] = m
    <3>1. m \in Msgs /\ delivered \in Seq(Msgs)
      BY <1>1 DEF TypeOK
    <3>2. Append(delivered, m)[k] = m /\ Len(Append(delivered, m)) = k
          /\ Append(delivered, m) \in Seq(Msgs) /\ Len(delivered) \in Nat
      BY <3>1, AppendProperties, LenProperties
    <3>3. DOMAIN Append(delivered, m) = 1..k
      BY <3>2, LenProperties
    <3>. QED
      BY <3>2, <3>3
  <2>2. m.rows[a][1] = m.rows[b][1] => m.rows[a][2] < m.rows[b][2]
    BY <1>2, <1>4, <2>1 DEF FileOrder
  <2>3. m.rows[a][2] \in Nat
    BY <1>2
  <2>. QED
    BY <2>2, <2>3
<1>. HIDE DEF m
<1>5. m.rows \in [1..N -> AllRows \ Yielded]
  BY <1>2, <1>3
<1>6. \A a, b \in 1..N : m.rows[a] = m.rows[b] => a = b
  <2>. SUFFICES ASSUME NEW a \in 1..N, NEW b \in 1..N, m.rows[a] = m.rows[b], a # b
                PROVE  FALSE
    OBVIOUS
  <2>1. a < b \/ b < a
    BY <1>2
  <2>. QED
    BY <1>4, <2>1
<1>. QED
  BY <1>2, <1>5, <1>6 DEF m

(* The batches of the stream are the rows of the messages yielded: one     *)
(* more message is one more batch.                                         *)
Batches == [i \in DOMAIN delivered |-> delivered[i].rows]

LEMMA BatchAppended ==
  ASSUME TypeOK, NEW m \in Msgs, delivered' = Append(delivered, m)
  PROVE  Batches' = Append(Batches, m.rows)
<1>. DEFINE k == Len(delivered) + 1
            R == Seq(Nat \X Nat)
<1>1. delivered \in Seq(Msgs) /\ Len(delivered) \in Nat /\ DOMAIN delivered = 1..Len(delivered)
      /\ \A i \in DOMAIN delivered : delivered[i] \in Msgs
  BY LenProperties, ElementOfSeq DEF TypeOK
<1>2. /\ DOMAIN delivered' = 1..k /\ delivered'[k] = m
      /\ \A i \in 1..Len(delivered) : delivered'[i] = delivered[i]
  <2>1. /\ Append(delivered, m) \in Seq(Msgs) /\ Len(Append(delivered, m)) = k
        /\ Append(delivered, m)[k] = m
        /\ \A i \in 1..Len(delivered) : Append(delivered, m)[i] = delivered[i]
    BY <1>1, AppendProperties
  <2>. QED
    BY <2>1, LenProperties
<1>3. Batches \in Seq(R) /\ Len(Batches) = Len(delivered)
  <2>1. Batches \in [1..Len(delivered) -> R]
    BY <1>1 DEF Batches, Msgs
  <2>. QED
    BY <1>1, <2>1, IsASeq, LenProperties
<1>4. m.rows \in R
  BY DEF Msgs
<1>5. /\ Append(Batches, m.rows) \in Seq(R) /\ Len(Append(Batches, m.rows)) = k
      /\ Append(Batches, m.rows)[k] = m.rows
      /\ \A i \in 1..Len(delivered) : Append(Batches, m.rows)[i] = Batches[i]
  BY <1>3, <1>4, AppendProperties
<1>6. Append(Batches, m.rows) = [i \in 1..k |-> Append(Batches, m.rows)[i]]
  BY <1>5, LenProperties
<1>7. ASSUME NEW i \in 1..k PROVE delivered'[i].rows = Append(Batches, m.rows)[i]
  <2>1. i = k \/ i \in 1..Len(delivered)
    BY <1>1
  <2>. QED
    BY <1>1, <1>2, <1>5, <2>1 DEF Batches
<1>. QED
  BY <1>2, <1>6, <1>7 DEF Batches

(* What is left of the stream is what the generator has not yielded.       *)
LEMMA LeftIsUnyielded ==
  ASSUME TypeOK
  PROVE  Stream!Left = AllRows \ Yielded
<1>1. UNION {Stream!Range(Batches[i]) : i \in DOMAIN Batches} = Yielded
  <2>1. ASSUME NEW i \in DOMAIN delivered PROVE Stream!Range(Batches[i]) = ToSet(delivered[i].rows)
    BY DEF Batches, Stream!Range, ToSet
  <2>2. DOMAIN Batches = DOMAIN delivered
    BY DEF Batches
  <2>. QED
    BY <2>1, <2>2 DEF Yielded, ToSet
<1>. QED
  BY <1>1 DEF Stream!Left, Batches

(* What is left when the generator ends is what drop_remainder may drop.   *)
LEMMA LittleLeft ==
  ASSUME TypeOK, EndMarkInv, EndsInv, RowsInv, ppc = "built", AllDone, pipe = <<>>
  PROVE  Cardinality(AllRows \ Yielded) <= IF Drop THEN NumProc * (BatchSize - 1) ELSE 0
<1>. DEFINE carried == UNION {ToSet(part[p]) : p \in Procs}
<1>1. Yielded \cup carried = AllRows /\ (~Drop => carried = {})
  BY AllYielded
<1>2. IsFiniteSet(carried) /\ Cardinality(carried) <= NumProc * (BatchSize - 1)
  BY FewCarried DEF EndsInv
<1>. HIDE DEF carried
<1>3. (AllRows \ Yielded) \in SUBSET carried
  BY <1>1
<1>4. /\ Cardinality(AllRows \ Yielded) <= Cardinality(carried)
      /\ Cardinality(AllRows \ Yielded) \in Nat /\ Cardinality(carried) \in Nat
  BY <1>2, <1>3, FS_Subset, FS_CardinalityType
<1>5. CASE Drop
  <2>1. NumProc * (BatchSize - 1) \in Int
    BY CountsType
  <2>. QED
    BY <1>2, <1>4, <1>5, <2>1
<1>6. CASE ~Drop
  <2>1. AllRows \ Yielded = {}
    BY <1>1, <1>3, <1>6
  <2>. QED
    BY <1>6, <2>1, FS_EmptySet
<1>. QED
  BY <1>5, <1>6

(* The instance counts as this module does.                                *)
LEMMA StreamCounts == \A S : Stream!Cardinality(S) = Cardinality(S)
  BY DEF Stream!Cardinality, Cardinality

(* The loader implements the stream of SampleStream: a batch has rows of   *)
(* the task of which none was yielded before or comes twice in it, and the *)
(* generator ends by itself only when no more are left than drop_remainder *)
(* may drop.                                                               *)
THEOREM LoaderIsStream == Spec => ImplementsStream
<1>1. Init => Stream!StreamInit
  <2>. SUFFICES ASSUME Init PROVE Stream!StreamInit
    OBVIOUS
  <2>1. Batches = <<>> /\ gen = "off"
    BY DEF Init, Batches
  <2>. QED
    BY <2>1 DEF Stream!StreamInit, Batches
<1>2. /\ TypeOK /\ EndMarkInv /\ EndsInv /\ AllSized /\ RowsInv /\ FileOrder'
      /\ [Next]_vars
      => [Stream!StreamNext]_(Stream!streamVars)
  <2>. SUFFICES ASSUME TypeOK, EndMarkInv, EndsInv, AllSized, RowsInv, FileOrder',
                       [Next]_vars
                PROVE  Stream!StreamNext \/ UNCHANGED Stream!streamVars
    OBVIOUS
  <2>. USE DEF parentVars, tokenVars, procVars, queVars, genVars
  <2>1. CASE Build
    <3>1. gen # "running" /\ gen # "on"
      BY <2>1 DEF Build, MayBuild, EndsInv, ControlInv, TypeOK
    <3>2. Batches' = <<>> /\ gen' = "off"
      BY <2>1 DEF Build, Batches
    <3>3. Stream!Open
      BY <3>1, <3>2 DEF Stream!Open, Batches
    <3>. QED
      BY <3>3 DEF Stream!StreamNext
  <2>2. CASE UNCHANGED <<delivered, gen>>
    BY <2>2 DEF Stream!streamVars
  <2>3. CASE GenStart
    <3>1. gen = "off" /\ gen' = "running" /\ delivered' = delivered
      BY <2>3 DEF GenStart
    <3>2. Stream!Start
      BY <3>1 DEF Stream!Start
    <3>. QED
      BY <3>2 DEF Stream!StreamNext
  <2>4. CASE GenGet
    <3>1. CASE Head(pipe).end
      BY <2>2, <2>4, <3>1 DEF GenGet
    <3>2. CASE ~Head(pipe).end
      <4>1. /\ gen = "running" /\ gen' = gen /\ pipe # <<>>
            /\ delivered' = Append(delivered, Head(pipe))
        BY <2>4, <3>2 DEF GenGet
      <4>. DEFINE rows == Head(pipe).rows
      <4>2. Head(pipe) \in Msgs
        <5>1. pipe[1] = Head(pipe) /\ 1 \in DOMAIN pipe
          BY <4>1, LenProperties, EmptySeq DEF TypeOK
        <5>. QED
          BY <5>1, MsgsHaveSender DEF TypeOK
      <4>3. Batches' = Append(Batches, rows)
        BY <4>1, <4>2, BatchAppended
      <4>4. Len(rows) \in 1..BatchSize /\ rows \in Stream!Injection(1..Len(rows), Stream!Left)
        <5>1. /\ Len(rows) \in 1..BatchSize
              /\ rows \in [1..Len(rows) -> Stream!Left]
              /\ \A a, b \in 1..Len(rows) : rows[a] = rows[b] => a = b
          BY <3>2, <4>1, BatchYielded, LeftIsUnyielded
        <5>. QED
          BY <5>1 DEF Stream!Injection, Stream!IsInjective
      <4>5. Stream!Yield
        BY <4>1, <4>3, <4>4 DEF Stream!Yield, Batches
      <4>. QED
        BY <4>5 DEF Stream!StreamNext
    <3>. QED
      BY <3>1, <3>2
  <2>5. CASE GenEmpty
    <3>1. CASE ~AllDone
      BY <2>2, <2>5, <3>1 DEF GenEmpty
    <3>2. CASE AllDone
      <4>1. /\ gen = "running" /\ gen' = "ended" /\ delivered' = delivered
            /\ ppc = "built" /\ pipe = <<>>
        BY <2>5, <3>2 DEF GenEmpty
      <4>2. Cardinality(AllRows \ Yielded)
              <= IF Drop THEN NumProc * (BatchSize - 1) ELSE 0
        BY <3>2, <4>1, LittleLeft
      <4>3. Stream!End
        BY <4>1, <4>2, LeftIsUnyielded, StreamCounts DEF Stream!End
      <4>. QED
        BY <4>3 DEF Stream!StreamNext
    <3>. QED
      BY <3>1, <3>2
  <2>6. CASE StopBegin
    <3>1. gen' = "off" /\ delivered' = delivered
      BY <2>6 DEF StopBegin
    <3>2. Stream!Abandon
      BY <3>1 DEF Stream!Abandon
    <3>. QED
      BY <3>2 DEF Stream!StreamNext
  <2>7. \/ Build \/ GenStart \/ GenGet \/ GenEmpty \/ StopBegin
        \/ UNCHANGED <<delivered, gen>>
    <3>1. ASSUME NEW p \in Procs, LoadDataProc(p) \/ Feeder(p)
          PROVE  UNCHANGED <<delivered, gen>>
      BY <3>1, ProcTouches DEF Feeder, FeedTake, FeedSend
    <3>. QED
      BY <3>1 DEF Next, BuildFails, StopUnstarted, StopTokenSent, StopDrain, StopFinish,
         Rest, vars
  <2>. QED
    BY <2>1, <2>2, <2>3, <2>4, <2>5, <2>6, <2>7
<1>. QED
  BY <1>1, <1>2, Typing, EndMarks, EndsReached, RowsAccounted, FileOrderKept, PTL
     DEF Spec, ImplementsStream, Stream!StreamSpec
=============================================================================
