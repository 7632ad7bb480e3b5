------------------------- MODULE IncrUpdates_proof -------------------------
(***************************************************************************)
(* What the incremental updates guarantee for any number of workers, rows, *)
(* steps and restarts.                                                     *)
(***************************************************************************)
EXTENDS IncrUpdates, TLAPS

Kinds == {"save", "dense", "sparse"}
Values == Nat \X Nat

(* Every variable keeps its type; what the hook has read is of rows.       *)
ChiefType ==
  /\ chief = [at |-> chief.at, next |-> chief.next, stale |-> chief.stale,
              key |-> chief.key, flight |-> chief.flight, todo |-> chief.todo,
              took |-> chief.took, got |-> chief.got, save |-> chief.save,
              dense |-> chief.dense, sparse |-> chief.sparse]
  /\ chief.at \in Kinds \cup {"session", "saving", "loop", "run", "sending", "reading",
                              "end", "ended"}
  /\ chief.next \in {"loop", "dense", "sparse", "end"}
  /\ chief.stale \in 0..gstep /\ chief.key \in -1..gstep
  /\ chief.save \in 0..gstep /\ chief.dense \in 0..gstep /\ chief.sparse \in 0..gstep
  /\ chief.flight \in SUBSET Rows /\ chief.todo \in SUBSET Reads
  /\ chief.took \in SUBSET Rows /\ DOMAIN chief.got \in SUBSET Rows
  /\ chief.got \in [DOMAIN chief.got -> Values]

RunType ==
  /\ run \in [Workers -> [at : {"idle", "apply", "record"}, batch : SUBSET Rows,
                          todo : SUBSET (Vars \cup {Dense})]]
  /\ \A w \in Workers : run[w].at = "record" => run[w].todo \subseteq Vars

KeysType ==
  /\ keys = [dense |-> keys.dense, sparse |-> keys.sparse]
  /\ keys.dense \in Nat \cup {-1} /\ keys.sparse \in Nat \cup {-1}

CkptType ==
  /\ ckpt = [step |-> ckpt.step, ver |-> ckpt.ver]
  /\ ckpt.step \in Nat /\ ckpt.ver \in [Places -> Values]

IncrTypeOK ==
  /\ setting \in Settings /\ lives \in Nat /\ gstep \in Nat
  /\ ver \in [Places -> Values] /\ served \in [Places -> Values]
  /\ recorded \in SUBSET Rows /\ missed \in SUBSET Rows /\ lost \in SUBSET Places
  /\ ChiefType /\ RunType /\ KeysType /\ CkptType

---------------------------------------------------------------------------
(* The constants: every row is in an embedding, Dense is neither, and the  *)
(* settings are periods.                                                   *)
LEMMA Constants ==
  /\ \A r \in Rows : VarOf[r] \in Vars
  /\ Dense \notin Rows /\ Dense \notin Vars
  /\ \A b \in Batches : b \subseteq Rows
  /\ \A s \in Settings : /\ s.redundant \in BOOLEAN
                         /\ s.dense \in Nat \ {0} /\ s.sparse \in Nat \ {0}
  /\ Chief \in Workers
  BY IncrAssumption, ClusterAssumption DEF Vars

(* After a run the hook goes on to one of the kinds asked for, or loops.   *)
LEMMA FirstDueIsKind ==
  ASSUME NEW kinds \in SUBSET Kinds, NEW stale
  PROVE  FirstDue(kinds, stale) \in kinds \cup {"loop"}
  BY DEF FirstDue, Kinds

(* Rows of runs that have advanced the step are rows.                      *)
LEMMA InFlightAreRows ==
  ASSUME RunType PROVE InFlight \in SUBSET Rows
  BY DEF InFlight, Unrecorded, RunType, RowsOf

(* The values sent take the place of those served before.                  *)
LEMMA OverServes ==
  ASSUME NEW S \in SUBSET Rows, NEW f \in [S -> Values], NEW g \in [Places -> Values]
  PROVE  /\ Over(f, g) \in [Places -> Values]
         /\ \A r \in S : Over(f, g)[r] = f[r]
         /\ \A x \in Places \ S : Over(f, g)[x] = g[x]
<1>1. DOMAIN f = S /\ DOMAIN g = Places /\ S \cup Places = Places
  BY DEF Places
<1> QED
  BY <1>1 DEF Over

(* ... and those read the place of what was read before.                   *)
LEMMA OverReads ==
  ASSUME NEW S \in SUBSET Rows, NEW T \in SUBSET Rows, NEW f \in [S -> Values],
         NEW g \in [T -> Values]
  PROVE  /\ Over(f, g) \in [S \cup T -> Values]
         /\ \A r \in S : Over(f, g)[r] = f[r]
         /\ \A r \in T \ S : Over(f, g)[r] = g[r]
<1>1. DOMAIN f = S /\ DOMAIN g = T
  OBVIOUS
<1> QED
  BY <1>1 DEF Over

(* Types hold at first.                                                    *)
LEMMA TypesInit == IncrInit => IncrTypeOK
<1> SUFFICES ASSUME IncrInit PROVE IncrTypeOK
  OBVIOUS
<1>1. ChiefType
  BY DEF IncrInit, ChiefType, NewChief, NoValues, Kinds
<1>2. RunType
  BY DEF IncrInit, RunType, NewRun
<1>3. KeysType
  BY DEF IncrInit, KeysType, NoKeys
<1>4. CkptType
  BY DEF IncrInit, CkptType, Values
<1> QED
  BY <1>1, <1>2, <1>3, <1>4 DEF IncrInit, IncrTypeOK, Values

(* A worker's step keeps the types.                                        *)
LEMMA TypesTrain ==
  ASSUME IncrTypeOK, NEW w \in Workers, Train(w)
  PROVE  IncrTypeOK'
<1>1. CASE Begin(w)
  <2>1. RunType'
    BY <1>1, Constants DEF Begin, IncrTypeOK, RunType
  <2>2. ChiefType'
    <3>1. CASE w = Chief
      <4>1. chief' = [chief EXCEPT !.at = "run", !.stale = gstep, !.key = -1, !.flight = {}]
        BY <1>1, <3>1 DEF Begin
      <4>2. gstep' = gstep /\ gstep \in Nat /\ ChiefType
        BY <1>1 DEF Begin, IncrTypeOK
      <4>3. /\ chief'.at = "run" /\ chief'.stale = gstep /\ chief'.key = -1 /\ chief'.flight = {}
            /\ chief'.next = chief.next /\ chief'.todo = chief.todo /\ chief'.took = chief.took
            /\ chief'.got = chief.got /\ chief'.save = chief.save
            /\ chief'.dense = chief.dense /\ chief'.sparse = chief.sparse
        BY <4>1, <4>2 DEF ChiefType
      <4>4. chief' = [at |-> chief'.at, next |-> chief'.next, stale |-> chief'.stale,
              key |-> chief'.key, flight |-> chief'.flight, todo |-> chief'.todo,
              took |-> chief'.took, got |-> chief'.got, save |-> chief'.save,
              dense |-> chief'.dense, sparse |-> chief'.sparse]
        BY <4>1, <4>2 DEF ChiefType
      <4> QED
        BY <4>2, <4>3, <4>4 DEF ChiefType
    <3>2. CASE w # Chief
      BY <1>1, <3>2 DEF Begin, IncrTypeOK, ChiefType
    <3> QED
      BY <3>1, <3>2
  <2> QED
    BY <1>1, <2>1, <2>2 DEF Begin, IncrTypeOK, KeysType, CkptType, sentVars
<1>2. CASE Advance(w)
  <2>1. RunType'
    <3> DEFINE new == [at |-> "record", batch |-> run[w].batch, todo |-> Vars]
    <3>1. run' = [run EXCEPT ![w] = new]
      BY <1>2 DEF Advance
    <3>2. /\ new \in [at : {"idle", "apply", "record"}, batch : SUBSET Rows,
                      todo : SUBSET (Vars \cup {Dense})]
          /\ new.todo \subseteq Vars
      BY DEF IncrTypeOK, RunType
    <3> HIDE DEF new
    <3> QED
      BY <3>1, <3>2 DEF IncrTypeOK, RunType
  <2>2. ChiefType'
    BY <1>2 DEF Advance, IncrTypeOK, ChiefType, Kinds
  <2> QED
    BY <1>2, <2>1, <2>2 DEF Advance, IncrTypeOK, KeysType, CkptType, sentVars
<1>3. ASSUME NEW v \in Vars, Record(w, v) PROVE IncrTypeOK'
  <2>1. RunType'
    <3>1. /\ Recorded(w, v) \in [at : {"idle", "apply", "record"}, batch : SUBSET Rows,
                                 todo : SUBSET (Vars \cup {Dense})]
          /\ Recorded(w, v).at = "record" => Recorded(w, v).todo \subseteq Vars
      BY <1>3 DEF Record, Recorded, IncrTypeOK, RunType, NewRun
    <3>2. run' = [run EXCEPT ![w] = Recorded(w, v)]
      BY <1>3 DEF Record
    <3> QED
      BY <3>1, <3>2 DEF IncrTypeOK, RunType
  <2>2. ChiefType'
    BY <1>3 DEF Record, IncrTypeOK, ChiefType
  <2>3. recorded' \in SUBSET Rows
    BY <1>3 DEF Record, IncrTypeOK, RunType, RowsOf
  <2> QED
    BY <1>3, <2>1, <2>2, <2>3 DEF Record, IncrTypeOK, KeysType, CkptType, sentVars
<1>4. ASSUME NEW v \in Vars \cup {Dense}, Apply(w, v) PROVE IncrTypeOK'
  <2>1. RunType'
    BY <1>4, Constants DEF Apply, IncrTypeOK, RunType
  <2>2. ChiefType'
    BY <1>4 DEF Apply, IncrTypeOK, ChiefType
  <2>3. ver' \in [Places -> Values]
    <3>1. \A x \in Places : Updated(ver[x]) \in Values /\ ver[x] \in Values
      BY DEF IncrTypeOK, Updated, Values
    <3> QED
      BY <1>4, <3>1 DEF Apply
  <2> QED
    BY <1>4, <2>1, <2>2, <2>3 DEF Apply, IncrTypeOK, KeysType, CkptType, sentVars
<1> QED
  BY <1>1, <1>2, <1>3, <1>4 DEF Train

(* A step of the hook keeps the types.                                     *)
LEMMA TypesHook ==
  ASSUME IncrTypeOK, SaveHook
  PROVE  IncrTypeOK'
<1> USE DEF Kinds
<1>1. CASE AfterRun
  <2>1. PICK step \in chief.stale..gstep :
          chief' = [chief EXCEPT !.stale = step,
                                 !.at = FirstDue({"save", "dense", "sparse"}, step)]
    BY <1>1 DEF AfterRun
  <2>2. FirstDue({"save", "dense", "sparse"}, step) \in {"save", "dense", "sparse", "loop"}
    BY FirstDueIsKind
  <2>3. step \in 0..gstep
    BY DEF IncrTypeOK, ChiefType
  <2>4. ChiefType'
    BY <1>1, <2>1, <2>2, <2>3 DEF AfterRun, IncrTypeOK, ChiefType, trainVars
  <2> QED
    BY <1>1, <2>4 DEF AfterRun, IncrTypeOK, RunType, KeysType, CkptType, trainVars, sentVars
<1>2. CASE SaveBegin
  <2>0. gstep' = gstep /\ gstep \in 0..gstep
    BY <1>2 DEF SaveBegin, trainVars, IncrTypeOK
  <2>1. FirstDue({"dense", "sparse"}, chief.stale) \in {"dense", "sparse", "loop"}
    BY FirstDueIsKind
  <2>2. ChiefType'
    <3>1. CASE chief.at = "session"
      <4>1. chief' = [chief EXCEPT !.at = "saving", !.save = gstep]
        BY <1>2, <3>1 DEF SaveBegin
      <4> QED
        BY <2>0, <4>1 DEF IncrTypeOK, ChiefType
    <3>2. CASE chief.at = "save" /\ Triggers(chief.save, setting.save, gstep)
      <4>1. chief' = [chief EXCEPT !.at = "saving", !.save = gstep,
                                   !.next = FirstDue({"dense", "sparse"}, chief.stale)]
        BY <1>2, <3>2 DEF SaveBegin
      <4> QED
        BY <2>0, <2>1, <4>1 DEF IncrTypeOK, ChiefType
    <3>3. CASE chief.at = "save" /\ ~Triggers(chief.save, setting.save, gstep)
      BY <1>2, <2>1, <3>3 DEF SaveBegin, IncrTypeOK, ChiefType, trainVars
    <3>4. CASE chief.at = "end"
      <4>1. chief' = [chief EXCEPT !.at = "saving", !.save = gstep]
        BY <1>2, <3>4 DEF SaveBegin
      <4> QED
        BY <2>0, <4>1 DEF IncrTypeOK, ChiefType
    <3> QED
      BY <1>2, <3>1, <3>2, <3>3, <3>4 DEF SaveBegin
  <2> QED
    BY <1>2, <2>2 DEF SaveBegin, IncrTypeOK, RunType, KeysType, CkptType, trainVars, sentVars
<1>3. CASE SaveVars
  <2>1. ChiefType'
    BY <1>3 DEF SaveVars, IncrTypeOK, ChiefType, trainVars
  <2>2. CkptType'
    BY <1>3 DEF SaveVars, IncrTypeOK, ChiefType, CkptType
  <2> QED
    BY <1>3, <2>1, <2>2 DEF SaveVars, IncrTypeOK, RunType, KeysType, trainVars, sentVars
<1>4. CASE DenseBegin
  <2>0. gstep' = gstep /\ gstep \in 0..gstep
    BY <1>4 DEF DenseBegin, trainVars, IncrTypeOK
  <2>1. FirstDue({"sparse"}, chief.stale) \in {"sparse", "loop"}
    BY FirstDueIsKind
  <2>2. InFlight \in SUBSET Rows
    BY InFlightAreRows DEF IncrTypeOK
  <2>3. PICK then \in {"end", "sparse", "loop"} :
          chief' = [chief EXCEPT !.at = "sending", !.key = gstep, !.flight = InFlight,
                                 !.dense = gstep, !.next = then]
    BY <1>4, <2>1 DEF DenseBegin
  <2>4. ChiefType'
    <3>1. chief' = [at |-> chief'.at, next |-> chief'.next, stale |-> chief'.stale,
                   key |-> chief'.key, flight |-> chief'.flight, todo |-> chief'.todo,
                   took |-> chief'.took, got |-> chief'.got, save |-> chief'.save,
                   dense |-> chief'.dense, sparse |-> chief'.sparse]
      BY <2>3 DEF IncrTypeOK, ChiefType
    <3>2. /\ chief'.at = "sending" /\ chief'.key = gstep /\ chief'.flight = InFlight
          /\ chief'.dense = gstep /\ chief'.next = then /\ chief'.stale = chief.stale
          /\ chief'.todo = chief.todo /\ chief'.took = chief.took /\ chief'.got = chief.got
          /\ chief'.save = chief.save /\ chief'.sparse = chief.sparse
      BY <2>3 DEF IncrTypeOK, ChiefType
    <3> QED
      BY <2>0, <2>2, <3>1, <3>2 DEF IncrTypeOK, ChiefType
  <2> QED
    BY <1>4, <2>4 DEF DenseBegin, IncrTypeOK, RunType, KeysType, CkptType, trainVars, sentVars
<1>5. CASE SendDense
  <2>1. ChiefType'
    BY <1>5 DEF SendDense, IncrTypeOK, ChiefType, trainVars
  <2>2. KeysType'
    BY <1>5 DEF SendDense, IncrTypeOK, ChiefType, KeysType
  <2>3. served' \in [Places -> Values] /\ lost' \in SUBSET Places
    BY <1>5 DEF SendDense, IncrTypeOK, Places
  <2> QED
    BY <1>5, <2>1, <2>2, <2>3 DEF SendDense, IncrTypeOK, RunType, CkptType, trainVars
<1>6. CASE SparseBegin
  <2>0. gstep' = gstep /\ gstep \in 0..gstep
    BY <1>6 DEF SparseBegin, trainVars, IncrTypeOK
  <2>1. InFlight \in SUBSET Rows
    BY InFlightAreRows DEF IncrTypeOK
  <2>2. missed' \in SUBSET Rows
    BY <1>6, <2>1 DEF SparseBegin, IncrTypeOK, ChiefType
  <2> DEFINE key == IF chief.at = "end" \/ chief.key = -1 THEN gstep ELSE chief.key
  <2> DEFINE then == IF chief.at = "end" THEN "end" ELSE "loop"
  <2>3. chief' = [chief EXCEPT !.at = "reading", !.key = key, !.sparse = key,
                               !.todo = Reads, !.next = then]
    BY <1>6 DEF SparseBegin
  <2>4. key \in 0..gstep /\ then \in {"end", "loop"}
    BY <2>0 DEF IncrTypeOK, ChiefType
  <2> HIDE DEF key, then
  <2>5. ChiefType'
    <3>1. chief' = [at |-> chief'.at, next |-> chief'.next, stale |-> chief'.stale,
                   key |-> chief'.key, flight |-> chief'.flight, todo |-> chief'.todo,
                   took |-> chief'.took, got |-> chief'.got, save |-> chief'.save,
                   dense |-> chief'.dense, sparse |-> chief'.sparse]
      BY <2>3 DEF IncrTypeOK, ChiefType
    <3>2. /\ chief'.at = "reading" /\ chief'.key = key /\ chief'.sparse = key
          /\ chief'.todo = Reads /\ chief'.next = then /\ chief'.stale = chief.stale
          /\ chief'.flight = chief.flight /\ chief'.took = chief.took
          /\ chief'.got = chief.got /\ chief'.save = chief.save /\ chief'.dense = chief.dense
      BY <2>3 DEF IncrTypeOK, ChiefType
    <3> QED
      BY <2>0, <2>4, <3>1, <3>2 DEF IncrTypeOK, ChiefType
  <2> QED
    BY <1>6, <2>2, <2>5 DEF SparseBegin, IncrTypeOK, RunType, KeysType, CkptType, trainVars
<1>7. CASE SendSparse
  <2>1. ChiefType'
    BY <1>7 DEF SendSparse, IncrTypeOK, ChiefType, trainVars, NoValues
  <2>2. KeysType'
    BY <1>7 DEF SendSparse, IncrTypeOK, ChiefType, KeysType
  <2>3. served' \in [Places -> Values] /\ lost' \in SUBSET Places
    BY <1>7, OverServes DEF SendSparse, IncrTypeOK, ChiefType
  <2> QED
    BY <1>7, <2>1, <2>2, <2>3 DEF SendSparse, IncrTypeOK, RunType, CkptType, trainVars
<1>8. ASSUME NEW v \in Vars, Get(v) PROVE IncrTypeOK'
  <2>1. ChiefType'
    BY <1>8 DEF Get, IncrTypeOK, ChiefType, RowsOf
  <2> QED
    BY <1>8, <2>1 DEF Get, IncrTypeOK, RunType, KeysType, CkptType, sentVars
<1>9. ASSUME NEW v \in Vars, Gather(v) PROVE IncrTypeOK'
  <2> DEFINE rows == RowsOf({v}, chief.took)
  <2> DEFINE read == [r \in rows |-> ver[r]]
  <2>1. rows \in SUBSET Rows /\ read \in [rows -> Values]
    BY DEF RowsOf, IncrTypeOK, ChiefType, Places
  <2>2. Over(read, chief.got) \in [rows \cup DOMAIN chief.got -> Values]
    BY <2>1, OverReads DEF IncrTypeOK, ChiefType
  <2>3. chief' = [chief EXCEPT !.todo = @ \ {<<"gather", v>>}, !.took = @ \ rows,
                               !.got = Over(read, @)]
    BY <1>9 DEF Gather
  <2> HIDE DEF read, rows
  <2>4. ChiefType'
    <3>1. gstep' = gstep /\ chief.todo \ {<<"gather", v>>} \in SUBSET Reads
      BY <1>9 DEF Gather, IncrTypeOK, ChiefType, trainVars
    <3>2. chief.took \ rows \in SUBSET Rows /\ rows \cup DOMAIN chief.got \in SUBSET Rows
      BY <2>1 DEF IncrTypeOK, ChiefType
    <3>3. /\ DOMAIN Over(read, chief.got) \in SUBSET Rows
          /\ Over(read, chief.got) \in [DOMAIN Over(read, chief.got) -> Values]
      BY <2>2, <3>2, Zenon
    <3>4. chief' = [at |-> chief.at, next |-> chief.next, stale |-> chief.stale,
                    key |-> chief.key, flight |-> chief.flight,
                    todo |-> chief.todo \ {<<"gather", v>>}, took |-> chief.took \ rows,
                    got |-> Over(read, chief.got), save |-> chief.save,
                    dense |-> chief.dense, sparse |-> chief.sparse]
      <4> DEFINE c == chief
      <4>1. c = [at |-> c.at, next |-> c.next, stale |-> c.stale, key |-> c.key,
                 flight |-> c.flight, todo |-> c.todo, took |-> c.took, got |-> c.got,
                 save |-> c.save, dense |-> c.dense, sparse |-> c.sparse]
        BY DEF IncrTypeOK, ChiefType
      <4> QED
        BY <2>3, <4>1
    <3> QED
      BY <3>1, <3>2, <3>3, <3>4 DEF IncrTypeOK, ChiefType
  <2> QED
    BY <1>9, <2>4 DEF Gather, IncrTypeOK, RunType, KeysType, CkptType, trainVars, sentVars
<1>10. CASE EndBegin
  <2>1. ChiefType'
    BY <1>10 DEF EndBegin, IncrTypeOK, ChiefType, trainVars
  <2> QED
    BY <1>10, <2>1 DEF EndBegin, IncrTypeOK, RunType, KeysType, CkptType, trainVars, sentVars
<1>11. CASE End
  <2>1. ChiefType'
    BY <1>11 DEF End, IncrTypeOK, ChiefType, trainVars
  <2> QED
    BY <1>11, <2>1 DEF End, IncrTypeOK, RunType, KeysType, CkptType, trainVars, sentVars
<1> QED
  BY <1>1, <1>2, <1>3, <1>4, <1>5, <1>6, <1>7, <1>8, <1>9, <1>10, <1>11 DEF SaveHook

(* So does a restart.                                                      *)
LEMMA TypesRestart ==
  ASSUME IncrTypeOK, Restart
  PROVE  IncrTypeOK'
<1>1. ChiefType'
  BY DEF Restart, IncrTypeOK, CkptType, ChiefType, NewChief, NoValues, Kinds
<1>2. RunType'
  BY DEF Restart, RunType, NewRun
<1>3. KeysType'
  BY DEF Restart, KeysType, NoKeys
<1> QED
  BY <1>1, <1>2, <1>3 DEF Restart, IncrTypeOK, CkptType

(* Types are kept.                                                         *)
LEMMA TypesStep == IncrTypeOK /\ [IncrNext]_vars => IncrTypeOK'
<1> SUFFICES ASSUME IncrTypeOK, [IncrNext]_vars PROVE IncrTypeOK'
  OBVIOUS
<1>1. CASE UNCHANGED vars
  BY <1>1 DEF vars, trainVars, sentVars, IncrTypeOK, ChiefType, RunType, KeysType, CkptType
<1> QED
  BY <1>1, TypesTrain, TypesHook, TypesRestart DEF IncrNext, Ended

---------------------------------------------------------------------------
(* Values that were read are those of the variables, or the row is on its  *)
(* way again.                                                              *)
GotFresh ==
  \A r \in DOMAIN chief.got : chief.got[r] = ver[r] \/ r \in recorded \cup Pending

(* Rows are in the chief's hand only while it reads: a row is taken, then  *)
(* its value is read, once in a message.                                   *)
HandOfReading ==
  /\ \A r \in chief.took : <<"gather", VarOf[r]>> \in chief.todo
  /\ \A v \in Vars : <<"get", v>> \in chief.todo => <<"gather", v>> \in chief.todo
  /\ \A r \in DOMAIN chief.got : <<"gather", VarOf[r]>> \notin chief.todo
  /\ chief.at # "reading" => chief.todo = {} /\ DOMAIN chief.got = {}

RowsInv == NothingUnsent /\ GotFresh /\ HandOfReading

(* An update puts its row on its way, and a row leaves that way by being   *)
(* recorded only.                                                          *)
OnTheWay ==
  /\ \A r \in Rows : ver'[r] = ver[r] \/ r \in Pending'
  /\ Pending \subseteq recorded' \cup Pending'
  /\ recorded \subseteq recorded'

(* So does every step of a worker.                                         *)
LEMMA TrainOnTheWay ==
  ASSUME IncrTypeOK, NEW w \in Workers, Train(w)
  PROVE  OnTheWay
<1>1. SUFFICES /\ \A r \in Rows : ver'[r] = ver[r] \/ r \in Unrecorded(w)'
               /\ Unrecorded(w) \subseteq recorded' \cup Unrecorded(w)'
               /\ recorded \subseteq recorded'
               /\ \A u \in Workers \ {w} : Unrecorded(u)' = Unrecorded(u)
  <2>1. Unrecorded(w)' \subseteq Pending'
    BY DEF Pending
  <2>2. ASSUME NEW r \in Pending PROVE r \in recorded' \cup Pending'
    <3>1. PICK u \in Workers : r \in Unrecorded(u)
      BY DEF Pending
    <3>2. CASE u = w
      BY <1>1, <2>1, <3>1, <3>2
    <3>3. CASE u # w
      <4>1. r \in Unrecorded(u)'
        BY <1>1, <3>1, <3>3
      <4> QED
        BY <4>1 DEF Pending
    <3> QED
      BY <3>2, <3>3
  <2> QED
    BY <1>1, <2>1, <2>2 DEF OnTheWay
<1>2. ASSUME \A u \in Workers \ {w} : run'[u] = run[u]
      PROVE  \A u \in Workers \ {w} : Unrecorded(u)' = Unrecorded(u)
  BY <1>2 DEF Unrecorded
<1>3. Workers = DOMAIN run /\ run[w].batch \in SUBSET Rows
  BY DEF IncrTypeOK, RunType
<1>4. CASE Begin(w)
  <2>1. run[w].at = "idle" /\ ver' = ver /\ recorded' = recorded
        /\ \A u \in Workers \ {w} : run'[u] = run[u]
    BY <1>3, <1>4 DEF Begin
  <2>2. Unrecorded(w) = {}
    BY <2>1 DEF Unrecorded
  <2> QED
    BY <1>2, <2>1, <2>2
<1>5. CASE Advance(w)
  <2>1. /\ run[w].at = "apply" /\ ver' = ver /\ recorded' = recorded
        /\ \A u \in Workers \ {w} : run'[u] = run[u]
        /\ run'[w] = [at |-> "record", batch |-> run[w].batch, todo |-> Vars]
    BY <1>3, <1>5 DEF Advance
  <2>2. Unrecorded(w)' = RowsOf(Vars, run[w].batch)
    BY <2>1 DEF Unrecorded
  <2>3. Unrecorded(w) \subseteq run[w].batch
    BY <2>1 DEF Unrecorded
  <2>4. RowsOf(Vars, run[w].batch) = run[w].batch
    BY <1>3, Constants DEF RowsOf
  <2> QED
    BY <1>2, <2>1, <2>2, <2>3, <2>4
<1>6. ASSUME NEW v \in Vars, Record(w, v)
      PROVE  /\ \A r \in Rows : ver'[r] = ver[r] \/ r \in Unrecorded(w)'
             /\ Unrecorded(w) \subseteq recorded' \cup Unrecorded(w)'
             /\ recorded \subseteq recorded'
             /\ \A u \in Workers \ {w} : Unrecorded(u)' = Unrecorded(u)
  <2>1. /\ run[w].at = "record" /\ ver' = ver
        /\ recorded' = recorded \cup RowsOf({v}, run[w].batch)
        /\ \A u \in Workers \ {w} : run'[u] = run[u]
        /\ run'[w] = Recorded(w, v)
    BY <1>3, <1>6 DEF Record
  <2>2. Unrecorded(w) = RowsOf(run[w].todo, run[w].batch)
    BY <2>1 DEF Unrecorded
  <2>3. CASE run[w].todo \ {v} = {}
    <3>1. RowsOf(run[w].todo, run[w].batch) \subseteq RowsOf({v}, run[w].batch)
      BY <2>3 DEF RowsOf
    <3> QED
      BY <1>2, <2>1, <2>2, <3>1
  <2>4. CASE run[w].todo \ {v} # {}
    <3>1. run'[w] = [at |-> "record", batch |-> run[w].batch, todo |-> run[w].todo \ {v}]
      BY <2>1, <2>4 DEF Recorded
    <3>2. Unrecorded(w)' = RowsOf(run[w].todo \ {v}, run[w].batch)
      BY <3>1 DEF Unrecorded
    <3>3. RowsOf(run[w].todo, run[w].batch) \subseteq
            RowsOf({v}, run[w].batch) \cup RowsOf(run[w].todo \ {v}, run[w].batch)
      BY DEF RowsOf
    <3> QED
      BY <1>2, <2>1, <2>2, <3>2, <3>3
  <2> QED
    BY <2>3, <2>4
<1>7. ASSUME NEW v \in Vars \cup {Dense}, Apply(w, v)
      PROVE  /\ \A r \in Rows : ver'[r] = ver[r] \/ r \in Unrecorded(w)'
             /\ Unrecorded(w) \subseteq recorded' \cup Unrecorded(w)'
             /\ recorded \subseteq recorded'
             /\ \A u \in Workers \ {w} : Unrecorded(u)' = Unrecorded(u)
  <2>1. /\ run[w].at = "apply" /\ recorded' = recorded
        /\ \A u \in Workers \ {w} : run'[u] = run[u]
        /\ run'[w].at = "apply" /\ run'[w].batch = run[w].batch
        /\ run'[w].todo = run[w].todo \ {v}
    BY <1>3, <1>7 DEF Apply, IncrTypeOK, RunType
  <2>2. /\ Unrecorded(w) = {r \in run[w].batch : VarOf[r] \notin run[w].todo}
        /\ Unrecorded(w)' = {r \in run[w].batch : VarOf[r] \notin run[w].todo \ {v}}
    BY <2>1 DEF Unrecorded
  <2>3. \A r \in Rows : ver'[r] = ver[r] \/ r \in RowsOf({v}, run[w].batch)
    BY <1>7, Constants DEF Apply, Places, IncrTypeOK
  <2>4. RowsOf({v}, run[w].batch) \subseteq Unrecorded(w)'
    BY <2>2 DEF RowsOf
  <2> QED
    BY <1>2, <2>1, <2>2, <2>3, <2>4
<1> QED
  BY <1>4, <1>5, <1>6, <1>7 DEF Train

(* The rows are accounted for at first.                                    *)
LEMMA RowsInit == IncrInit => RowsInv
  BY DEF IncrInit, RowsInv, NothingUnsent, GotFresh, HandOfReading, NewChief, NoValues, Places

(* A step that only moves the hook on, outside its reading.                *)
LEMMA RowsKept ==
  ASSUME IncrTypeOK, RowsInv, UNCHANGED trainVars,
         \A r \in Rows : served'[r] = served[r], lost \cap Rows = lost' \cap Rows,
         chief'.took = chief.took, chief'.got = chief.got, chief'.todo = chief.todo,
         chief.at # "reading", chief'.at # "reading"
  PROVE  RowsInv'
<1>1. Pending' = Pending /\ ver' = ver /\ recorded' = recorded
  BY DEF trainVars, Pending, Unrecorded
<1>2. InHand' = InHand
  BY <1>1 DEF InHand
<1>3. NothingUnsent'
  BY <1>1, <1>2 DEF RowsInv, NothingUnsent
<1>4. GotFresh'
  BY <1>1 DEF RowsInv, GotFresh
<1>5. HandOfReading'
  BY DEF RowsInv, HandOfReading
<1> QED
  BY <1>3, <1>4, <1>5 DEF RowsInv

(* Training leaves every row on its way.                                   *)
LEMMA RowsTrain ==
  ASSUME IncrTypeOK, RowsInv, NEW w \in Workers, Train(w)
  PROVE  RowsInv'
<1>1. OnTheWay
  BY TrainOnTheWay
<1>2. /\ UNCHANGED <<served, lost>>
      /\ chief'.took = chief.took /\ chief'.got = chief.got /\ chief'.todo = chief.todo
      /\ chief'.at = "reading" <=> chief.at = "reading"
  <2>1. ASSUME chief' = chief, UNCHANGED <<served, lost>> PROVE <1>2
    BY <2>1
  <2>2. CASE Begin(w) /\ w = Chief
    BY <2>2 DEF Begin, sentVars, IncrTypeOK, ChiefType
  <2>3. CASE Begin(w) /\ w # Chief
    BY <2>3 DEF Begin, sentVars
  <2> QED
    BY <2>1, <2>2, <2>3 DEF Train, Advance, Record, Apply, sentVars
<1>3. ASSUME NEW r \in Rows PROVE ver'[r] = ver[r] \/ r \in Pending'
  BY <1>1 DEF OnTheWay
<1>4. DOMAIN chief.got \in SUBSET Rows /\ chief.took \in SUBSET Rows
  BY DEF IncrTypeOK, ChiefType
<1>5. GotFresh'
  <2> SUFFICES ASSUME NEW r \in DOMAIN chief.got
               PROVE  chief.got[r] = ver'[r] \/ r \in recorded' \cup Pending'
    BY <1>2 DEF GotFresh
  <2>1. chief.got[r] = ver[r] \/ r \in recorded \cup Pending
    BY DEF RowsInv, GotFresh
  <2> QED
    BY <1>1, <1>3, <1>4, <2>1 DEF OnTheWay
<1>6. NothingUnsent'
  <2> SUFFICES ASSUME NEW r \in Rows
               PROVE  served[r] = ver'[r] \/ r \in lost \cup recorded' \cup Pending' \cup InHand'
    BY <1>2 DEF NothingUnsent
  <2>1. served[r] = ver[r] \/ r \in lost \cup recorded \cup Pending \cup InHand
    BY DEF RowsInv, NothingUnsent
  <2>2. CASE r \in InHand /\ ver'[r] = ver[r]
    BY <1>2, <2>2 DEF InHand
  <2> QED
    BY <1>1, <1>3, <2>1, <2>2 DEF OnTheWay
<1>7. HandOfReading'
  BY <1>2 DEF RowsInv, HandOfReading
<1> QED
  BY <1>5, <1>6, <1>7 DEF RowsInv

(* Taking the record of an embedding puts its rows in the chief's hand.    *)
LEMMA RowsGet ==
  ASSUME IncrTypeOK, RowsInv, NEW v \in Vars, Get(v)
  PROVE  RowsInv'
<1> DEFINE taken == RowsOf({v}, recorded)
<1>1. /\ chief.at = "reading" /\ <<"get", v>> \in chief.todo
      /\ UNCHANGED <<ver, run, served, lost>> /\ recorded' = recorded \ taken
      /\ chief'.at = "reading" /\ chief'.todo = chief.todo \ {<<"get", v>>}
      /\ chief'.took = chief.took \cup taken /\ chief'.got = chief.got
  BY DEF Get, sentVars, IncrTypeOK, ChiefType
<1>2. Pending' = Pending
  BY <1>1 DEF Pending, Unrecorded
<1>3. \A r \in taken : VarOf[r] = v
  BY DEF RowsOf
<1>4. <<"gather", v>> \in chief.todo
  BY <1>1 DEF RowsInv, HandOfReading
<1> HIDE DEF taken
<1>5. NothingUnsent'
  <2>1. InHand \cup taken \subseteq InHand'
    BY <1>1 DEF InHand
  <2> QED
    BY <1>1, <1>2, <2>1 DEF RowsInv, NothingUnsent
<1>6. GotFresh'
  <2> SUFFICES ASSUME NEW r \in DOMAIN chief.got
               PROVE  chief.got[r] = ver[r] \/ r \in (recorded \ taken) \cup Pending
    BY <1>1, <1>2 DEF GotFresh
  <2>1. r \notin taken
    BY <1>3, <1>4 DEF RowsInv, HandOfReading
  <2> QED
    BY <2>1 DEF RowsInv, GotFresh
<1>7. HandOfReading'
  BY <1>1, <1>3, <1>4 DEF RowsInv, HandOfReading
<1> QED
  BY <1>5, <1>6, <1>7 DEF RowsInv

(* Reading the values of the rows taken keeps them in the chief's hand.    *)
LEMMA RowsGather ==
  ASSUME IncrTypeOK, RowsInv, NEW v \in Vars, Gather(v)
  PROVE  RowsInv'
<1> DEFINE rows == RowsOf({v}, chief.took)
<1> DEFINE read == [r \in rows |-> ver[r]]
<1>1. /\ chief.at = "reading" /\ <<"get", v>> \notin chief.todo
      /\ UNCHANGED <<ver, run, served, lost, recorded>>
      /\ chief'.at = "reading" /\ chief'.todo = chief.todo \ {<<"gather", v>>}
      /\ chief'.took = chief.took \ rows /\ chief'.got = Over(read, chief.got)
  BY DEF Gather, sentVars, trainVars, IncrTypeOK, ChiefType
<1>2. Pending' = Pending
  BY <1>1 DEF Pending, Unrecorded
<1>3. /\ \A r \in rows : VarOf[r] = v
      /\ \A r \in chief.took \ rows : VarOf[r] # v
  BY DEF RowsOf
<1>4. /\ rows \in SUBSET Rows /\ read \in [rows -> Values] /\ \A r \in rows : read[r] = ver[r]
      /\ DOMAIN chief.got \in SUBSET Rows /\ chief.got \in [DOMAIN chief.got -> Values]
  BY DEF RowsOf, IncrTypeOK, ChiefType, Places
<1> HIDE DEF rows, read
<1>5. /\ DOMAIN Over(read, chief.got) = rows \cup DOMAIN chief.got
      /\ \A r \in rows : Over(read, chief.got)[r] = ver[r]
      /\ \A r \in DOMAIN chief.got \ rows : Over(read, chief.got)[r] = chief.got[r]
  <2>1. DOMAIN read = rows
    BY <1>4
  <2> QED
    BY <1>4, <2>1 DEF Over
<1>6. NothingUnsent'
  <2>1. InHand \subseteq InHand'
    BY <1>1, <1>5 DEF InHand
  <2> QED
    BY <1>1, <1>2, <2>1 DEF RowsInv, NothingUnsent
<1>7. GotFresh'
  BY <1>1, <1>2, <1>5 DEF RowsInv, GotFresh
<1>8. HandOfReading'
  BY <1>1, <1>3, <1>5 DEF RowsInv, HandOfReading
<1> QED
  BY <1>6, <1>7, <1>8 DEF RowsInv

(* What is sent is what was read: the row is served, or on its way again.  *)
LEMMA RowsSent ==
  ASSUME IncrTypeOK, RowsInv, SendSparse
  PROVE  RowsInv'
<1>1. /\ chief.at = "reading" /\ chief.todo = {} /\ UNCHANGED <<ver, run, recorded>>
      /\ chief'.at = chief.next /\ chief'.todo = {} /\ chief'.took = {}
      /\ chief'.got = NoValues
      /\ served' = Over(chief.got, served) /\ lost' = lost \ DOMAIN chief.got
  BY DEF SendSparse, trainVars, IncrTypeOK, ChiefType
<1>2. Pending' = Pending
  BY <1>1 DEF Pending, Unrecorded
<1>3. chief.took = {}
  BY <1>1 DEF RowsInv, HandOfReading
<1>4. /\ \A r \in DOMAIN chief.got : served'[r] = chief.got[r]
      /\ \A r \in Rows \ DOMAIN chief.got : served'[r] = served[r]
  <2> DEFINE got == chief.got
  <2> DEFINE S == DOMAIN got
  <2>1. S \in SUBSET Rows /\ got \in [S -> Values] /\ served \in [Places -> Values]
    BY DEF IncrTypeOK, ChiefType
  <2> HIDE DEF got, S
  <2>2. /\ \A r \in S : Over(got, served)[r] = got[r]
        /\ \A x \in Places \ S : Over(got, served)[x] = served[x]
    BY <2>1, OverServes
  <2> QED
    BY <1>1, <2>2 DEF got, S, Places
<1>5. NothingUnsent'
  <2> SUFFICES ASSUME NEW r \in Rows
               PROVE  served'[r] = ver[r] \/ r \in lost' \cup recorded \cup Pending
    BY <1>1, <1>2 DEF NothingUnsent
  <2>1. CASE r \in DOMAIN chief.got
    BY <1>4, <2>1 DEF RowsInv, GotFresh
  <2>2. CASE r \notin DOMAIN chief.got
    <3>1. r \notin InHand
      BY <1>3, <2>2 DEF InHand
    <3> QED
      BY <1>1, <1>4, <2>2, <3>1 DEF RowsInv, NothingUnsent
  <2> QED
    BY <2>1, <2>2
<1>6. GotFresh' /\ HandOfReading'
  BY <1>1 DEF GotFresh, HandOfReading, NoValues
<1> QED
  BY <1>5, <1>6 DEF RowsInv

(* The steps of the hook account for every row.                            *)
LEMMA RowsHook ==
  ASSUME IncrTypeOK, RowsInv, SaveHook
  PROVE  RowsInv'
<1>0. ASSUME chief.todo = {}, DOMAIN chief.got = {}
      PROVE  chief.took = {}
  BY <1>0 DEF RowsInv, HandOfReading
<1>1. CASE AfterRun \/ SaveBegin \/ SaveVars \/ EndBegin \/ End
  <2>1. /\ UNCHANGED <<trainVars, served, lost>>
        /\ chief'.took = chief.took /\ chief'.got = chief.got /\ chief'.todo = chief.todo
    BY <1>1 DEF AfterRun, SaveBegin, SaveVars, EndBegin, End, trainVars, sentVars,
                IncrTypeOK, ChiefType
  <2>2. chief.at # "reading" /\ chief'.at # "reading"
    BY <1>1 DEF AfterRun, SaveBegin, SaveVars, EndBegin, End, IncrTypeOK, ChiefType, FirstDue
  <2> QED
    BY <2>1, <2>2, RowsKept
<1>2. CASE DenseBegin
  <2>1. /\ UNCHANGED <<trainVars, served, lost>> /\ chief.at # "reading"
        /\ chief'.took = chief.took /\ chief'.got = chief.got /\ chief'.todo = chief.todo
        /\ chief'.at # "reading"
    BY <1>2 DEF DenseBegin, trainVars, sentVars, IncrTypeOK, ChiefType
  <2> QED
    BY <2>1, RowsKept
<1>3. CASE SendDense
  <2>1. /\ UNCHANGED trainVars /\ chief.at = "sending"
        /\ chief'.took = chief.took /\ chief'.got = chief.got /\ chief'.todo = chief.todo
        /\ chief'.at # "reading"
    BY <1>3 DEF SendDense, IncrTypeOK, ChiefType
  <2>2. (\A r \in Rows : served'[r] = served[r]) /\ lost \cap Rows = lost' \cap Rows
    BY <1>3, Constants DEF SendDense, IncrTypeOK, Places
  <2> QED
    BY <2>1, <2>2, RowsKept
<1>4. CASE SparseBegin
  <2>1. /\ UNCHANGED <<trainVars, served, lost>>
        /\ chief'.took = chief.took /\ chief'.got = chief.got /\ chief'.todo = Reads
        /\ chief.at # "reading" /\ chief'.at = "reading"
    BY <1>4 DEF SparseBegin, trainVars, IncrTypeOK, ChiefType
  <2>2. DOMAIN chief.got = {} /\ chief.took = {}
    BY <1>0, <2>1 DEF RowsInv, HandOfReading
  <2>3. Pending' = Pending /\ ver' = ver /\ recorded' = recorded
    BY <2>1 DEF trainVars, Pending, Unrecorded
  <2>4. NothingUnsent' /\ GotFresh'
    BY <2>1, <2>2, <2>3 DEF RowsInv, NothingUnsent, GotFresh, InHand
  <2>5. HandOfReading'
    BY <2>1, <2>2 DEF HandOfReading, Reads
  <2> QED
    BY <2>4, <2>5 DEF RowsInv
<1> QED
  BY <1>1, <1>2, <1>3, <1>4, RowsGet, RowsGather, RowsSent DEF SaveHook

(* A restart leaves behind what it does not have in its checkpoint.        *)
LEMMA RowsRestart ==
  ASSUME IncrTypeOK, RowsInv, Restart
  PROVE  RowsInv'
  BY DEF Restart, RowsInv, NothingUnsent, GotFresh, HandOfReading, NewChief, NoValues, Places

(* The rows stay accounted for.                                            *)
LEMMA RowsStep == IncrTypeOK /\ RowsInv /\ [IncrNext]_vars => RowsInv'
<1> SUFFICES ASSUME IncrTypeOK, RowsInv, [IncrNext]_vars PROVE RowsInv'
  OBVIOUS
<1>1. CASE UNCHANGED vars
  BY <1>1 DEF vars, trainVars, sentVars, RowsInv, NothingUnsent, GotFresh, HandOfReading,
              Pending, Unrecorded, InHand
<1> QED
  BY <1>1, RowsTrain, RowsHook, RowsRestart DEF IncrNext, Ended

(* Typing and the account of the rows hold in every reachable state.       *)
THEOREM RowsAccounted == IncrSpec => [](IncrTypeOK /\ RowsInv)
  BY TypesInit, TypesStep, RowsInit, RowsStep, PTL DEF IncrSpec

(* A row whose served value is not the trained one is on its way to the    *)
(* reader, or a restart has left it behind.                                *)
THEOREM NothingIsUnsent == IncrSpec => []NothingUnsent
  BY RowsAccounted, PTL DEF RowsInv

---------------------------------------------------------------------------
(* The end begins when nobody runs, and nobody begins a run any more.      *)
AtTheEnd ==
  /\ chief.next = "end" =>
       /\ \A w \in Workers : run[w].at = "idle"
       /\ chief.at \in {"end", "ended", "saving", "sending", "reading"}
  /\ chief.at \in {"end", "ended"} => chief.next = "end"
  /\ chief.at = "ended" => chief.dense = gstep /\ chief.sparse = gstep

(* Where the hook comes from and goes to, and the step it has read.        *)
HookInOrder ==
  /\ chief.at = "session" => chief.next = "loop"
  /\ chief.at = "sending" => chief.next # "dense" /\ chief.key = chief.dense
  /\ chief.at = "reading" => chief.next \in {"loop", "end"} /\ chief.key = chief.sparse
  /\ chief.at \in {"sending", "sparse"} => chief.key = -1 \/ chief.key >= chief.sparse
  /\ run[Chief].at # "idle" => chief.at = "run"
  /\ \/ chief.at \in {"session", "run", "save", "dense"}
     \/ chief.at = "saving" /\ chief.next # "end"
     => chief.key = -1

(* The step of the next message is beyond that of the last one: the chief's*)
(* own run has advanced it, or the timer waits for more than one step.     *)
RisesDense(step) == step > chief.dense \/ (setting.redundant /\ setting.dense = 1)
RisesSparse(step) == step > chief.sparse \/ (setting.redundant /\ setting.sparse = 1)

GoesTo(kinds) == chief.at \in kinds \/ (chief.at = "saving" /\ chief.next \in kinds)

StepsRise ==
  /\ keys.dense <= chief.dense /\ keys.sparse <= chief.sparse
  /\ \/ chief.at = "run" /\ run[Chief].at # "apply"
     \/ GoesTo({"save", "dense"})
     => setting.redundant \/ (chief.dense < gstep /\ chief.sparse < gstep)
  /\ GoesTo({"dense"}) => RisesDense(gstep)
  /\ GoesTo({"sparse"}) => RisesSparse(IF chief.key = -1 THEN gstep ELSE chief.key)
  /\ chief.at = "sending" /\ chief.next = "sparse" => RisesSparse(chief.key)

StepsInv == AtTheEnd /\ HookInOrder /\ StepsRise /\ KeysRise

(* A timer that waits for more than one step is due beyond its last step.  *)
LEMMA DueRises ==
  ASSUME IncrTypeOK, NEW kinds \in SUBSET Kinds, NEW step \in 0..gstep
  PROVE  /\ FirstDue(kinds, step) = "dense" =>
              step > chief.dense \/ setting.dense = 1
         /\ FirstDue(kinds, step) = "sparse" =>
              step > chief.sparse \/ setting.sparse = 1
<1>1. /\ FirstDue(kinds, step) = "dense" => DueAfter("dense", step)
      /\ FirstDue(kinds, step) = "sparse" => DueAfter("sparse", step)
  BY DEF FirstDue
<1>2. /\ setting.dense \in Nat \ {0} /\ setting.sparse \in Nat \ {0}
      /\ chief.dense \in Nat /\ chief.sparse \in Nat /\ step \in Nat
  BY Constants DEF IncrTypeOK, ChiefType
<1>3. /\ DueAfter("dense", step) => step + 1 >= chief.dense + setting.dense
      /\ DueAfter("sparse", step) => step + 1 >= chief.sparse + setting.sparse
  BY DEF DueAfter, Triggers
<1> QED
  BY <1>1, <1>2, <1>3

(* The steps are in order at first.                                        *)
LEMMA StepsInit == IncrInit => StepsInv
<1> SUFFICES ASSUME IncrInit PROVE StepsInv
  OBVIOUS
<1>1. /\ chief.at = "session" /\ chief.next = "loop" /\ chief.key = -1 /\ chief.dense = 0
      /\ chief.sparse = 0 /\ keys.dense = -1 /\ keys.sparse = -1
      /\ \A w \in Workers : run[w].at = "idle"
  BY DEF IncrInit, NewChief, NoKeys, NewRun
<1> QED
  BY <1>1, Constants DEF StepsInv, AtTheEnd, HookInOrder, StepsRise, KeysRise, GoesTo

(* While the hook does not move, the global step and the other workers may.*)
LEMMA StepsWhileTraining ==
  ASSUME IncrTypeOK, StepsInv, UNCHANGED <<setting, chief, keys>>, chief.next # "end",
         gstep' \in Nat, gstep' >= gstep,
         run'[Chief].at # "idle" => chief.at = "run",
         chief.at = "run" /\ run'[Chief].at # "apply" =>
           run[Chief].at # "apply" \/ gstep' > gstep
  PROVE  StepsInv'
<1>1. gstep \in Nat /\ chief.dense \in 0..gstep /\ chief.sparse \in 0..gstep
  BY DEF IncrTypeOK, ChiefType
<1>2. AtTheEnd'
  BY DEF StepsInv, AtTheEnd
<1>3. HookInOrder'
  BY DEF StepsInv, HookInOrder
<1>4. StepsRise'
  BY <1>1 DEF StepsInv, StepsRise, GoesTo, RisesDense, RisesSparse
<1>5. KeysRise'
  BY DEF StepsInv, KeysRise
<1> QED
  BY <1>2, <1>3, <1>4, <1>5 DEF StepsInv

(* Training advances the global step and leaves the hook's order.          *)
LEMMA StepsTrain ==
  ASSUME IncrTypeOK, StepsInv, NEW w \in Workers, Train(w)
  PROVE  StepsInv'
<1>1. Workers = DOMAIN run /\ gstep \in Nat /\ Chief \in Workers
  BY Constants DEF IncrTypeOK, RunType
<1>2. CASE Begin(w) /\ w = Chief
  <2>1. /\ UNCHANGED <<setting, gstep, keys>> /\ chief.at = "loop" /\ chief.next # "end"
        /\ run[w].at = "idle" /\ \A u \in Workers \ {w} : run'[u] = run[u]
        /\ chief'.at = "run" /\ chief'.key = -1 /\ chief'.next = chief.next
        /\ chief'.dense = chief.dense /\ chief'.sparse = chief.sparse
    BY <1>1, <1>2 DEF Begin, sentVars, IncrTypeOK, ChiefType
  <2>2. run'[Chief].at = "apply" \/ setting.redundant
    BY <1>1, <1>2 DEF Begin, Learns
  <2> QED
    BY <1>1, <2>1, <2>2 DEF StepsInv, AtTheEnd, HookInOrder, StepsRise, KeysRise, GoesTo
<1>3. CASE Begin(w) /\ w # Chief
  <2>1. /\ UNCHANGED <<setting, chief, keys, gstep>> /\ chief.next # "end"
        /\ run'[Chief] = run[Chief]
    BY <1>1, <1>3 DEF Begin, sentVars
  <2> QED
    BY <1>1, <2>1, StepsWhileTraining DEF StepsInv, HookInOrder
<1>4. CASE Advance(w)
  <2>1. /\ UNCHANGED <<setting, chief, keys>> /\ gstep' = gstep + 1 /\ run[w].at = "apply"
        /\ w # Chief => run'[Chief] = run[Chief]
    BY <1>1, <1>4 DEF Advance, sentVars
  <2>2. chief.next # "end" /\ (run'[Chief].at # "idle" => chief.at = "run")
    BY <1>1, <2>1 DEF StepsInv, AtTheEnd, HookInOrder
  <2> QED
    BY <1>1, <2>1, <2>2, StepsWhileTraining
<1>5. ASSUME NEW v \in Vars, Record(w, v) PROVE StepsInv'
  <2>1. /\ UNCHANGED <<setting, chief, keys, gstep>> /\ run[w].at = "record"
        /\ w # Chief => run'[Chief] = run[Chief]
    BY <1>1, <1>5 DEF Record, sentVars
  <2>2. chief.next # "end" /\ (run'[Chief].at # "idle" => chief.at = "run")
    BY <1>1, <2>1 DEF StepsInv, AtTheEnd, HookInOrder
  <2> QED
    BY <1>1, <2>1, <2>2, StepsWhileTraining
<1>6. ASSUME NEW v \in Vars \cup {Dense}, Apply(w, v) PROVE StepsInv'
  <2>1. /\ UNCHANGED <<setting, chief, keys, gstep>> /\ run[w].at = "apply"
        /\ run'[Chief].at = run[Chief].at
    BY <1>1, <1>6 DEF Apply, sentVars, IncrTypeOK, RunType
  <2>2. chief.next # "end" /\ (run'[Chief].at # "idle" => chief.at = "run")
    BY <1>1, <2>1 DEF StepsInv, AtTheEnd, HookInOrder
  <2> QED
    BY <1>1, <2>1, <2>2, StepsWhileTraining
<1> QED
  BY <1>2, <1>3, <1>4, <1>5, <1>6 DEF Train

(* Each step of the hook leaves the order, and reads a step that rises.    *)
LEMMA StepsHook ==
  ASSUME IncrTypeOK, StepsInv, SaveHook
  PROVE  StepsInv'
<1>0. /\ gstep \in Nat /\ setting.redundant \in BOOLEAN
      /\ chief.dense \in 0..gstep /\ chief.sparse \in 0..gstep
      /\ chief.key \in Int /\ chief.stale \in 0..gstep
      /\ chief.next \in {"loop", "dense", "sparse", "end"}
      /\ keys.dense \in Int /\ keys.sparse \in Int /\ Chief \in Workers
  BY Constants DEF IncrTypeOK, ChiefType, KeysType
<1>1. CASE AfterRun
  <2>1. PICK step \in chief.stale..gstep :
          chief' = [chief EXCEPT !.stale = step,
                                 !.at = FirstDue({"save", "dense", "sparse"}, step)]
    BY <1>1 DEF AfterRun
  <2> DEFINE then == FirstDue({"save", "dense", "sparse"}, step)
  <2>2. then \in {"save", "dense", "sparse", "loop"}
    BY FirstDueIsKind DEF Kinds
  <2>3. step \in 0..gstep
    BY <1>0
  <2>4. /\ then = "dense" => step > chief.dense \/ setting.dense = 1
        /\ then = "sparse" => step > chief.sparse \/ setting.sparse = 1
    BY <2>3, DueRises DEF Kinds
  <2> HIDE DEF then
  <2>5. /\ UNCHANGED <<setting, gstep, run, keys>> /\ chief.at = "run" /\ run[Chief].at = "idle"
        /\ chief'.at = then /\ chief'.next = chief.next /\ chief'.key = chief.key
        /\ chief'.dense = chief.dense /\ chief'.sparse = chief.sparse
    BY <1>1, <2>1 DEF AfterRun, trainVars, sentVars, IncrTypeOK, ChiefType, then
  <2>6. /\ chief.key = -1 /\ chief.next # "end"
        /\ setting.redundant \/ (chief.dense < gstep /\ chief.sparse < gstep)
        /\ keys.dense <= chief.dense /\ keys.sparse <= chief.sparse
    BY <2>5 DEF StepsInv, AtTheEnd, HookInOrder, StepsRise
  <2>7. StepsRise'
    BY <1>0, <2>2, <2>3, <2>4, <2>5, <2>6 DEF StepsRise, GoesTo, RisesDense, RisesSparse
  <2> QED
    BY <1>0, <2>2, <2>5, <2>6, <2>7 DEF StepsInv, AtTheEnd, HookInOrder, KeysRise
<1>2. CASE SaveBegin
  <2> DEFINE then == FirstDue({"dense", "sparse"}, chief.stale)
  <2>1. then \in {"dense", "sparse", "loop"}
    BY FirstDueIsKind DEF Kinds
  <2>2. /\ then = "dense" => chief.stale > chief.dense \/ setting.dense = 1
        /\ then = "sparse" => chief.stale > chief.sparse \/ setting.sparse = 1
    BY <1>0, DueRises DEF Kinds
  <2>3. /\ UNCHANGED <<setting, gstep, run, keys>> /\ chief.at \in {"session", "save", "end"}
        /\ chief'.key = chief.key
        /\ chief'.dense = chief.dense /\ chief'.sparse = chief.sparse
    BY <1>2 DEF SaveBegin, trainVars, sentVars, IncrTypeOK, ChiefType
  <2>4. CASE chief.at \in {"session", "end"}
    <3>1. chief'.at = "saving" /\ chief'.next = chief.next
      BY <1>2, <2>4 DEF SaveBegin, IncrTypeOK, ChiefType
    <3> QED
      BY <1>0, <2>3, <2>4, <3>1
      DEF StepsInv, AtTheEnd, HookInOrder, KeysRise, StepsRise, GoesTo, RisesDense, RisesSparse
  <2>5. CASE chief.at = "save"
    <3>1. \/ chief'.at = "saving" /\ chief'.next = then
          \/ chief'.at = then /\ chief'.next = chief.next
      BY <1>2, <2>5 DEF SaveBegin, IncrTypeOK, ChiefType
    <3> HIDE DEF then
    <3>2. /\ chief.key = -1 /\ chief.next # "end"
          /\ setting.redundant \/ (chief.dense < gstep /\ chief.sparse < gstep)
          /\ keys.dense <= chief.dense /\ keys.sparse <= chief.sparse
      BY <2>5 DEF StepsInv, AtTheEnd, HookInOrder, StepsRise, GoesTo
    <3>3. StepsRise'
      BY <1>0, <2>1, <2>2, <2>3, <3>1, <3>2 DEF StepsRise, GoesTo, RisesDense, RisesSparse
    <3>4. AtTheEnd' /\ HookInOrder' /\ KeysRise'
      BY <1>0, <2>1, <2>3, <2>5, <3>1, <3>2
      DEF StepsInv, AtTheEnd, HookInOrder, KeysRise
    <3> QED
      BY <3>3, <3>4 DEF StepsInv
  <2> QED
    BY <2>3, <2>4, <2>5
<1>3. CASE SaveVars
  <2>1. /\ UNCHANGED <<setting, gstep, run, keys>> /\ chief.at = "saving" /\ chief'.at = chief.next
        /\ chief'.key = chief.key /\ chief'.next = chief.next
        /\ chief'.dense = chief.dense /\ chief'.sparse = chief.sparse
    BY <1>3 DEF SaveVars, trainVars, sentVars, IncrTypeOK, ChiefType
  <2> QED
    BY <1>0, <2>1
    DEF StepsInv, AtTheEnd, HookInOrder, KeysRise, StepsRise, GoesTo, RisesDense, RisesSparse
<1>4. CASE DenseBegin
  <2> DEFINE then == FirstDue({"sparse"}, chief.stale)
  <2>1. then \in {"sparse", "loop"}
    BY FirstDueIsKind DEF Kinds
  <2>2. then = "sparse" => chief.stale > chief.sparse \/ setting.sparse = 1
    BY <1>0, DueRises DEF Kinds
  <2>3. /\ UNCHANGED <<setting, gstep, run, keys>> /\ chief'.at = "sending" /\ chief'.key = gstep
        /\ chief'.dense = gstep /\ chief'.sparse = chief.sparse
        /\ \/ chief.at = "dense" /\ chief'.next = then
           \/ chief.at = "end" /\ chief'.next = "end" /\ chief.dense # gstep
    <3>1. CASE chief.at = "end"
      BY <1>4, <3>1 DEF DenseBegin, trainVars, sentVars, IncrTypeOK, ChiefType
    <3>2. CASE chief.at # "end"
      BY <1>4, <3>2 DEF DenseBegin, trainVars, sentVars, IncrTypeOK, ChiefType
    <3> QED
      BY <3>1, <3>2
  <2> HIDE DEF then
  <2>4. /\ chief.at = "dense" => /\ setting.redundant \/ chief.sparse < gstep
                                 /\ chief.dense < gstep \/ (setting.redundant /\ setting.dense = 1)
        /\ keys.dense <= chief.dense /\ keys.sparse <= chief.sparse
    BY <1>0 DEF StepsInv, StepsRise, GoesTo, RisesDense
  <2>5. StepsRise'
    BY <1>0, <2>1, <2>2, <2>3, <2>4 DEF StepsRise, GoesTo, RisesSparse
  <2>6. KeysRise'
    BY <1>0, <2>3, <2>4 DEF KeysRise
  <2>7. AtTheEnd' /\ HookInOrder'
    BY <1>0, <2>1, <2>3 DEF StepsInv, AtTheEnd, HookInOrder
  <2> QED
    BY <2>5, <2>6, <2>7 DEF StepsInv
<1>5. CASE SendDense
  <2>1. /\ UNCHANGED <<setting, gstep, run>> /\ chief.at = "sending" /\ chief'.at = chief.next
        /\ chief'.key = chief.key /\ chief'.next = chief.next
        /\ chief'.dense = chief.dense /\ chief'.sparse = chief.sparse
        /\ keys'.dense = chief.key /\ keys'.sparse = keys.sparse
    BY <1>5 DEF SendDense, trainVars, IncrTypeOK, ChiefType, KeysType
  <2>2. chief.key = chief.dense /\ chief.next # "dense"
    BY <2>1 DEF StepsInv, HookInOrder
  <2> QED
    BY <1>0, <2>1, <2>2
    DEF StepsInv, AtTheEnd, HookInOrder, KeysRise, StepsRise, GoesTo, RisesSparse
<1>6. CASE SparseBegin
  <2> DEFINE key == IF chief.at = "end" \/ chief.key = -1 THEN gstep ELSE chief.key
  <2> DEFINE then == IF chief.at = "end" THEN "end" ELSE "loop"
  <2>1. chief' = [chief EXCEPT !.at = "reading", !.key = key, !.sparse = key,
                               !.todo = Reads, !.next = then]
    BY <1>6 DEF SparseBegin
  <2>2. /\ UNCHANGED <<setting, gstep, run, keys>> /\ chief.at \in {"sparse", "end"}
        /\ chief.at = "end" => chief.sparse # gstep
    BY <1>6 DEF SparseBegin, trainVars
  <2>3. key \in 0..gstep /\ then \in {"loop", "end"} /\ (then = "end" <=> chief.at = "end")
    BY <1>0 DEF IncrTypeOK, ChiefType
  <2>4. key > chief.sparse \/ (setting.redundant /\ setting.sparse = 1)
    BY <1>0, <2>2 DEF StepsInv, StepsRise, GoesTo, RisesSparse
  <2> HIDE DEF key, then
  <2>5. /\ chief'.at = "reading" /\ chief'.key = key /\ chief'.sparse = key
        /\ chief'.dense = chief.dense /\ chief'.next = then
    BY <2>1 DEF IncrTypeOK, ChiefType
  <2>6. key >= chief.sparse
    BY <1>0, <2>2, <2>3, <2>4 DEF key, StepsInv, StepsRise, HookInOrder
  <2>7. StepsRise' /\ KeysRise'
    BY <1>0, <2>2, <2>3, <2>4, <2>5, <2>6 DEF StepsInv, StepsRise, KeysRise, GoesTo
  <2>8. AtTheEnd' /\ HookInOrder'
    BY <1>0, <2>2, <2>3, <2>5 DEF StepsInv, AtTheEnd, HookInOrder
  <2> QED
    BY <2>7, <2>8 DEF StepsInv
<1>7. CASE SendSparse
  <2>1. /\ UNCHANGED <<setting, gstep, run>> /\ chief.at = "reading" /\ chief'.at = chief.next
        /\ chief'.key = chief.key /\ chief'.next = chief.next
        /\ chief'.dense = chief.dense /\ chief'.sparse = chief.sparse
        /\ keys'.dense = keys.dense /\ keys'.sparse \in {keys.sparse, chief.key}
    BY <1>7 DEF SendSparse, trainVars, IncrTypeOK, ChiefType, KeysType
  <2>2. chief.key = chief.sparse /\ chief.next \in {"loop", "end"}
    BY <2>1 DEF StepsInv, HookInOrder
  <2> QED
    BY <1>0, <2>1, <2>2 DEF StepsInv, AtTheEnd, HookInOrder, KeysRise, StepsRise, GoesTo
<1>8. ASSUME NEW v \in Vars, Get(v) \/ Gather(v) PROVE StepsInv'
  <2>1. /\ UNCHANGED <<setting, gstep, run, keys>> /\ chief.at = "reading" /\ chief'.at = "reading"
        /\ chief'.key = chief.key /\ chief'.next = chief.next
        /\ chief'.dense = chief.dense /\ chief'.sparse = chief.sparse
    BY <1>8 DEF Get, Gather, trainVars, sentVars, IncrTypeOK, ChiefType
  <2> QED
    BY <1>0, <2>1 DEF StepsInv, AtTheEnd, HookInOrder, KeysRise, StepsRise, GoesTo
<1>9. CASE EndBegin
  <2>1. /\ UNCHANGED <<setting, gstep, run, keys>> /\ chief'.at = "end" /\ chief'.next = "end"
        /\ chief'.dense = chief.dense /\ chief'.sparse = chief.sparse
        /\ \A w \in Workers : run[w].at = "idle"
    BY <1>9 DEF EndBegin, trainVars, sentVars, IncrTypeOK, ChiefType
  <2> QED
    BY <1>0, <2>1 DEF StepsInv, AtTheEnd, HookInOrder, KeysRise, StepsRise, GoesTo
<1>10. CASE End
  <2>1. /\ UNCHANGED <<setting, gstep, run, keys>> /\ chief.at = "end" /\ chief'.at = "ended"
        /\ chief'.next = chief.next /\ chief.dense = gstep /\ chief.sparse = gstep
        /\ chief'.dense = chief.dense /\ chief'.sparse = chief.sparse
    BY <1>10 DEF End, trainVars, sentVars, IncrTypeOK, ChiefType
  <2> QED
    BY <1>0, <2>1 DEF StepsInv, AtTheEnd, HookInOrder, KeysRise, StepsRise, GoesTo
<1> QED
  BY <1>1, <1>2, <1>3, <1>4, <1>5, <1>6, <1>7, <1>8, <1>9, <1>10 DEF SaveHook

(* The order is kept, and a restart begins it anew.                        *)
LEMMA StepsStep == IncrTypeOK /\ StepsInv /\ [IncrNext]_vars => StepsInv'
<1> SUFFICES ASSUME IncrTypeOK, StepsInv, [IncrNext]_vars PROVE StepsInv'
  OBVIOUS
<1>1. CASE UNCHANGED vars
  BY <1>1 DEF vars, trainVars, sentVars, StepsInv, AtTheEnd, HookInOrder, StepsRise, KeysRise,
              GoesTo, RisesDense, RisesSparse
<1>2. CASE Restart
  <2>1. /\ chief'.at = "session" /\ chief'.next = "loop" /\ chief'.key = -1 /\ chief'.dense = 0
        /\ chief'.sparse = 0 /\ keys'.dense = -1 /\ keys'.sparse = -1
        /\ \A w \in Workers : run'[w].at = "idle"
    BY <1>2 DEF Restart, NewChief, NoKeys, NewRun
  <2> QED
    BY <2>1, Constants DEF StepsInv, AtTheEnd, HookInOrder, StepsRise, KeysRise, GoesTo
<1> QED
  BY <1>1, <1>2, StepsTrain, StepsHook DEF IncrNext, Ended

(* The steps that name the messages of a kind rise within a life of the    *)
(* job, except where the chief does not train and sends after every step.  *)
THEOREM StepsOfMessagesRise == IncrSpec => []KeysRise
<1>1. IncrSpec => [](IncrTypeOK /\ StepsInv)
  BY TypesInit, TypesStep, StepsInit, StepsStep, PTL DEF IncrSpec
<1> QED
  BY <1>1, PTL DEF StepsInv

---------------------------------------------------------------------------
(* What has not been sent if the step is still that of the last message:   *)
(* the rows that were in flight when the hook read it, those it will read  *)
(* yet, and dense variables of runs that will advance the step.            *)
ToRead == {r \in Rows : chief.at = "reading" /\ <<"get", VarOf[r]>> \in chief.todo}

RowsOfLastStep ==
  /\ chief.at \in {"sending", "sparse"} /\ chief.key = gstep => InFlight \subseteq chief.flight
  /\ chief.sparse = gstep => InFlight \subseteq missed /\ recorded \subseteq missed \cup ToRead

Applied == \E w \in Workers : run[w].at = "apply" /\ Dense \notin run[w].todo

DenseOfLastStep ==
  chief.dense = gstep =>
    \/ chief.at = "sending" \/ Applied \/ served[Dense] = ver[Dense]
    \/ gstep = 0 /\ Dense \in lost

LastStep == RowsOfLastStep /\ DenseOfLastStep

(* Nothing is in flight at first.                                          *)
LEMMA LastStepInit == IncrInit => LastStep
<1> SUFFICES ASSUME IncrInit PROVE LastStep
  OBVIOUS
<1>1. InFlight = {}
  BY DEF IncrInit, InFlight, NewRun
<1> QED
  BY <1>1 DEF IncrInit, LastStep, RowsOfLastStep, DenseOfLastStep

(* A worker's step keeps it: an advance makes the step another one, and    *)
(* what another step takes from the rows in flight it records.            *)
LEMMA LastStepTrain ==
  ASSUME IncrTypeOK, LastStep, NEW w \in Workers, Train(w)
  PROVE  LastStep'
<1>0. /\ Workers = DOMAIN run /\ gstep \in Nat /\ Dense \in Places
      /\ chief.key \in -1..gstep /\ chief.sparse \in 0..gstep /\ chief.dense \in 0..gstep
  BY DEF IncrTypeOK, RunType, ChiefType, Places
<1>1. SUFFICES ASSUME ~Advance(w) PROVE LastStep'
  <2>1. CASE Advance(w)
    <3>1. gstep' = gstep + 1 /\ chief' = chief
      BY <2>1 DEF Advance
    <3>2. chief.key # gstep' /\ chief.sparse # gstep' /\ chief.dense # gstep'
      BY <1>0, <3>1
    <3> QED
      BY <3>1, <3>2 DEF LastStep, RowsOfLastStep, DenseOfLastStep
  <2> QED
    BY <1>1, <2>1
<1>2. ASSUME NEW u \in Workers, u # w PROVE run'[u] = run[u]
  BY <1>0, <1>1, <1>2 DEF Train, Begin, Record, Apply
<1>3. UNCHANGED <<gstep, served, lost, missed>>
  BY <1>1 DEF Train, Begin, Record, Apply, sentVars
<1>4. InFlight' \subseteq InFlight /\ recorded' \subseteq recorded \cup InFlight
  <2>1. CASE Begin(w)
    <3>1. run'[w].at # "record" /\ run[w].at = "idle" /\ recorded' = recorded
      BY <1>0, <2>1 DEF Begin
    <3> QED
      BY <1>2, <3>1 DEF InFlight, Unrecorded
  <2>2. ASSUME NEW v \in Vars, Record(w, v)
        PROVE  InFlight' \subseteq InFlight /\ recorded' \subseteq recorded \cup InFlight
    <3>1. /\ run[w].at = "record" /\ v \in run[w].todo /\ run'[w] = Recorded(w, v)
          /\ recorded' = recorded \cup RowsOf({v}, run[w].batch)
      BY <1>0, <2>2 DEF Record
    <3>2. Unrecorded(w) = RowsOf(run[w].todo, run[w].batch)
      BY <3>1 DEF Unrecorded
    <3>3. RowsOf({v}, run[w].batch) \subseteq Unrecorded(w)
      BY <3>1, <3>2 DEF RowsOf
    <3>4. run'[w].at = "record" => Unrecorded(w)' \subseteq Unrecorded(w)
      <4>1. CASE run[w].todo \ {v} = {}
        BY <3>1, <4>1 DEF Recorded, NewRun
      <4>2. CASE run[w].todo \ {v} # {}
        <5>1. Unrecorded(w)' = RowsOf(run[w].todo \ {v}, run[w].batch)
          BY <3>1, <4>2 DEF Recorded, Unrecorded
        <5> QED
          BY <3>2, <5>1 DEF RowsOf
      <4> QED
        BY <4>1, <4>2
    <3>5. ASSUME NEW u \in Workers, run'[u].at = "record"
          PROVE  run[u].at = "record" /\ Unrecorded(u)' \subseteq Unrecorded(u)
      <4>1. CASE u = w
        BY <3>1, <3>4, <3>5, <4>1
      <4>2. CASE u # w
        BY <1>2, <3>5, <4>2 DEF Unrecorded
      <4> QED
        BY <4>1, <4>2
    <3>6. InFlight' \subseteq InFlight
      BY <3>5 DEF InFlight
    <3>7. Unrecorded(w) \subseteq InFlight
      BY <3>1 DEF InFlight
    <3> QED
      BY <3>1, <3>3, <3>6, <3>7
  <2>3. ASSUME NEW v \in Vars \cup {Dense}, Apply(w, v)
        PROVE  InFlight' \subseteq InFlight /\ recorded' \subseteq recorded \cup InFlight
    <3>1. run'[w].at = "apply" /\ run[w].at = "apply" /\ recorded' = recorded
      BY <1>0, <2>3 DEF Apply, IncrTypeOK, RunType
    <3> QED
      BY <1>2, <3>1 DEF InFlight, Unrecorded
  <2> QED
    BY <1>1, <2>1, <2>2, <2>3 DEF Train
<1>5. /\ chief'.at \in {"sending", "sparse"} => chief' = chief
      /\ chief'.sparse = chief.sparse /\ chief'.dense = chief.dense /\ ToRead' = ToRead
      /\ chief.at = "sending" => chief'.at = "sending"
  <2>1. CASE Begin(w) /\ w = Chief
    <3>1. /\ chief.at = "loop" /\ chief'.at = "run"
          /\ chief'.sparse = chief.sparse /\ chief'.dense = chief.dense
      BY <2>1 DEF Begin, IncrTypeOK, ChiefType
    <3> QED
      BY <3>1 DEF ToRead
  <2>2. CASE ~(Begin(w) /\ w = Chief)
    <3>1. chief' = chief
      BY <1>1, <2>2 DEF Train, Begin, Record, Apply
    <3> QED
      BY <3>1 DEF ToRead
  <2> QED
    BY <2>1, <2>2
<1>6. RowsOfLastStep'
  BY <1>3, <1>4, <1>5 DEF LastStep, RowsOfLastStep
<1>7. ver'[Dense] = ver[Dense] \/ Applied'
  <2>1. ASSUME NEW v \in Vars \cup {Dense}, Apply(w, v) PROVE ver'[Dense] = ver[Dense] \/ Applied'
    <3>1. CASE v = Dense
      <4>1. run'[w].at = "apply" /\ Dense \notin run'[w].todo
        BY <1>0, <2>1, <3>1 DEF Apply, IncrTypeOK, RunType
      <4> QED
        BY <4>1 DEF Applied
    <3>2. CASE v # Dense
      <4>1. Dense \notin RowsOf({v}, run[w].batch)
        BY Constants DEF RowsOf, IncrTypeOK, RunType
      <4> QED
        BY <1>0, <2>1, <3>2, <4>1 DEF Apply
    <3> QED
      BY <3>1, <3>2
  <2> QED
    BY <1>1, <2>1 DEF Train, Begin, Record
<1>8. Applied => Applied'
  <2> SUFFICES ASSUME NEW u \in Workers, run[u].at = "apply", Dense \notin run[u].todo
               PROVE  run'[u].at = "apply" /\ Dense \notin run'[u].todo
    BY DEF Applied
  <2>1. CASE u # w
    BY <1>2, <2>1
  <2>2. ASSUME u = w, NEW v \in Vars \cup {Dense}, Apply(w, v)
        PROVE  run'[u].at = "apply" /\ Dense \notin run'[u].todo
    BY <1>0, <2>2 DEF Apply, IncrTypeOK, RunType
  <2> QED
    BY <1>1, <2>1, <2>2 DEF Train, Begin, Record
<1>9. DenseOfLastStep'
  BY <1>3, <1>5, <1>7, <1>8 DEF LastStep, DenseOfLastStep
<1> QED
  BY <1>6, <1>9 DEF LastStep

(* The hook reads the step with what is in flight, and reads every row     *)
(* recorded before it is done.                                             *)
LEMMA LastStepHook ==
  ASSUME IncrTypeOK, StepsInv, LastStep, SaveHook
  PROVE  LastStep'
<1>0. /\ gstep \in Nat /\ Dense \in Places /\ Dense \notin Rows
      /\ chief.next \in {"loop", "dense", "sparse", "end"}
      /\ DOMAIN chief.got \in SUBSET Rows /\ recorded \in SUBSET Rows
      /\ \A r \in Rows : VarOf[r] \in Vars
  BY Constants DEF IncrTypeOK, ChiefType, Places
<1>1. gstep' = gstep /\ run' = run /\ ver' = ver
  BY DEF SaveHook, AfterRun, SaveBegin, SaveVars, DenseBegin, SendDense, SparseBegin, SendSparse,
         Get, Gather, EndBegin, End, trainVars
<1>2. InFlight' = InFlight /\ Applied' = Applied
  BY <1>1 DEF InFlight, Unrecorded, Applied
<1>3. ASSUME AfterRun \/ SaveBegin \/ SaveVars \/ EndBegin \/ End
      PROVE  LastStep'
  <2>1. /\ UNCHANGED <<recorded, missed, served, lost>>
        /\ chief'.sparse = chief.sparse /\ chief'.dense = chief.dense /\ chief'.key = chief.key
        /\ chief.at \notin {"sending", "reading", "sparse"}
    BY <1>3 DEF AfterRun, SaveBegin, SaveVars, EndBegin, End, trainVars, sentVars,
                IncrTypeOK, ChiefType
  <2>2. chief'.at # "sending" /\ (chief'.at = "sparse" => chief.key = -1)
    <3>1. CASE AfterRun \/ SaveBegin
      BY <1>3, <3>1 DEF AfterRun, SaveBegin, IncrTypeOK, ChiefType, StepsInv, HookInOrder, FirstDue
    <3>2. CASE SaveVars \/ EndBegin \/ End
      BY <1>0, <3>2 DEF SaveVars, EndBegin, End, IncrTypeOK, ChiefType, StepsInv, HookInOrder
    <3> QED
      BY <1>3, <3>1, <3>2
  <2>3. ToRead = {}
    BY <2>1 DEF ToRead
  <2> QED
    BY <1>0, <1>1, <1>2, <2>1, <2>2, <2>3
    DEF LastStep, RowsOfLastStep, DenseOfLastStep
<1>4. CASE DenseBegin
  <2>1. /\ UNCHANGED <<recorded, missed, served, lost>> /\ chief'.at = "sending"
        /\ chief'.sparse = chief.sparse /\ chief'.flight = InFlight
        /\ chief.at # "reading"
    BY <1>4 DEF DenseBegin, trainVars, sentVars, IncrTypeOK, ChiefType
  <2>2. ToRead = {}
    BY <2>1 DEF ToRead
  <2> QED
    BY <1>1, <1>2, <2>1, <2>2 DEF LastStep, RowsOfLastStep, DenseOfLastStep
<1>5. CASE SendDense
  <2>1. /\ UNCHANGED <<recorded, missed>> /\ chief.at = "sending" /\ chief'.at = chief.next
        /\ chief'.sparse = chief.sparse /\ chief'.flight = chief.flight /\ chief'.key = chief.key
        /\ served'[Dense] = ver[Dense]
    BY <1>0, <1>5 DEF SendDense, trainVars, IncrTypeOK, ChiefType
  <2>2. ToRead = {}
    BY <2>1 DEF ToRead
  <2> QED
    BY <1>0, <1>1, <1>2, <2>1, <2>2 DEF LastStep, RowsOfLastStep, DenseOfLastStep
<1>6. CASE SparseBegin
  <2> DEFINE fresh == chief.at = "end" \/ chief.key = -1
  <2>1. /\ UNCHANGED <<recorded, served, lost>> /\ chief.at \in {"sparse", "end"}
        /\ chief'.at = "reading" /\ chief'.dense = chief.dense /\ chief'.todo = Reads
        /\ missed' = IF fresh THEN InFlight ELSE chief.flight
        /\ chief'.sparse = IF fresh THEN gstep ELSE chief.key
    BY <1>6 DEF SparseBegin, trainVars, IncrTypeOK, ChiefType
  <2>2. ToRead' = Rows
    BY <1>0, <2>1 DEF ToRead, Reads
  <2>3. RowsOfLastStep'
    <3>1. CASE fresh
      BY <1>0, <1>1, <1>2, <2>1, <2>2, <3>1 DEF RowsOfLastStep
    <3>2. CASE ~fresh
      BY <1>0, <1>1, <1>2, <2>1, <2>2, <3>2 DEF LastStep, RowsOfLastStep
    <3> QED
      BY <3>1, <3>2
  <2>4. DenseOfLastStep'
    BY <1>1, <1>2, <2>1 DEF LastStep, DenseOfLastStep
  <2> QED
    BY <2>3, <2>4 DEF LastStep
<1>7. ASSUME NEW v \in Vars, Get(v) PROVE LastStep'
  <2>1. /\ UNCHANGED <<missed, served, lost>> /\ chief.at = "reading" /\ chief'.at = "reading"
        /\ chief'.sparse = chief.sparse /\ chief'.dense = chief.dense
        /\ chief'.todo = chief.todo \ {<<"get", v>>}
        /\ recorded' = recorded \ RowsOf({v}, recorded)
    BY <1>7 DEF Get, sentVars, IncrTypeOK, ChiefType
  <2>2. recorded' \cap ToRead \subseteq ToRead'
    BY <2>1 DEF ToRead, RowsOf
  <2> QED
    BY <1>1, <1>2, <2>1, <2>2 DEF LastStep, RowsOfLastStep, DenseOfLastStep
<1>8. ASSUME NEW v \in Vars, Gather(v) PROVE LastStep'
  <2>1. /\ UNCHANGED <<recorded, missed, served, lost>>
        /\ chief.at = "reading" /\ chief'.at = "reading"
        /\ chief'.sparse = chief.sparse /\ chief'.dense = chief.dense
        /\ chief'.todo = chief.todo \ {<<"gather", v>>}
    BY <1>8 DEF Gather, trainVars, sentVars, IncrTypeOK, ChiefType
  <2>2. ToRead \subseteq ToRead'
    BY <2>1 DEF ToRead
  <2> QED
    BY <1>1, <1>2, <2>1, <2>2 DEF LastStep, RowsOfLastStep, DenseOfLastStep
<1>9. CASE SendSparse
  <2>1. /\ UNCHANGED <<recorded, missed>> /\ chief.at = "reading" /\ chief.todo = {}
        /\ chief'.at = chief.next /\ chief'.sparse = chief.sparse /\ chief'.dense = chief.dense
        /\ lost' = lost \ DOMAIN chief.got
    BY <1>9 DEF SendSparse, trainVars, IncrTypeOK, ChiefType
  <2>2. chief.next \in {"loop", "end"}
    BY <2>1 DEF StepsInv, HookInOrder
  <2>3. served'[Dense] = served[Dense] /\ (Dense \in lost => Dense \in lost')
    <3>1. Over(chief.got, served)[Dense] = served[Dense]
      BY <1>0 DEF Over, IncrTypeOK
    <3> QED
      BY <1>0, <1>9, <2>1, <3>1 DEF SendSparse
  <2>4. ToRead = {}
    BY <2>1 DEF ToRead
  <2> QED
    BY <1>1, <1>2, <2>1, <2>2, <2>3, <2>4 DEF LastStep, RowsOfLastStep, DenseOfLastStep
<1> QED
  BY <1>3, <1>4, <1>5, <1>6, <1>7, <1>8, <1>9 DEF SaveHook

(* What is left of the last step stays known.                              *)
LEMMA LastStepStep == IncrTypeOK /\ StepsInv /\ LastStep /\ [IncrNext]_vars => LastStep'
<1> SUFFICES ASSUME IncrTypeOK, StepsInv, LastStep, [IncrNext]_vars PROVE LastStep'
  OBVIOUS
<1>1. CASE UNCHANGED vars
  <2>1. InFlight' = InFlight /\ ToRead' = ToRead /\ Applied' = Applied
    BY <1>1 DEF vars, trainVars, InFlight, Unrecorded, ToRead, Applied
  <2> QED
    BY <1>1, <2>1 DEF vars, trainVars, sentVars, LastStep, RowsOfLastStep, DenseOfLastStep
<1>2. CASE Restart
  <2>1. /\ chief'.at = "session" /\ recorded' = {} /\ served' = served
        /\ ver' = ckpt.ver /\ gstep' \in Nat /\ chief'.dense = 0
        /\ lost' = {x \in Places : served[x] # ckpt.ver[x]}
        /\ \A w \in Workers : run'[w].at = "idle"
    BY <1>2 DEF Restart, NewChief, NewRun, IncrTypeOK, CkptType
  <2>2. InFlight' = {} /\ Dense \in Places
    BY <2>1 DEF InFlight, Places
  <2> QED
    BY <2>1, <2>2 DEF LastStep, RowsOfLastStep, DenseOfLastStep
<1> QED
  BY <1>1, <1>2, LastStepTrain, LastStepHook DEF IncrNext, Ended

(* The inductive invariant of the incremental updates.                     *)
IncrInv == IncrTypeOK /\ RowsInv /\ StepsInv /\ LastStep

(* At the end nobody runs and the hook has nothing in hand, so that what is*)
(* recorded is what was in flight when the last step was read.             *)
LEMMA EndIsComplete == IncrInv => EndComplete
<1> SUFFICES ASSUME IncrInv, chief.at = "ended" PROVE EndComplete
  BY DEF EndComplete
<1>1. /\ \A w \in Workers : run[w].at = "idle"
      /\ chief.dense = gstep /\ chief.sparse = gstep
  BY DEF IncrInv, StepsInv, AtTheEnd
<1>2. Pending = {} /\ ~Applied /\ ToRead = {}
  BY <1>1 DEF Pending, Unrecorded, Applied, ToRead
<1>3. chief.todo = {} /\ DOMAIN chief.got = {}
  BY DEF IncrInv, RowsInv, HandOfReading
<1>4. InHand = {}
  BY <1>3 DEF InHand, IncrInv, RowsInv, HandOfReading
<1>5. ASSUME NEW r \in Rows PROVE served[r] = ver[r] \/ r \in lost \cup missed
  BY <1>1, <1>2, <1>4 DEF IncrInv, RowsInv, NothingUnsent, LastStep, RowsOfLastStep
<1>6. served[Dense] = ver[Dense] \/ (gstep = 0 /\ Dense \in lost)
  BY <1>1, <1>2 DEF IncrInv, LastStep, DenseOfLastStep
<1> QED
  BY <1>5, <1>6 DEF EndComplete

(* The invariant holds in every reachable state.                           *)
THEOREM IncrInvariant == IncrSpec => []IncrInv
  BY TypesInit, TypesStep, RowsInit, RowsStep, StepsInit, StepsStep, LastStepInit, LastStepStep,
     PTL DEF IncrSpec, IncrInv

(* When the job has ended, the reader of all messages has the trained      *)
(* model, but for what a restart left behind and the rows in flight when   *)
(* the hook read the last step.                                            *)
THEOREM EndsComplete == IncrSpec => []EndComplete
  BY IncrInvariant, EndIsComplete, PTL
=============================================================================
